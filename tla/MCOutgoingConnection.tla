------------------------ MODULE MCOutgoingConnection ------------------------
(* Provider profiles for model checking OutgoingConnection. *)
EXTENDS OutgoingConnection

\* Providers that always want PCM: Opus is decoded, by a decoder that loads
\* asynchronously, and PCM is resampled.
Pcm(p) == [provider |-> p, desired |-> [f \in InputFormats |-> "l16"], async |-> {"opus"} \cap InputFormats]

\* Deepgram with DEEPGRAM_ENCODING=opus: Opus goes through undecoded.
PassThrough == [provider |-> "deepgram", desired |-> [f \in InputFormats |-> f], async |-> {}]

XAI == {Pcm("xai")}
AWS == {Pcm("aws")}
Deepgram == {Pcm("deepgram")}
DeepgramOpus == {PassThrough}
SocketProviders == XAI \cup Deepgram
AllProviders == XAI \cup AWS \cup Deepgram \cup DeepgramOpus
=============================================================================
