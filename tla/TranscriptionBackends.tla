----------------------- MODULE TranscriptionBackends -----------------------
(***************************************************************************)
(* One backend of each provider, from connect() to its end: the classes that *)
(* implement TranscriptionBackend, over a WebSocket (OpenAI, Gemini,         *)
(* Deepgram, xAI), over a streaming request (Amazon Transcribe), or with no  *)
(* service at all (Dummy).                                                   *)
(*                                                                           *)
(* An action is one event: of the socket, of the request, a timer, or a call *)
(* of the owner.  The owner is OutgoingConnection, which detaches its        *)
(* callbacks and calls close() inside the first onError or onClosed it gets  *)
(* (doClose, or reconnectBackend of a recovery).  The backend is a record,   *)
(* and what a handler does to it is an operator on that record, so that the  *)
(* order of the calls in a handler is the order of application.  A socket    *)
(* that fails fires 'error', then 'close'; one closed before it opened does  *)
(* too ("aborting").  Gemini's messages are Blobs: they are read when they   *)
(* arrive and handled later (inbox).  The speech of a participant is an      *)
(* utterance at a time: finished segments and an interim that xAI revises.   *)
(***************************************************************************)
EXTENDS XAIGranularSegmenter

CONSTANTS Providers,
          Words,
          Repeats,     \* may a segment begin with all that was said before it?
          MaxWords,    \* bound: words said
          MaxChunks    \* bound: chunks of audio handed to Transcribe

ASSUME BackendsAssumption ==
    /\ Providers \subseteq {"openai", "gemini", "deepgram", "xai", "xai_granular", "aws", "dummy"}
    /\ Repeats \in BOOLEAN /\ MaxWords \in Nat /\ MaxChunks \in Nat

VARIABLES
    provider,
    backend,    \* the object: see Backend
    cause,      \* history: what ended the stream first
    inbox,      \* Gemini's messages that wait for their text()
    utterance,  \* of the speaker: [base: finished segments, interim: the words since]
    spoken,     \* history: the utterances that ended, as their last message had them
    finals,     \* history: the words handed over in finals
    revised     \* history: has xAI changed a word that was already frozen?

speech == <<utterance, spoken, finals, revised>>
vars == <<provider, backend, cause, inbox, speech>>

OverWebSocket == provider \in {"openai", "gemini", "deepgram", "xai", "xai_granular"}
IsXAI == provider \in {"xai", "xai_granular"}
Granular == provider = "xai_granular"

Source == [queue : 0..MaxChunks, taken : 0..MaxChunks, done : BOOLEAN,
           generator : {"running", "waiting", "arming", "finished"}]
-----------------------------------------------------------------------------
(* AudioStreamSource. *)
Running(g) == IF g = "waiting" THEN "running" ELSE g

Push(src) == [src EXCEPT !.queue = @ + 1, !.generator = Running(@)]
Nudge(src) == [src EXCEPT !.generator = Running(@)]
End(src) == [src EXCEPT !.done = TRUE, !.generator = Running(@)]

\* mutant: finds the queue empty first, and arms its wakeup afterwards
CheckThenWait(src) ==
    CASE src.generator = "arming" -> [src EXCEPT !.generator = "waiting"]
      [] src.queue > 0 -> [src EXCEPT !.queue = @ - 1, !.taken = @ + 1]
      [] src.queue = 0 /\ src.done -> [src EXCEPT !.generator = "finished"]
      [] OTHER -> [src EXCEPT !.generator = "arming"]

\* The request takes a chunk, or the generator returns, or waits for the signal.
Generate(src) ==
    CASE src.queue > 0 -> [src EXCEPT !.queue = @ - 1, !.taken = @ + 1]
      [] src.queue = 0 /\ src.done -> [src EXCEPT !.generator = "finished"]
      [] OTHER -> [src EXCEPT !.generator = "waiting"]
-----------------------------------------------------------------------------
(* What handlers do to the backend. *)
CloseSocket(socket) ==
    CASE socket = "connecting" -> "aborting"
      [] socket = "open" -> "closing"
      [] OTHER -> socket

Settled(promise, how) == IF promise = "pending" THEN how ELSE promise

\* mutant: the timer and the audio source stay
HalfShut(b) == [b EXCEPT !.socket = CloseSocket(@), !.status = "closed", !.flushTimer = FALSE]

\* close() when nobody listens any more
Shut(b) ==
    [b EXCEPT !.socket = CloseSocket(@), !.status = "closed",
              !.keepAlive = FALSE, !.flushTimer = FALSE, !.source = End(@)]

\* onError or onClosed: the owner detaches and closes.
Tell(b, kind) ==
    IF b.attached THEN [Shut(b) EXCEPT !.attached = FALSE, !.heard = kind] ELSE b

\* mutant: xAI's close() forgets its owner
CloseQuietly(b) == [Shut(b) EXCEPT !.attached = FALSE]

\* close(): those of xAI and Transcribe tell their owner, the others do not.
CloseBackend(b) ==
    IF IsXAI \/ (provider = "aws" /\ b.status # "closed") THEN Shut(Tell(b, "closed")) ELSE Shut(b)

\* mutant: the error is reported after the close
CloseThenTell(b, kind) == Tell(CloseBackend(b), kind)

\* A message of type error.  Deepgram and Gemini leave the closing to their owner.
ErrorMessage(b, kind) ==
    LET told == Tell(b, kind)
    IN  CASE provider = "gemini" -> [told EXCEPT !.promise = Settled(@, "rejected")]
          [] provider = "deepgram" -> told
          [] OTHER -> CloseBackend(told)

\* The 'close' event.
ClosedEvent(b) ==
    LET gone == [b EXCEPT !.socket = "closed"]
    IN  IF IsXAI THEN CloseBackend(gone) ELSE Tell(CloseBackend(gone), "closed")

First(kind) == cause' = IF cause = "none" THEN kind ELSE cause
-----------------------------------------------------------------------------
NewBackend ==
    [status |-> "pending", promise |-> "pending", attached |-> TRUE, heard |-> "nothing",
     socket |-> IF OverWebSocket THEN "connecting" ELSE "none",
     keepAlive |-> FALSE, flushTimer |-> FALSE, segmenter |-> Fresh,
     source |-> [queue |-> 0, taken |-> 0, done |-> FALSE, generator |-> "running"]]

(* After connect().  Without its API key a backend throws: the owner catches that, and
   closes the connection without a close() on the backend. *)
Init ==
    /\ provider \in Providers
    /\ \/ /\ cause = "none"
          /\ backend = IF provider = "dummy"
                       THEN [NewBackend EXCEPT !.status = "connected", !.promise = "resolved"]
                       ELSE NewBackend
       \/ /\ provider \in {"gemini", "deepgram", "xai", "xai_granular"} /\ cause = "no key"
          /\ backend = [NewBackend EXCEPT !.socket = "none", !.promise = "rejected",
                                          !.attached = FALSE, !.heard = "rejected"]
    /\ inbox = {}
    /\ utterance = [base |-> <<>>, interim |-> <<>>]
    /\ spoken = <<>> /\ finals = <<>> /\ revised = FALSE

(* The open event.  Gemini sends its setup and stays pending. *)
Open ==
    /\ backend.socket = "connecting"
    /\ backend' = IF provider = "gemini" THEN [backend EXCEPT !.socket = "open"]
                  ELSE [backend EXCEPT !.socket = "open", !.status = "connected", !.promise = "resolved",
                                       !.keepAlive = provider = "deepgram"]
    /\ UNCHANGED <<provider, cause, inbox, speech>>

(* The error event. *)
SocketError ==
    /\ backend.socket \in {"connecting", "aborting", "open"}
    /\ LET told == CloseBackend([Tell(backend, "error") EXCEPT !.status = "failed"])
       IN  backend' = [told EXCEPT !.socket = "closing", !.promise = Settled(@, "rejected")]
    /\ First("fault")
    /\ UNCHANGED <<provider, inbox, speech>>

(* The close event: the provider ends the stream, or the handshake of our close is over. *)
SocketCloses ==
    /\ backend.socket \in {"open", "closing"}
    /\ backend' = ClosedEvent(backend)
    /\ First("end")
    /\ UNCHANGED <<provider, inbox, speech>>

(* An error message of OpenAI, Deepgram or xAI.  Only xAI's may be a timeout. *)
ProviderError(kind) ==
    /\ provider \in {"openai", "deepgram", "xai", "xai_granular"}
    /\ kind = "recoverable" => IsXAI
    /\ backend.socket \in {"open", "closing"}
    /\ backend' = ErrorMessage(backend, kind)
    /\ First(IF kind = "recoverable" THEN "transient" ELSE "fault")
    /\ UNCHANGED <<provider, inbox, speech>>
-----------------------------------------------------------------------------
(* Gemini: a message is handled when its text is there. *)
Arrives(message) ==
    /\ provider = "gemini" /\ backend.socket \in {"open", "closing"}
    /\ message = "setupComplete" => backend.promise = "pending"
    /\ message = "serverContent" => backend.promise = "resolved"
    /\ inbox' = inbox \cup {message}
    /\ UNCHANGED <<provider, backend, cause, speech>>

Hear(b, words) == finals' = IF b.attached THEN finals \o words ELSE finals

HandleMessage(message) ==
    /\ message \in inbox /\ inbox' = inbox \ {message}
    /\ \/ /\ message = "setupComplete"
          /\ backend' = [backend EXCEPT !.status = "connected", !.promise = Settled(@, "resolved")]
          /\ UNCHANGED <<cause, speech>>
       \/ /\ message = "error"
          /\ backend' = ErrorMessage(backend, "error")
          /\ First("fault")
          /\ UNCHANGED speech
       \/ /\ message = "serverContent" /\ Len(finals) < MaxWords
          /\ \E w \in Words : Hear(backend, <<w>>)
          /\ UNCHANGED <<backend, cause, utterance, spoken, revised>>
    /\ UNCHANGED provider

(* A final transcript of the others, xAI's without granular finals included. *)
Transcript ==
    /\ provider \in {"openai", "deepgram", "xai", "aws"} /\ Len(finals) < MaxWords
    /\ IF provider = "aws" THEN backend.status = "connected"
       ELSE backend.socket \in {"open", "closing"}
    /\ \E w \in Words : Hear(backend, <<w>>)
    /\ UNCHANGED <<provider, backend, cause, inbox, utterance, spoken, revised>>
-----------------------------------------------------------------------------
(* xAI with granular finals. *)
Whole == utterance.base \o utterance.interim

\* What xAI may say next: the last word taken back, another one added, or both.
Hypotheses ==
    {text \in {SubSeq(utterance.interim, 1, Len(utterance.interim) - less) \o more :
                  less \in {0, 1}, more \in {<<>>} \cup {<<w>> : w \in Words}} :
        /\ text # <<>> /\ Len(spoken) + Len(utterance.base) + Len(text) <= MaxWords
        /\ Repeats \/ utterance.base = <<>> \/ ~IsPrefix(utterance.base, text)}

Speaking == Granular /\ backend.socket = "open"

\* Some words have aged since the segmenter was last looked at.
Aged == {[backend.segmenter EXCEPT !.stable = k] : k \in backend.segmenter.stable..Len(backend.segmenter.hyp)}

\* The turn is now said to be `text': are the words that were frozen still those?
Revises(text) ==
    revised' = (revised \/ ~IsPrefix(SubSeq(Whole, 1, FrozenCount(backend.segmenter)), text))

NeverArmed(s) == backend.flushTimer  \* mutant

\* scheduleGranularFlush, whatever the status
Armed(s) == HasDue(s)

(* handlePartial with an interim, or with a segment that is final. *)
Partial(isFinalSeg) ==
    /\ Speaking
    /\ \E text \in Hypotheses, s \in Aged :
        LET result == PushPartial(s, text, isFinalSeg, FALSE)
        IN  /\ backend' = [backend EXCEPT !.segmenter = result.segmenter, !.flushTimer = Armed(result.segmenter)]
            /\ Hear(backend, result.commits)
            /\ utterance' = IF isFinalSeg THEN [base |-> utterance.base \o text, interim |-> <<>>]
                            ELSE [utterance EXCEPT !.interim = text]
            /\ Revises(utterance'.base \o utterance'.interim)
    /\ UNCHANGED <<provider, cause, inbox, spoken>>

\* The turn ends with a text that may differ from what was heard before.
TurnEnds(text) ==
    LET result == PushPartial(backend.segmenter, text, TRUE, TRUE)
    IN  /\ backend' = [backend EXCEPT !.segmenter = result.segmenter, !.flushTimer = FALSE]
        /\ Hear(backend, result.commits)
        /\ spoken' = spoken \o text
        /\ Revises(text)
        /\ utterance' = [base |-> <<>>, interim |-> <<>>]
        /\ UNCHANGED <<provider, cause, inbox>>

(* handlePartial with speech_final. *)
SpeechFinal == Speaking /\ \E text \in Hypotheses : TurnEnds(utterance.base \o text)

(* handleDone: the whole turn once more as the stream ends. *)
Done ==
    /\ Speaking
    /\ IF HasActiveTurn(backend.segmenter) THEN TurnEnds(Whole)
       ELSE backend' = [backend EXCEPT !.flushTimer = FALSE] /\ UNCHANGED <<provider, cause, inbox, speech>>

(* A partial or done that comes after close(): nobody hears the words, which are left out
   here, but it schedules a flush or stops one all the same. *)
LatePartial ==
    /\ Granular /\ backend.socket = "closing"
    /\ \E scheduled \in BOOLEAN : backend' = [backend EXCEPT !.flushTimer = scheduled]
    /\ UNCHANGED <<provider, cause, inbox, speech>>

(* The timer of scheduleGranularFlush. *)
FlushTimer ==
    /\ backend.flushTimer
    /\ \/ /\ backend.status # "connected"
          /\ backend' = [backend EXCEPT !.flushTimer = FALSE]
          /\ UNCHANGED finals
       \/ /\ backend.status = "connected"
          /\ \E s \in Aged :
               /\ s.stable > FrozenCount(s)
               /\ LET result == Freeze(s)
                  IN  /\ backend' = [backend EXCEPT !.segmenter = result.segmenter,
                                                    !.flushTimer = Armed(result.segmenter)]
                      /\ Hear(backend, result.commits)
    /\ UNCHANGED <<provider, cause, inbox, utterance, spoken, revised>>
-----------------------------------------------------------------------------
(* Amazon Transcribe. *)
(* The response comes once audio has flowed, also after a close(). *)
RequestAnswered ==
    /\ provider = "aws" /\ backend.promise = "pending" /\ backend.source.taken > 0
    /\ backend' = [backend EXCEPT !.status = "connected", !.promise = "resolved"]
    /\ UNCHANGED <<provider, cause, inbox, speech>>

RequestFails ==
    /\ provider = "aws" /\ backend.promise = "pending"
    /\ backend' = [Tell([backend EXCEPT !.status = "failed"], "recoverable") EXCEPT !.promise = "rejected"]
    /\ First("transient")
    /\ UNCHANGED <<provider, inbox, speech>>

(* The result stream throws.  After a close() that is expected. *)
ResultStreamError ==
    /\ provider = "aws" /\ backend.promise = "resolved" /\ backend.status = "connected"
    /\ backend' = Tell([backend EXCEPT !.status = "failed"], "recoverable")
    /\ First("transient")
    /\ UNCHANGED <<provider, inbox, speech>>

(* sendAudio: a chunk, as soon as there is a source and until it is closed. *)
SendAudio ==
    /\ provider = "aws" /\ ~backend.source.done
    /\ backend.source.queue + backend.source.taken < MaxChunks
    /\ backend' = [backend EXCEPT !.source = Push(@)]
    /\ UNCHANGED <<provider, cause, inbox, speech>>

ForceCommit ==
    /\ provider = "aws" /\ backend.status = "connected" /\ ~backend.source.done
    /\ backend' = [backend EXCEPT !.source = Nudge(@)]
    /\ UNCHANGED <<provider, cause, inbox, speech>>

(* The request asks for the next chunk. *)
NextChunk ==
    /\ provider = "aws" /\ backend.source.generator \in {"running", "arming"}
    /\ backend' = [backend EXCEPT !.source = Generate(@)]
    /\ UNCHANGED <<provider, cause, inbox, speech>>
-----------------------------------------------------------------------------
(* The owner has no use for the backend any more: it detaches and closes it. *)
Release ==
    /\ backend.attached
    /\ backend' = [CloseBackend([backend EXCEPT !.attached = FALSE]) EXCEPT !.heard = "released"]
    /\ First("owner")
    /\ UNCHANGED <<provider, inbox, speech>>

Next ==
    \/ Open \/ SocketError \/ SocketCloses
    \/ \E kind \in {"recoverable", "error"} : ProviderError(kind)
    \/ \E m \in {"setupComplete", "serverContent", "error"} : Arrives(m) \/ HandleMessage(m)
    \/ Transcript
    \/ \E isFinalSeg \in BOOLEAN : Partial(isFinalSeg)
    \/ SpeechFinal \/ Done \/ LatePartial \/ FlushTimer
    \/ RequestAnswered \/ RequestFails \/ ResultStreamError
    \/ SendAudio \/ ForceCommit \/ NextChunk
    \/ Release

Spec == Init /\ [][Next]_vars

\* A handshake ends one way or another, a setup is answered, a request is read and
\* answered, and messages that arrived are handled.
Fairness ==
    /\ WF_vars(Open \/ SocketError \/ (backend.socket = "closing" /\ SocketCloses))
    /\ WF_vars(backend.status = "pending" /\ Arrives("setupComplete"))
    /\ WF_vars(\E m \in {"setupComplete", "serverContent", "error"} : HandleMessage(m))
    /\ WF_vars(NextChunk) /\ WF_vars(RequestAnswered \/ RequestFails)

FairSpec == Spec /\ Fairness
-----------------------------------------------------------------------------
\* Every variable keeps its kind.
TypeOK ==
    /\ provider \in Providers
    /\ backend.status \in {"pending", "connected", "failed", "closed"}
    /\ backend.promise \in {"pending", "resolved", "rejected"}
    /\ backend.socket \in {"none", "connecting", "aborting", "open", "closing", "closed"}
    /\ backend.source \in Source
    /\ inbox \subseteq {"setupComplete", "serverContent", "error"}
    /\ Len(spoken) <= MaxWords /\ revised \in BOOLEAN

(* Every provider's backend keeps the contract of the interface: in particular none dies
   without its owner hearing of it in the same step, an xAI timeout is heard of as
   recoverable before the close that follows it, and nothing is transcribed afterwards. *)
Stream == IF cause # "none" THEN cause
          ELSE IF backend.promise = "resolved" THEN "open" ELSE "opening"

Contract == INSTANCE TranscriptionBackend
                WITH stream <- Stream, heard <- backend.heard, transcripts <- Len(finals)

ContractHolds == Contract!Spec

\* A backend that is over leaves nothing running: no socket open or opening, no
\* keepalive interval, no request body that waits for audio.
NothingLeft ==
    ~backend.attached => /\ backend.socket \notin {"connecting", "open"}
                         /\ ~backend.keepAlive
                         /\ provider = "aws" => backend.source.done

\* Granular finals are the turns as they were said, once each and in order, however the
\* segments, revisions, timers and the repetition at the end of the stream fall -
\* unless xAI takes back a word that was frozen.
TurnsKept ==
    Granular /\ backend.attached /\ ~revised
        => /\ IsPrefix(spoken, finals)
           /\ Whole = <<>> => finals = spoken

\* A word that is not held back is committed also when xAI says nothing more: while the
\* stream is up there is a timer for it.
FlushArmed == Granular /\ backend.status = "connected" /\ HasDue(backend.segmenter) => backend.flushTimer

\* What a speaker reads of a long turn is right and in time: the two invariants together.
GranularSound == TurnsKept /\ FlushArmed

\* connect() settles or the owner hears of an end, and audio that Transcribe's backend
\* accepted is taken by the request, which ends when the backend is closed: no wakeup of
\* the generator is lost.
Progress ==
    /\ backend.promise = "pending" ~> (backend.promise # "pending" \/ cause # "none")
    /\ backend.source.queue > 0 ~> backend.source.queue = 0
    /\ (provider = "aws" /\ backend.source.done) ~> backend.source.generator = "finished"

\* The owner hears of a close only of a stream that opened; it counts open streams by
\* that.  Gemini's backend does not keep it (see README).
ClosedAfterOpen == backend.heard = "closed" => backend.promise = "resolved"

\* A backend that is closed stays so.  Gemini's and Transcribe's do not (see README).
StaysClosed == [][backend.status = "closed" => backend'.status = "closed"]_vars
=============================================================================
