--------------------------- MODULE TranslatedTalk ---------------------------
(***************************************************************************)
(* The output half of class TranslatorConnection: translated audio and      *)
(* transcript fragments arrive from the translation service, the audio is   *)
(* re-encoded, given RTP timing and forwarded as frames bracketed into      *)
(* talks.  The service marks no end of an utterance: a timer infers it from *)
(* silence.                                                                 *)
(*                                                                          *)
(* An action is one message of the service, one timer callback or one       *)
(* settled promise, run to completion.  An audio delta is modelled per frame*)
(* it encodes to: that frames of one delta follow each other at once is not *)
(* assumed.  The wall clock advances between the actions.                   *)
(***************************************************************************)
EXTENDS RtpTimestamper, Sequences, FiniteSets

CONSTANTS Configs,      \* talkSilenceTimeoutMs and emitTranscripts of a deployment
          FrameSizes,   \* lengths of an encoded frame
          MaxTime,      \* bound: wall clock with no timer pending, or at a fragment
          MaxLate,      \* bound: how late a timer's callback runs
          MaxFrames,    \* bound: frames encoded
          MaxFragments  \* bound: transcript fragments

ASSUME TalkAssumption ==
    /\ Configs \subseteq [silence : Int, transcripts : BOOLEAN]
    /\ FrameSizes \subseteq Nat
    /\ MaxTime \in Nat /\ MaxLate \in Nat /\ MaxFrames \in Nat /\ MaxFragments \in Nat

VARIABLES
    config,
    encoder, loading,                            \* encoderStatus, its promise is not settled
    isClosed,
    talkActive, talkStartTimestamp, lastFrameTimestamp, talkBytes,
    timer,                                       \* talkDeadline of a pending talkTimeout
    transcriptBuffer,
    out,                                         \* onTalkStart, onAudioFrame, onTalkStop calls
    interims, finals                             \* onTranscription calls

talk == <<talkActive, talkStartTimestamp, lastFrameTimestamp, talkBytes>>
text == <<transcriptBuffer, interims, finals>>
vars == <<now, clock, config, encoder, loading, isClosed, talk, timer, out, text>>

NoTimer == -1

Start(ts) == [kind |-> "start", ts |-> ts, seq |-> 0, bytes |-> 0, duration |-> 0]
Frame(ts, seq, bytes) == [kind |-> "frame", ts |-> ts, seq |-> seq, bytes |-> bytes, duration |-> 0]
Stop(ts, bytes, duration) == [kind |-> "stop", ts |-> ts, seq |-> 0, bytes |-> bytes, duration |-> duration]
-----------------------------------------------------------------------------
FromArrival(ahead) == now + config.silence  \* mutant: buffered audio is not waited for

Deadline(ahead) == now + ahead + config.silence

AnyDeadline(ahead) == TRUE  \* mutant: a transcript fragment may shorten the timer

\* A pending timer is only ever extended.
Extends(ahead) == timer = NoTimer \/ Deadline(ahead) > timer

ArmOnce(ahead) ==  \* mutant: the cleared timer is not set again
    timer' = IF config.silence > 0 /\ Extends(ahead)
             THEN IF timer = NoTimer THEN Deadline(ahead) ELSE NoTimer
             ELSE timer

ArmTalkSilenceTimer(ahead) ==
    timer' = IF config.silence > 0 /\ Extends(ahead) THEN Deadline(ahead) ELSE timer

FinalizeWithTalk ==  \* mutant: only an audio talk finalizes its transcript
    /\ finals' = IF transcriptBuffer = <<>> \/ ~talkActive THEN finals
                 ELSE Append(finals, transcriptBuffer)
    /\ transcriptBuffer' = <<>>
    /\ UNCHANGED interims

FinalizePendingTranscript ==
    /\ finals' = IF transcriptBuffer = <<>> \/ isClosed THEN finals
                 ELSE Append(finals, transcriptBuffer)
    /\ transcriptBuffer' = <<>>
    /\ UNCHANGED interims

\* One past the last frame.
StopTimestamp == lastFrameTimestamp + SamplesPerFrame

EndTalk ==
    /\ timer' = NoTimer
    /\ FinalizePendingTranscript
    /\ talkActive' = FALSE
    /\ out' = IF ~talkActive THEN out
              ELSE Append(out, Stop(StopTimestamp, talkBytes,
                                    (StopTimestamp - talkStartTimestamp) \div TicksPerMs))
    /\ UNCHANGED <<talkStartTimestamp, lastFrameTimestamp, talkBytes>>

\* doClose, as far as this half is concerned.
DoClose ==
    /\ ~isClosed
    /\ isClosed' = TRUE
    /\ EndTalk
    /\ UNCHANGED <<now, clock, config>>
-----------------------------------------------------------------------------
Init ==
    /\ now = 0
    /\ RtpInit
    /\ config \in Configs
    /\ encoder = "pending" /\ loading = TRUE
    /\ isClosed = FALSE
    /\ talkActive = FALSE
    /\ talkStartTimestamp = 0 /\ lastFrameTimestamp = 0 /\ talkBytes = 0
    /\ timer = NoTimer
    /\ transcriptBuffer = <<>> /\ out = <<>> /\ interims = <<>> /\ finals = <<>>

Tick ==
    /\ IF timer = NoTimer THEN now < MaxTime ELSE now < timer + MaxLate
    /\ now' = now + 1
    /\ UNCHANGED <<clock, config, encoder, loading, isClosed, talk, timer, out, text>>

(* The encoder loads or fails to, perhaps after a close whose `closed' its    *)
(* status then overwrites.                                                   *)
EncoderReady ==
    /\ loading
    /\ loading' = FALSE
    /\ encoder' = "ready"
    /\ UNCHANGED <<now, clock, config, isClosed, talk, timer, out, text>>

EncoderFails ==
    /\ loading
    /\ loading' = FALSE
    /\ \/ /\ DoClose
          /\ encoder' = "closed"
       \/ /\ isClosed
          /\ encoder' = "failed"
          /\ UNCHANGED <<now, clock, config, isClosed, talk, timer, out, text>>

SumKept(size) == talkBytes + size  \* mutant: the sum is not reset

BytesAfter(size) == IF talkActive THEN talkBytes + size ELSE size

(* sendAudioFrame for a voice frame of the given size; a comfort noise frame *)
(* changes nothing.                                                          *)
AudioFrame(size) ==
    LET frame == Frame(Timestamp, SequenceNumber, size)
    IN  /\ encoder = "ready" /\ ~isClosed  \* closing frees the encoder
        /\ Cardinality({i \in DOMAIN out : out[i].kind = "frame"}) < MaxFrames
        /\ NextFrameTimestamp
        /\ talkActive' = TRUE
        /\ talkBytes' = BytesAfter(size)
        /\ lastFrameTimestamp' = Timestamp
        /\ ArmTalkSilenceTimer(BufferAhead)
        /\ \/ /\ ~talkActive
              /\ talkStartTimestamp' = Timestamp
              /\ out' = out \o <<Start(Timestamp), frame>>
           \/ /\ talkActive
              /\ out' = Append(out, frame)
              /\ UNCHANGED talkStartTimestamp
        /\ UNCHANGED <<now, config, encoder, loading, isClosed, text>>

(* A transcript fragment.  After a close the service's last messages still   *)
(* arrive: they are buffered and arm the timer, but no callback is attached. *)
TranscriptDelta ==
    LET fragment == Len(interims) + 1
    IN  /\ config.transcripts
        /\ fragment <= MaxFragments /\ Len(transcriptBuffer) < MaxFragments /\ now <= MaxTime
        /\ transcriptBuffer' = Append(transcriptBuffer, fragment)
        /\ interims' = IF isClosed THEN interims ELSE Append(interims, fragment)
        /\ ArmTalkSilenceTimer(0)
        /\ UNCHANGED <<now, clock, config, encoder, loading, isClosed, talk, out, finals>>

\* The timer's callback runs at its deadline or later.
TalkTimeout ==
    /\ timer # NoTimer /\ now >= timer
    /\ EndTalk
    /\ UNCHANGED <<now, clock, config, encoder, loading, isClosed>>

\* close(), an `error' message of the service, or the end of its socket.
Close ==
    /\ DoClose
    /\ encoder' = "closed"
    /\ UNCHANGED loading

Next ==
    \/ Tick \/ TalkTimeout
    \/ EncoderReady \/ EncoderFails
    \/ \E size \in FrameSizes : AudioFrame(size)
    \/ TranscriptDelta
    \/ Close

Spec == Init /\ [][Next]_vars

(* Time passes and due timers run.  Nothing is assumed of the service. *)
FairSpec == Spec /\ WF_vars(Tick) /\ WF_vars(TalkTimeout)
-----------------------------------------------------------------------------
Events == [kind : {"start", "frame", "stop"}, ts : Nat, seq : Nat, bytes : Nat, duration : Nat]

\* Every variable holds a value of its kind; a sequence number fits its field.
TypeOK ==
    /\ now \in Nat
    /\ nextTimestamp \in Nat
    /\ sequenceNumber \in -1..(SeqModulus - 1)
    /\ playoutEndWall \in Nat \cup {Undefined}
    /\ config \in Configs
    /\ encoder \in {"pending", "ready", "failed", "closed"}
    /\ loading \in BOOLEAN
    /\ isClosed \in BOOLEAN
    /\ talkActive \in BOOLEAN
    /\ talkStartTimestamp \in Nat /\ lastFrameTimestamp \in Nat /\ talkBytes \in Nat
    /\ timer \in Nat \cup {NoTimer}
    /\ transcriptBuffer \in Seq(Nat) /\ interims \in Seq(Nat) /\ finals \in Seq(Seq(Nat))
    /\ out \in Seq(Events)
-----------------------------------------------------------------------------
FrameIndices == {i \in DOMAIN out : out[i].kind = "frame"}
FrameNo(i) == Cardinality({j \in FrameIndices : j <= i})

\* The bytes of the frames at positions s + 1 to t.
BytesBetween(s, t) ==
    LET sum[k \in s..t] == IF k = s THEN 0 ELSE sum[k - 1] + out[k].bytes IN sum[t]

\* What the final transcripts of ss say together.
Said(ss) == LET said[k \in 0..Len(ss)] == IF k = 0 THEN <<>> ELSE said[k - 1] \o ss[k] IN said[Len(ss)]

\* The forwarded frames form one RTP stream: no two overlap, whatever bursts and
\* pauses they came in and whichever talk they belong to, and their sequence
\* numbers count them modulo 2^16 (nextFrameTimestamp).
OneStream == \A i, j \in FrameIndices :
    i < j => /\ out[j].ts >= out[i].ts + SamplesPerFrame
             /\ out[j].seq = (out[i].seq + FrameNo(j) - FrameNo(i)) % SeqModulus

\* The media timeline is the playout timeline: the end of the media emitted is at
\* most the gap threshold behind the wall clock when a frame is given its place,
\* because all of a longer pause is inserted.
NotBehind == [][playoutEndWall' # playoutEndWall =>
    /\ playoutEndWall' >= now + FrameDuration - GapThreshold
    /\ playoutEndWall # Undefined =>
         nextTimestamp' - nextTimestamp = TicksPerMs * (playoutEndWall' - playoutEndWall)]_vars

\* The receiver sees talks: start, frames from the start's timestamp on, stop; the
\* stop is one past the last frame, and reports the span and the bytes of this
\* talk; a closed connection leaves no talk open (sendAudioFrame, endTalk, doClose).
TalksWellFormed == \A i \in DOMAIN out :
    /\ out[i].kind = "start" =>
         /\ i = 1 \/ out[i - 1].kind = "stop"
         /\ i < Len(out) /\ out[i + 1].kind = "frame" /\ out[i + 1].ts = out[i].ts
    /\ out[i].kind = "stop" =>
         \E s \in 1..(i - 2) :
            /\ out[s].kind = "start"
            /\ \A k \in (s + 1)..(i - 1) : out[k].kind = "frame"
            /\ out[i].ts = out[i - 1].ts + SamplesPerFrame
            /\ out[i].duration * TicksPerMs = out[i].ts - out[s].ts
            /\ out[i].bytes = BytesBetween(s, i - 1)
    /\ isClosed => out[Len(out)].kind = "stop"

\* While a talk is open its timer is pending, and not due before the receiver has
\* played out everything sent and then heard silence for the configured time:
\* neither a burst nor a transcript fragment ends a talk early.
TimerCoversPlayout == talkActive /\ config.silence > 0 =>
    timer # NoTimer /\ timer >= playoutEndWall + config.silence

\* Two talks are as far apart on the media timeline as the silence that parted
\* them, where it is longer than what counts as jitter.
TalksApart == \A i \in DOMAIN out :
    (out[i].kind = "start" /\ i > 1 /\ config.silence > GapThreshold)
        => out[i].ts - out[i - 1].ts >= TicksPerMs * config.silence

\* One RTP stream, cut into well formed talks, with the silences between them.
StreamSound == OneStream /\ TalksWellFormed /\ TalksApart

\* The finals are the interims, each fragment once and in order: none is lost
\* when a talk ends without audio, when fragments trail a talk, or at close.
TranscriptKept ==
    interims = Said(finals) \o (IF isClosed THEN <<>> ELSE transcriptBuffer)

\* A talk ends, without any event of the service that says so, and its transcript
\* is finalized.
TalkEnds == (config.silence > 0 /\ (talkActive \/ transcriptBuffer # <<>>))
                ~> (~talkActive /\ transcriptBuffer = <<>>)
=============================================================================
