------------------------- MODULE OutgoingConnection -------------------------
(***************************************************************************)
(* One participant's transcription pipe (class OutgoingConnection): audio   *)
(* frames arrive from the client, pass through a decoder that may load      *)
(* asynchronously, and are sent to a provider backend that connects         *)
(* asynchronously, may fail, may be replaced in place, and may be torn down.*)
(*                                                                          *)
(* Grain of atomicity.  The code runs on one event loop.  An action is one  *)
(* task of that loop (a client message, a socket event, a promise settled   *)
(* by the outside), run to completion.  The continuations the task unblocks *)
(* are microtasks: they are separate Resume actions, and every other action *)
(* waits for them (MicrotasksDone), as the event loop does.                 *)
(*                                                                          *)
(* Backend instances are numbered in order of creation; 0 is `undefined'.   *)
(* A frame is its chunk number, the client stream it belongs to (the numbers *)
(* restart when the session is reattached to a new WebSocket), the format the*)
(* client declared for it, and whether it came late in its stream.  Frames   *)
(* without chunk information are not modelled: no decoder refuses them.      *)
(***************************************************************************)
EXTENDS Integers, Sequences, FiniteSets

CONSTANTS Formats,        \* audio formats
          InputFormats,   \* those a start event may declare
          Profiles,       \* the providers a session may ask for, and their formats
          MaxRecoveries,  \* MAX_CONSECUTIVE_RECOVERIES
          MaxBackends,    \* bound: backend instances created
          MaxStarts,      \* bound: start events after the first
          MaxReattaches,  \* bound: reattachments of the session
          MaxFrames       \* bound: media events

(* A profile is the backend class createBackend returns, its                 *)
(* getDesiredAudioFormat as a function of the input format, and the inputs   *)
(* whose decoder is ready only in a later task.                              *)
ASSUME FormatAssumption ==
    /\ InputFormats \subseteq Formats
    /\ Profiles \subseteq [provider : {"xai", "aws", "deepgram"},
                           desired : [InputFormats -> Formats],
                           async : SUBSET InputFormats]

\* Only the Opus-to-PCM decoders load asynchronously, and the one backend that
\* lets its desired format follow the input, Deepgram's, takes Opus through
\* undecoded then: no backend is replaced for a format while a decoder for it is
\* still loading, and Transcribe's, which wants PCM always, not for a format at all.
ASSUME AsyncAssumption == \A p \in Profiles :
    \/ p.provider # "aws" /\ p.async = {}
    \/ \A f, g \in InputFormats : p.desired[f] = p.desired[g]

ASSUME BoundAssumption ==
    /\ MaxRecoveries \in Nat
    /\ MaxBackends \in Nat \ {0}
    /\ MaxStarts \in Nat
    /\ MaxReattaches \in Nat
    /\ MaxFrames \in Nat

Backends == 1..MaxBackends
NoBackend == 0

VARIABLES
    profile,                        \* the provider of this session, fixed
    isClosed, gen, inFmt, desired,  \* isClosed, reinitGeneration, inputAudioFormat, activeDesiredFormat
    dstat, decoder,                 \* decoderStatus, decoder
    cur, recov,                     \* backend, consecutiveRecoveries
    nb, bstat, bfmt, hooked,        \* per backend: status, format it was opened for, onClosed attached
    tasks,                          \* async calls suspended at an await
    pin, pau, sent,                 \* pendingInputFrames, pendingAudioFrames, audio handed to backends
    idle,                           \* idleCommitTimeout is set
    gauge,                          \* this connection's share of backendConnectionsActive
    starts, frames,                 \* events so far
    stream, top,                    \* the client's stream and the highest chunk number it sent in it
    lost,                           \* history: frames refused although they came in order
    dropped,                        \* history: frames handed to a backend that took no audio yet
    owed,                           \* history: audio of the current backend waits for a commit or a final
    cause                           \* history: a fault or a close() by the proxy so far

control == <<isClosed, gen, inFmt, desired, dstat, cur, nb, bstat, bfmt, hooked, tasks, gauge>>
audio == <<decoder, recov, pin, pau, sent, lost, idle, owed>>
client == <<starts, frames, stream, top, dropped>>
history == <<client, cause>>
vars == <<profile, control, audio, history>>

NoDecoder == [in |-> "none", out |-> "none", gen |-> 0, last |-> 0]
-----------------------------------------------------------------------------
(* What distinguishes the providers. *)

Provider == profile.provider
Desired == profile.desired
AsyncInputs == profile.async

\* xAI flags "timed out" and Transcribe every stream error as recoverable.
Recoverable == CASE Provider = "xai" -> BOOLEAN
                 [] Provider = "aws" -> {TRUE}
                 [] OTHER            -> {FALSE}

\* Transcribe also reports a failed connect() as recoverable, before throwing.
ConnectErrorRecoverable == Provider = "aws"

AcceptsAudioBeforeConnected == Provider = "aws"

-----------------------------------------------------------------------------
(* Suspended calls.  `reinit' is reinitializeDecoder called by               *)
(* updateInputFormat, `initReinit' the one inside initializeBackend, `init'  *)
(* initializeBackend itself at its connect, `recover' recoverBackend.        *)

Task(kind, at, g, b, f, out) == [kind |-> kind, at |-> at, gen |-> g, b |-> b, in |-> f, out |-> out]

Tasks == [kind : {"initReinit", "init", "reinit", "recover"},
          at : {"decoder", "connecting", "resolved", "rejected"},
          gen : Nat, b : 0..MaxBackends, in : InputFormats, out : Formats]

\* A settled promise, or a decoder that is ready when it is created.
IsMicrotask(t) == \/ t.at \in {"resolved", "rejected"}
                  \/ t.at = "decoder" /\ t.in \notin AsyncInputs

MicrotasksDone == \A t \in tasks : ~IsMicrotask(t)

AnyGeneration(t) == TRUE  \* mutant: no generation check

\* The generation check: nothing overtook the call while it was suspended.
Current(t) == t.gen = gen

Settle(t, how) == (tasks \ {t}) \cup {[t EXCEPT !.at = how]}
-----------------------------------------------------------------------------
NotUncounted(st, g, b) == g  \* mutant: the suppressed onClosed is not made up for

\* The gauge g after backend b, in state st[b], is closed with its handlers off.
Uncount(st, g, b) == IF st[b] = "connected" THEN g - 1 ELSE g

(* doClose: free the decoder, detach and close the backend c, once.  st and  *)
(* g are the backend statuses and the gauge when it is called.               *)

DoClose(st, g, c) ==
    /\ isClosed' = TRUE
    /\ gen' = IF isClosed THEN gen ELSE gen + 1
    /\ dstat' = "closed"
    /\ decoder' = NoDecoder
    /\ hooked' = hooked \ {c}
    /\ bstat' = IF c = NoBackend THEN st ELSE [st EXCEPT ![c] = "closed"]
    /\ gauge' = IF c = NoBackend THEN g ELSE Uncount(st, g, c)
    /\ cur' = NoBackend
    /\ idle' = FALSE
    /\ owed' = "no"
    /\ UNCHANGED <<nb, bfmt>>

LeaveOld(st) == st  \* mutant: the old backend is only detached

CloseOld(st) == [st EXCEPT ![cur] = "closed"]

(* reconnectBackend up to its await: detach and close the old backend, open  *)
(* another one for format want.                                              *)
ReconnectBackend(st, want) ==
    /\ nb < MaxBackends
    /\ nb' = nb + 1
    /\ cur' = nb + 1
    /\ bstat' = [CloseOld(st) EXCEPT ![nb + 1] = "pending"]
    /\ hooked' = (hooked \ {cur}) \cup {nb + 1}
    /\ bfmt' = [bfmt EXCEPT ![nb + 1] = want]
    /\ gauge' = Uncount(st, gauge, cur)
    /\ owed' = "no"
    /\ UNCHANGED idle

WithinNoBudget == TRUE  \* mutant: the reconnect loop is not bounded

WithinBudget == recov < MaxRecoveries

Recovers(recoverable) == recoverable /\ ~isClosed /\ WithinBudget

(* backend.onError: recover in place while the budget lasts, else tear down. *)
OnError(st, recoverable, ts) ==
    \/ /\ Recovers(recoverable)
       /\ recov' = recov + 1
       /\ gen' = gen + 1
       /\ ReconnectBackend(st, desired)
       /\ tasks' = ts \cup {Task("recover", "connecting", gen + 1, nb + 1, inFmt, desired)}
       /\ UNCHANGED <<isClosed, dstat, decoder>>
    \/ /\ ~Recovers(recoverable)
       /\ DoClose(st, gauge, cur)
       /\ tasks' = ts
       /\ UNCHANGED recov
-----------------------------------------------------------------------------
(* Audio. *)

AcceptsAll(d, q, i) == TRUE                \* mutant: no order check
AcceptsWithGap(d, q, i) == q[i].n > d.last + 1  \* mutant: off by one

\* decodeChunk refuses a frame that is not newer than the last one it took.
Accepts(d, q, i) == q[i].n > d.last /\ \A j \in 1..(i - 1) : q[j].n < q[i].n
Accepted(d, q) == {i \in DOMAIN q : Accepts(d, q, i)}
Refused(d, q) == {q[i] : i \in {j \in DOMAIN q : ~Accepts(d, q, j) /\ ~q[j].late}}

\* The numbers of a finite set from the least to the greatest.
Ascending(S) ==
    CHOOSE o \in [1..Cardinality(S) -> S] : \A i, j \in DOMAIN o : i < j => o[i] < o[j]

\* q as d decodes it, each chunk with the formats and the identity of d
Decode(q, d) ==
    LET order == Ascending(Accepted(d, q))
    IN  [i \in DOMAIN order |->
           [frame |-> q[order[i]], dec |-> d.in, out |-> d.out, gen |-> d.gen]]

Advance(d, q) ==
    [d EXCEPT !.last = CHOOSE n \in {d.last} \cup {q[i].n : i \in Accepted(d, q)} :
                         n >= d.last /\ \A i \in Accepted(d, q) : n >= q[i].n]

To(q, b) == [i \in DOMAIN q |-> [audio |-> q[i], to |-> b]]

ResetAnyway(q) == 0  \* mutant: the guard is reset by a flush that sends nothing

\* consecutiveRecoveries after the chunks q were sent
AfterSending(q) == IF q = <<>> THEN recov ELSE 0

LeaveIdleTimer(q) == idle' = idle /\ owed' = IF q = <<>> THEN owed ELSE "yes"  \* mutant

\* resetIdleCommitTimeout: every chunk of q sent starts the idle timer afresh.
ResetIdleTimer(q) ==
    IF q = <<>> THEN UNCHANGED <<idle, owed>> ELSE idle' = TRUE /\ owed' = "yes"

(* processPendingInputFrames then processPendingAudioData: the frames queued *)
(* for decoder d, then the audio already decoded, go to backend b.           *)
Flush(d, b) ==
    LET out == To(Decode(pin, d) \o pau, b)
    IN  /\ sent' = sent \o out
        /\ recov' = AfterSending(out)
        /\ ResetIdleTimer(out)
        /\ decoder' = Advance(d, pin)
        /\ lost' = lost \cup Refused(d, pin)
        /\ pin' = <<>>
        /\ pau' = <<>>
NeverFlush == UNCHANGED audio  \* mutant

FlushIfReady == IF dstat = "ready" THEN Flush(decoder, cur) ELSE UNCHANGED audio

KeepQueues == UNCHANGED <<pin, pau>>  \* mutant: queues survive the format change

DropQueues == pin' = <<>> /\ pau' = <<>>
-----------------------------------------------------------------------------
(* The constructor: backend 1 exists, its first decoder is loading. *)
Init ==
    /\ profile \in Profiles
    /\ isClosed = FALSE
    /\ gen = 1
    /\ inFmt \in InputFormats
    /\ desired = Desired[inFmt]
    /\ dstat = "pending"
    /\ decoder = NoDecoder
    /\ cur = 1
    /\ recov = 0
    /\ nb = 1
    /\ bstat = [b \in Backends |-> IF b = 1 THEN "pending" ELSE "none"]
    /\ bfmt = [b \in Backends |-> Desired[inFmt]]
    /\ hooked = {}
    /\ tasks = {Task("initReinit", "decoder", 1, NoBackend, inFmt, Desired[inFmt])}
    /\ pin = <<>> /\ pau = <<>> /\ sent = <<>>
    /\ idle = FALSE /\ owed = "no"
    /\ gauge = 0
    /\ starts = 0 /\ frames = 0 /\ stream = 0 /\ top = 0
    /\ lost = {} /\ dropped = {}
    /\ cause = "none"

(* updateInputFormat with another format, and reinitializeDecoder up to its  *)
(* first await.  (An equal format is ignored.)                               *)
StartEvent(f) ==
    /\ MicrotasksDone
    /\ ~isClosed /\ starts < MaxStarts
    /\ f # inFmt
    /\ starts' = starts + 1
    /\ inFmt' = f
    /\ gen' = gen + 1
    /\ DropQueues
    /\ dstat' = "pending"
    /\ decoder' = NoDecoder
    /\ desired' = Desired[f]
    /\ \/ /\ Desired[f] = desired
          /\ tasks' = tasks \cup {Task("reinit", "decoder", gen + 1, NoBackend, f, Desired[f])}
          /\ UNCHANGED <<nb, cur, bstat, bfmt, hooked, gauge, idle, owed>>
       \/ /\ Desired[f] # desired
          /\ ReconnectBackend(bstat, Desired[f])
          /\ tasks' = tasks \cup {Task("reinit", "connecting", gen + 1, nb + 1, f, Desired[f])}
    /\ UNCHANGED <<isClosed, recov, sent, lost, frames, stream, top, dropped, cause>>

(* reinitializeDecoder after `await newDecoder.ready'; inside                *)
(* initializeBackend it is followed by setupBackendHandlers and connect().   *)
DecoderReady(t) ==
    /\ t \in tasks /\ t.at = "decoder"
    /\ IsMicrotask(t) \/ MicrotasksDone
    /\ \/ /\ ~Current(t)
          /\ UNCHANGED <<dstat, audio>>
       \/ /\ Current(t)
          /\ dstat' = "ready"
          /\ LET d == [in |-> t.in, out |-> t.out, gen |-> t.gen, last |-> 0]
             IN  \/ /\ cur # NoBackend /\ bstat[cur] = "connected"
                    /\ Flush(d, cur)
                 \/ /\ ~(cur # NoBackend /\ bstat[cur] = "connected")
                    /\ decoder' = d
                    /\ UNCHANGED <<recov, pin, pau, sent, lost, idle, owed>>
    /\ \/ /\ t.kind = "initReinit" /\ ~isClosed
          /\ hooked' = hooked \cup {cur}
          /\ tasks' = (tasks \ {t}) \cup {Task("init", "connecting", t.gen, cur, t.in, t.out)}
       \/ /\ ~(t.kind = "initReinit" /\ ~isClosed)
          /\ tasks' = tasks \ {t}
          /\ UNCHANGED hooked
    /\ UNCHANGED <<isClosed, gen, inFmt, desired, cur, nb, bstat, bfmt, gauge, history>>

(* The decoder fails to load, or none can be created (a sample rate nobody   *)
(* resamples).  The rejection reaches initializeBackend's catch, which looks *)
(* at isClosed only, or updateInputFormat's, which ignores a superseded      *)
(* generation.                                                               *)
DecoderFails(t) ==
    /\ t \in tasks /\ t.at = "decoder"
    /\ IsMicrotask(t) \/ MicrotasksDone
    /\ tasks' = tasks \ {t}
    /\ cause' = "fault"
    /\ \/ /\ t.kind = "initReinit" /\ ~isClosed
          /\ DoClose(bstat, gauge, NoBackend)  \* this.backend is undefined by then
       \/ /\ t.kind = "reinit" /\ Current(t)
          /\ DoClose(bstat, gauge, cur)
       \/ /\ IF t.kind = "initReinit" THEN isClosed ELSE ~Current(t)
          /\ UNCHANGED <<isClosed, gen, dstat, decoder, cur, nb, bstat, bfmt, hooked, gauge, idle, owed>>
    /\ UNCHANGED <<inFmt, desired, recov, pin, pau, sent, lost, client>>
-----------------------------------------------------------------------------
(* Events of the provider side. *)

Connecting(t) == t \in tasks /\ t.at = "connecting"

(* connect() succeeds.  Transcribe answers only after it has received audio. *)
BackendOpens(t) ==
    /\ MicrotasksDone
    /\ Connecting(t) /\ bstat[t.b] = "pending"
    /\ Provider = "aws" => \E i \in DOMAIN sent : sent[i].to = t.b
    /\ bstat' = [bstat EXCEPT ![t.b] = "connected"]
    /\ tasks' = Settle(t, "resolved")
    /\ UNCHANGED <<isClosed, gen, inFmt, desired, dstat, cur, nb, bfmt, hooked, gauge, audio, history>>

(* connect() fails while nobody asked for the backend to be closed: onError  *)
(* is called first, then the promise is rejected.                            *)
BackendFailsToConnect(t) ==
    /\ MicrotasksDone
    /\ Connecting(t) /\ bstat[t.b] = "pending"
    /\ cause' = "fault"
    /\ OnError([bstat EXCEPT ![t.b] = "failed"], ConnectErrorRecoverable, Settle(t, "rejected"))
    /\ UNCHANGED <<inFmt, desired, pin, pau, sent, lost, client>>

(* close() on a backend that was still connecting makes connect() reject.    *)
ConnectAborted(t) ==
    /\ MicrotasksDone
    /\ Connecting(t) /\ bstat[t.b] = "closed"
    /\ tasks' = Settle(t, "rejected")
    /\ UNCHANGED <<isClosed, gen, inFmt, desired, dstat, cur, nb, bstat, bfmt, hooked, gauge, audio, history>>

(* The stream of the current backend reports an error.  Transcribe's backend *)
(* marks itself failed before it calls onError, the others only afterwards.  *)
StreamError(recoverable) ==
    /\ MicrotasksDone
    /\ cur # NoBackend /\ bstat[cur] = "connected"
    /\ cause' = "fault"
    /\ OnError(IF Provider = "aws" THEN [bstat EXCEPT ![cur] = "failed"] ELSE bstat, recoverable, tasks)
    /\ UNCHANGED <<inFmt, desired, pin, pau, sent, lost, client>>

(* The provider closes the socket of backend b: onClosed decrements the      *)
(* gauge and tears the connection down.  (Gemini's backend, which may call   *)
(* onClosed before it is connected, is not among the profiles.)              *)
BackendCloses(b) ==
    /\ MicrotasksDone
    /\ Provider # "aws"
    /\ bstat[b] = "connected" /\ b \in hooked
    /\ cause' = "fault"
    /\ DoClose([bstat EXCEPT ![b] = "closed"], gauge - 1, cur)
    /\ UNCHANGED <<inFmt, desired, tasks, recov, pin, pau, sent, lost, client>>
(* onCompleteTranscription: a final transcript, of all the audio the backend *)
(* was sent or only of what came first, stops the idle timer.                *)
FinalTranscript(all) ==
    /\ MicrotasksDone
    /\ cur # NoBackend /\ bstat[cur] = "connected"
    /\ idle \/ owed = "yes"
    /\ \E i \in DOMAIN sent : sent[i].to = cur
    /\ idle' = FALSE
    /\ owed' = IF all \/ owed = "no" THEN "no" ELSE "passed"
    /\ UNCHANGED <<control, decoder, recov, pin, pau, sent, lost, history>>

(* The idle timer: forceCommit, once no audio was sent for a while.  While   *)
(* the backend is not connected the timer is spent and nothing is committed. *)
IdleCommit ==
    /\ MicrotasksDone
    /\ idle
    /\ idle' = FALSE
    /\ owed' = IF cur # NoBackend /\ bstat[cur] = "connected" THEN "no" ELSE owed
    /\ UNCHANGED <<control, decoder, recov, pin, pau, sent, lost, history>>
-----------------------------------------------------------------------------
(* Continuations of a connect(). *)

(* initializeBackend after its connect. *)
InitConnected(t) ==
    /\ t \in tasks /\ t.kind = "init" /\ t.at = "resolved"
    /\ tasks' = tasks \ {t}
    /\ gauge' = IF isClosed THEN gauge ELSE gauge + 1
    /\ IF isClosed THEN UNCHANGED audio ELSE FlushIfReady
    /\ UNCHANGED <<isClosed, gen, inFmt, desired, dstat, cur, nb, bstat, bfmt, hooked, history>>

(* initializeBackend's catch: forget the backend, close the connection. *)
InitFailed(t) ==
    /\ t \in tasks /\ t.kind = "init" /\ t.at = "rejected"
    /\ tasks' = tasks \ {t}
    /\ IF isClosed
       THEN UNCHANGED <<isClosed, gen, dstat, decoder, cur, nb, bstat, bfmt, hooked, gauge, idle, owed>>
       ELSE DoClose(bstat, gauge, NoBackend)
    /\ UNCHANGED <<inFmt, desired, recov, pin, pau, sent, lost, history>>

(* reconnectBackend after its connect: given up when the connection closed,  *)
(* undone when superseded; otherwise recoverBackend flushes and              *)
(* reinitializeDecoder creates its decoder.                                  *)
Reconnected(t) ==
    /\ t \in tasks /\ t.kind \in {"recover", "reinit"} /\ t.at = "resolved"
    /\ \/ /\ isClosed
          /\ tasks' = tasks \ {t}
          /\ UNCHANGED <<bstat, hooked, gauge, audio>>
       \/ /\ ~isClosed /\ ~Current(t)
          /\ tasks' = tasks \ {t}
          /\ hooked' = hooked \ {t.b}
          /\ bstat' = [bstat EXCEPT ![t.b] = "closed"]
          /\ gauge' = Uncount(bstat, gauge, t.b)
          /\ UNCHANGED audio
       \/ /\ ~isClosed /\ Current(t) /\ t.kind = "recover"
          /\ tasks' = tasks \ {t}
          /\ gauge' = gauge + 1
          /\ FlushIfReady
          /\ UNCHANGED <<bstat, hooked>>
       \/ /\ ~isClosed /\ Current(t) /\ t.kind = "reinit"
          /\ tasks' = (tasks \ {t}) \cup {Task("reinit", "decoder", t.gen, NoBackend, inFmt, t.out)}
          /\ gauge' = gauge + 1
          /\ UNCHANGED <<bstat, hooked, audio>>
    /\ UNCHANGED <<isClosed, gen, inFmt, desired, dstat, cur, nb, bfmt, history>>

(* reconnectBackend's catch. *)
ReconnectFailed(t) ==
    /\ t \in tasks /\ t.kind \in {"recover", "reinit"} /\ t.at = "rejected"
    /\ tasks' = tasks \ {t}
    /\ IF ~Current(t)
       THEN UNCHANGED <<isClosed, gen, dstat, decoder, cur, nb, bstat, bfmt, hooked, gauge, idle, owed>>
       ELSE DoClose(bstat, gauge, NoBackend)
    /\ UNCHANGED <<inFmt, desired, recov, pin, pau, sent, lost, history>>
-----------------------------------------------------------------------------
(* Calls by the proxy. *)

\* The backend has been told to connect.  The first one is not while initializeBackend
\* still awaits its decoder; every later one is connected as soon as it is created.
TakesAudio == ~\E t \in tasks : t.kind = "initReinit"

(* handleMediaEvent, decodeAndSend, sendOrEnqueueDecodedAudio, sendAudio for *)
(* chunk n: the next one of the stream, or a late one.  Transcribe's backend *)
(* has a source to feed only from connect() on, and drops audio before that. *)
Media(n) ==
    LET f == [stream |-> stream, n |-> n, fmt |-> inFmt, late |-> n <= top]
        chunk == Decode(<<f>>, decoder)
    IN  /\ MicrotasksDone
        /\ ~isClosed /\ frames < MaxFrames /\ n <= top + 1
        /\ frames' = frames + 1
        /\ top' = IF n > top THEN n ELSE top
        /\ \/ /\ dstat = "pending"
              /\ pin' = Append(pin, f)
              /\ UNCHANGED <<decoder, recov, pau, sent, lost, idle, owed, dropped>>
           \/ /\ dstat = "ready"
              /\ decoder' = Advance(decoder, <<f>>)
              /\ lost' = lost \cup Refused(decoder, <<f>>)
              /\ \/ /\ \/ bstat[cur] = "connected"
                       \/ bstat[cur] = "pending" /\ AcceptsAudioBeforeConnected /\ TakesAudio
                    /\ sent' = sent \o To(chunk, cur)
                    /\ recov' = AfterSending(chunk)
                    /\ ResetIdleTimer(chunk)
                    /\ UNCHANGED <<pau, dropped>>
                 \/ /\ bstat[cur] = "pending" /\ AcceptsAudioBeforeConnected /\ ~TakesAudio
                    /\ dropped' = dropped \cup {chunk[i].frame : i \in DOMAIN chunk}
                    /\ recov' = AfterSending(chunk)
                    /\ idle' = (idle \/ chunk # <<>>)
                    /\ UNCHANGED <<pau, sent, owed>>
                 \/ /\ bstat[cur] = "pending" /\ ~AcceptsAudioBeforeConnected
                    /\ pau' = pau \o chunk
                    /\ UNCHANGED <<recov, sent, idle, owed, dropped>>
                 \/ /\ bstat[cur] \in {"failed", "closed"}
                    /\ UNCHANGED <<recov, pau, sent, idle, owed, dropped>>
              /\ UNCHANGED pin
        /\ UNCHANGED <<control, starts, stream, cause>>

(* resetChunkTracking, when the session is reattached to a new WebSocket on  *)
(* which the client numbers its chunks from the start.                       *)
ResetChunkTracking ==
    /\ MicrotasksDone
    /\ ~isClosed /\ stream < MaxReattaches
    /\ stream' = stream + 1
    /\ top' = 0
    /\ decoder' = [decoder EXCEPT !.last = 0]
    /\ UNCHANGED <<control, recov, pin, pau, sent, lost, idle, owed, starts, frames, dropped, cause>>

(* close(), when the session ends. *)
Close ==
    /\ MicrotasksDone
    /\ ~isClosed
    /\ cause' = "proxy"
    /\ DoClose(bstat, gauge, cur)
    /\ UNCHANGED <<inFmt, desired, tasks, recov, pin, pau, sent, lost, client>>
-----------------------------------------------------------------------------
Resume ==
    /\ \E t \in tasks : \/ DecoderReady(t)
                       \/ InitConnected(t) \/ InitFailed(t)
                       \/ Reconnected(t) \/ ReconnectFailed(t)
    /\ UNCHANGED profile

ConnectSettles ==
    /\ \E t \in tasks : \/ BackendOpens(t)
                       \/ BackendFailsToConnect(t)
                       \/ ConnectAborted(t)
    /\ UNCHANGED profile

(* What nobody has to do: faults, and the client's and the proxy's calls. *)
Event ==
    /\ \/ \E t \in tasks : DecoderFails(t)
       \/ \E r \in Recoverable : StreamError(r)
       \/ \E b \in Backends : BackendCloses(b)
       \/ \E all \in BOOLEAN : FinalTranscript(all)
       \/ \E f \in InputFormats : StartEvent(f)
       \/ \E n \in 1..MaxFrames : Media(n)
       \/ ResetChunkTracking
       \/ Close
    /\ UNCHANGED profile

IdleTimer == IdleCommit /\ UNCHANGED profile

Next == Resume \/ ConnectSettles \/ IdleTimer \/ Event

Spec == Init /\ [][Next]_vars

(* A decoder finishes loading, a connect settles one way or the other, the   *)
(* event loop runs what they unblock, and timers fire.  Nothing is assumed of *)
(* the client, of final transcripts or of provider errors.                    *)
FairSpec == Spec /\ WF_vars(Resume) /\ WF_vars(ConnectSettles) /\ WF_vars(IdleTimer)
-----------------------------------------------------------------------------
Decoders == [in : InputFormats, out : Formats, gen : Nat, last : Nat] \cup {NoDecoder}
Frames == [stream : 0..MaxReattaches, n : 1..MaxFrames, fmt : InputFormats, late : BOOLEAN]
Chunks == [frame : Frames, dec : InputFormats, out : Formats, gen : Nat]

\* Every variable holds a value of its kind (OutgoingConnection's fields).
TypeOK ==
    /\ profile \in Profiles
    /\ isClosed \in BOOLEAN
    /\ gen \in Nat
    /\ inFmt \in InputFormats
    /\ desired \in Formats
    /\ dstat \in {"pending", "ready", "closed"}
    /\ decoder \in Decoders
    /\ cur \in 0..MaxBackends
    /\ recov \in 0..MaxRecoveries
    /\ nb \in Backends
    /\ bstat \in [Backends -> {"none", "pending", "connected", "failed", "closed"}]
    /\ bfmt \in [Backends -> Formats]
    /\ hooked \subseteq Backends
    /\ tasks \subseteq Tasks
    /\ pin \in Seq(Frames)
    /\ pau \in Seq(Chunks)
    /\ sent \in Seq([audio : Chunks, to : Backends])
    /\ gauge \in Int
    /\ starts \in 0..MaxStarts
    /\ frames \in 0..MaxFrames
    /\ stream \in 0..MaxReattaches
    /\ top \in 0..MaxFrames
    /\ lost \subseteq Frames /\ dropped \subseteq Frames
    /\ idle \in BOOLEAN
    /\ owed \in {"no", "yes", "passed"}
    /\ cause \in {"none", "fault", "proxy"}
-----------------------------------------------------------------------------
(* Safety. *)

\* The provider wants one format whatever the client sends: its backend is never
\* replaced for a format.
OneDesired == \A f, g \in InputFormats : Desired[f] = Desired[g]

\* Every other format of the client's needs another backend.
EachItsOwn == \A f, g \in InputFormats : f # g => Desired[f] # Desired[g]

\* A decoder in use was made for the format the client declared last and for
\* the format its backend was opened for, however many start events, recoveries
\* and closes overtook each other while it was loading (reinitGeneration).
FreshDecoder == dstat = "ready" =>
    /\ decoder.in = inFmt
    /\ decoder.out = desired
    /\ desired = Desired[inFmt]

\* Every chunk handed to a backend was decoded as the format its frame was
\* declared in, and into the format that backend was opened for: no queue and
\* no decoder survives a format change (reinitializeDecoder's resets).
FormatMatch == \A i \in DOMAIN sent :
    /\ sent[i].audio.dec = sent[i].audio.frame.fmt
    /\ sent[i].audio.out = bfmt[sent[i].to]

\* Of one client stream and one decoder, no chunk reaches the backends twice, and
\* those of frames that came in order reach them in order, through both queues
\* (decodeChunk, the two processPending methods and their order).  A late copy
\* may overtake: the decoder does not know the frames queued before it.
InOrder == \A i, j \in DOMAIN sent :
    LET f == sent[i].audio.frame
        g == sent[j].audio.frame
    IN  (i < j /\ sent[i].audio.gen = sent[j].audio.gen /\ f.stream = g.stream)
        => /\ f.n # g.n
           /\ f.n < g.n \/ f.late \/ g.late

\* An open connection has at most the one backend it feeds open or opening, and
\* a closed connection none, replaced and superseded ones included.
Opening(b) == bstat[b] = "pending" /\ \E t \in tasks : Connecting(t) /\ t.b = b

NoLeak == \A b \in Backends :
    bstat[b] = "connected" \/ Opening(b) => ~isClosed /\ b = cur

\* This connection's share of backendConnectionsActive is the number of its open
\* backends whenever the event loop is idle: every path that closes a backend
\* with its callbacks detached makes up for the onClosed it suppressed.
GaugeExact == MicrotasksDone =>
    gauge = Cardinality({b \in Backends : bstat[b] = "connected"})

\* With nothing in flight an open connection serves: backend connected, decoder
\* ready, nothing left in a queue.  With Deepgram that is so whatever format changes
\* overtook each other, if one backend is good for all formats or for one of them;
\* a recovery (xAI) leaves a decoder behind that was loading when it came.
AtRestServes ==
    /\ \/ Provider # "aws" /\ starts = 0
       \/ Provider = "deepgram" /\ (OneDesired \/ EachItsOwn)
    /\ tasks = {} /\ ~isClosed
    => /\ bstat[cur] = "connected"
       /\ dstat = "ready"
       /\ pin = <<>> /\ pau = <<>>

\* Transcribe answers only once it has audio: whenever the event loop is idle and no
\* decoder is awaited that loads by itself, nothing that the client sent is held back from
\* it; and all of it was taken, unless the client changed its format while the first
\* decoder was loading.  So the owner never holds back what the service waits for.
EarlyAudioFlows == AcceptsAudioBeforeConnected =>
    /\ inFmt \notin AsyncInputs /\ MicrotasksDone /\ ~isClosed
          => dstat = "ready" /\ pin = <<>> /\ pau = <<>>
    /\ starts = 0 \/ AsyncInputs = {} => dropped = {}

\* The reconnect loop is bounded by the audio that flows: backends are replaced
\* at most MaxRecoveries times in a row without a chunk sent in between, start
\* events apart.
ReconnectsBounded == nb <= 1 + starts + MaxRecoveries * (Len(sent) + 1)

\* A connection is torn down for a reason only (an error of the provider or the
\* decoder, or close()), never by the late result of a connect that a newer format
\* change superseded: one whose provider wants one format at any moment, any other
\* once its first backend has carried audio.
EstablishedSurvives ==
    isClosed /\ (OneDesired \/ (\E i \in DOMAIN sent : sent[i].to = 1)) => cause # "none"

\* No frame that came in order is refused as out of order.
NothingRefused == lost = {}

\* A provider that takes Opus undecoded loses no frame to its decoder: whatever
\* format changes overtake each other, a decoder starts afresh with its queue.
PassThroughKeepsAll == AsyncInputs = {} /\ stream = 0 => NothingRefused

\* What waits in the queues is usable: frames wait for a decoder of their own
\* format, chunks for a backend opened for theirs, and nothing waits once the
\* decoder is ready and the backend connected.
QueuesCurrent == ~isClosed =>
    /\ \A i \in DOMAIN pin : pin[i].fmt = inFmt
    /\ \A i \in DOMAIN pau : pau[i].out = bfmt[cur]
    /\ MicrotasksDone /\ dstat = "ready" /\ bstat[cur] = "connected" => pin = <<>> /\ pau = <<>>

\* Decoder, queues and backend agree on the format at every moment: in what is
\* already sent, and in what waits while a format change is under way.
FormatsAgree == FormatMatch /\ QueuesCurrent

\* The provider hears the audio once and in order, with no hole that the client
\* did not make where frames are handed through undecoded.
AudioInOrder == InOrder /\ PassThroughKeepsAll

\* In-place recovery neither ends a connection for nothing nor goes on for ever.
RecoverySafe == EstablishedSurvives /\ ReconnectsBounded

\* No audio is stuck: neither in a connection that waits for nothing any more, nor in
\* front of a backend that waits for it.
NothingStuck == AtRestServes /\ EarlyAudioFlows

\* Every backend a WebSocket provider ever opened is accounted for: it is the current
\* one or closed, and the gauge counts it while it is open.  Recoveries overtaken by
\* format changes leak nothing either, but are not counted right; and the backend that
\* replaces the first one during its connect, for another format, outlives the
\* connection that initializeBackend's catch then closes.
BackendsAccounted ==
    /\ Provider # "aws" /\ (OneDesired \/ starts = 0 \/ ~isClosed) => NoLeak
    /\ (Provider # "aws" /\ starts = 0) \/ (Provider = "deepgram" /\ OneDesired) => GaugeExact

(* Claims of the repository's comments and tests that the code does not keep: *)
(* TLC refutes each, and NoLeak, GaugeExact and NothingRefused outside the    *)
(* conditions of the passing runs (see the README).                           *)

\* A recovery leaves the decoder ready (recoverBackend, "The decoder was left
\* untouched"): at rest no decoder is still awaited.
DecoderArrives == tasks = {} /\ ~isClosed => dstat = "ready"

\* A newer reinitializeDecoder that supersedes a reconnect takes over
\* (reconnectBackend): at rest the connection has a live backend.
BackendAlive == tasks = {} /\ ~isClosed => bstat[cur] = "connected"

\* Concurrent format changes do not close the connection.
NeverClosedForNothing == isClosed => cause # "none"

\* A backend that accepts audio before it is connected buffers it (sendOrEnqueueDecodedAudio):
\* nothing handed to it is lost.
EarlyAudioKept == dropped = {}

\* A backend that accepts audio before it is connected is handed all of it.
EarlyAudioHandedOver ==
    MicrotasksDone /\ ~isClosed /\ dstat = "ready" /\ AcceptsAudioBeforeConnected =>
        pin = <<>> \/ bstat[cur] # "pending"

(* What a step may never do: whatever promise still settles, a closed        *)
(* connection stays closed, opens no backend, sends nothing, leaves no timer  *)
(* and keeps no decoder: one that finishes loading after doClose is not taken *)
(* over, as nothing would free it.                                            *)
ClosedIsFinal ==
    [][isClosed => isClosed' /\ ~idle' /\ UNCHANGED <<sent, nb, cur, dstat, decoder>>]_vars

(* Liveness, under FairSpec: queued audio is flushed or the connection closes *)
(* (or a format change discards it).                                          *)
QueuesDrain == (pin # <<>> \/ pau # <<>>) ~> (isClosed \/ (pin = <<>> /\ pau = <<>>))

(* Liveness: what was sent is brought to an end when the client falls silent, *)
(* by a final transcript, by the idle timer's commit, or because its backend  *)
(* is gone; no reconnect takes the timer away from audio sent after it.       *)
SpeechEnds == owed = "yes" ~> owed # "yes"

(* Nothing the client said waits for ever, in a queue or at the provider.     *)
AudioProceeds == QueuesDrain /\ SpeechEnds

\* Pending audio is finalized after FORCE_COMMIT_TIMEOUT (README): what waits for a
\* final has the timer running.  A final for earlier audio stops it all the same.
PendingIsTimed == owed # "no" => idle
=============================================================================
