------------------------ MODULE TranslatorConnection ------------------------
(***************************************************************************)
(* The input half of class TranslatorConnection: Opus frames from the client*)
(* are decoded, by a decoder that loads asynchronously, and appended to the *)
(* translation service's session over a socket that opens asynchronously;   *)
(* what is appended is billed.  (The output half is TranslatedTalk.)        *)
(*                                                                          *)
(* An action is one task of the event loop: a client message, a socket      *)
(* event, a settled promise, a timer callback, or a call by the proxy.  The  *)
(* constructor only queues the task that opens the socket.                  *)
(*                                                                          *)
(* A frame is its chunk number, from 1 on; frames without one are not       *)
(* modelled.  PCM is a sequence of units of a frame's length: the chunk      *)
(* number of a decoded frame, or Silence for concealment.                   *)
(***************************************************************************)
EXTENDS Integers, Sequences

CONSTANTS MaxPendingFrames,  \* MAX_PENDING_OPUS_FRAMES
          MaxPendingAudio,   \* MAX_PENDING_PCM_BYTES, in frames
          MaxConcealment,    \* maxConcealment, in frames
          Undecodable,       \* chunks whose frame may be corrupt
          MaxChunk,          \* bound: chunk numbers
          MaxEvents          \* bound: media events

ASSUME TranslatorAssumption ==
    /\ MaxPendingFrames \in Nat /\ MaxPendingAudio \in Nat \ {0}
    /\ MaxConcealment \in 0..MaxPendingAudio
    /\ MaxChunk \in Nat /\ MaxEvents \in Nat

Chunks == 1..MaxChunk
NoChunk == 0

VARIABLES
    corrupt,                                 \* chunks that do not decode, fixed
    events,                                  \* media events so far
    connectionStatus, decoderStatus,
    loading,                                 \* the decoder's promise is not settled
    deferred,                                \* initializeOpenAIWebSocket is still to run
    socket,                                  \* state of the service's socket, "none" before it exists
    isClosed,
    lastChunkNo, decoded,                    \* decoded: lastOpusFrameSize is set
    pendingOpusFrames, pendingAudioData,
    sentSamples, reportedSamples,
    appended,                                \* history: what was appended to the session
    billed,                                  \* history: the sum of the usage deltas
    told,                                    \* history: onError and onClosed calls
    accepted, lost                           \* history: frames taken, those of them dropped

queues == <<pendingOpusFrames, pendingAudioData>>
usage == <<sentSamples, reportedSamples, billed>>
input == <<events, lastChunkNo, decoded, accepted>>
vars == <<corrupt, input, connectionStatus, decoderStatus, loading, deferred, socket, isClosed,
          queues, usage, appended, told, lost>>

Silence == 0

Decoded(n) == IF n \in corrupt THEN <<>> ELSE <<n>>
Concealed(length) == [i \in 1..length |-> Silence]

ChunksOf(s) == {s[i] : i \in DOMAIN s} \ {Silence}

\* The pieces of PCM, one after another.
Joined(pieces) ==
    LET upto[i \in 0..Len(pieces)] == IF i = 0 THEN <<>> ELSE upto[i - 1] \o pieces[i]
    IN  upto[Len(pieces)]
-----------------------------------------------------------------------------
\* A full buffer is dropped for the newest piece.
Buffer(pending, piece) ==
    IF Len(pending) + Len(piece) <= MaxPendingAudio THEN pending \o piece ELSE piece

BufferEach(pending, pieces) ==
    LET upto[i \in 0..Len(pieces)] == IF i = 0 THEN pending ELSE Buffer(upto[i - 1], pieces[i])
    IN  upto[Len(pieces)]

CountAttempts(ok, size) == size  \* mutant: a failed send is billed

Billable(ok, size) == IF ok THEN size ELSE 0

\* sendAudioToOpenAI.  While the service is closing the socket
\* a send throws or not, depending on the platform; what the socket took without
\* throwing counts as appended.
SendAudioToOpenAI(s) ==
    \E ok \in IF socket = "open" THEN {TRUE} ELSE BOOLEAN :
        /\ appended' = IF ok THEN appended \o s ELSE appended
        /\ sentSamples' = sentSamples + Billable(ok, Len(s))
        /\ lost' = lost \cup IF ok THEN {} ELSE ChunksOf(s)

SendOnly(pieces) ==  \* mutant: nothing is buffered before the socket opens
    /\ UNCHANGED pendingAudioData
    /\ IF connectionStatus = "connected" THEN SendAudioToOpenAI(Joined(pieces))
       ELSE UNCHANGED <<appended, sentSamples, lost>>

(* sendOrEnqueueDecodedAudio for each of the pieces, in order. *)
SendOrEnqueue(pieces) ==
    \/ /\ connectionStatus = "connected"
       /\ SendAudioToOpenAI(Joined(pieces))
       /\ UNCHANGED pendingAudioData
    \/ /\ connectionStatus = "pending"
       /\ pendingAudioData' = BufferEach(pendingAudioData, pieces)
       /\ lost' = lost \cup ((ChunksOf(pendingAudioData) \cup ChunksOf(Joined(pieces)))
                             \ ChunksOf(pendingAudioData'))
       /\ UNCHANGED <<appended, sentSamples>>

(* The call to onUsageReport; without one nothing is billed at all.          *)
ReportUsageDelta ==
    /\ billed' = billed + (sentSamples - reportedSamples)
    /\ reportedSamples' = sentSamples
    /\ UNCHANGED sentSamples

(* onError when calls = <<"error">>, then doClose, which finds the socket in  *)
(* state st.                                                                 *)
DoClose(calls, notify, st) ==
    /\ ~isClosed
    /\ isClosed' = TRUE
    /\ ReportUsageDelta
    /\ connectionStatus' = "closed"
    /\ decoderStatus' = "closed"
    /\ socket' = IF st \in {"connecting", "open"} THEN "closing" ELSE st
    /\ told' = told \o calls \o IF notify THEN <<"closed">> ELSE <<>>
    /\ UNCHANGED <<corrupt, input, queues, appended, lost>>

\* A second doClose finds the connection closed, with no callback attached.
AlreadyClosed(st) ==
    /\ isClosed
    /\ socket' = st
    /\ UNCHANGED <<corrupt, input, connectionStatus, decoderStatus, isClosed,
                   queues, usage, appended, told, lost>>
-----------------------------------------------------------------------------
Init ==
    /\ corrupt \in SUBSET Undecodable
    /\ events = 0
    /\ connectionStatus = "pending"
    /\ decoderStatus = "pending" /\ loading = TRUE
    /\ deferred = TRUE /\ socket = "none"
    /\ isClosed = FALSE
    /\ lastChunkNo = NoChunk /\ decoded = FALSE
    /\ pendingOpusFrames = <<>> /\ pendingAudioData = <<>>
    /\ sentSamples = 0 /\ reportedSamples = 0 /\ billed = 0
    /\ appended = <<>> /\ told = <<>>
    /\ accepted = {} /\ lost = {}

EvenIfClosed == TRUE  \* mutant: the deferred call does not look at isClosed

StillWanted == ~isClosed

(* The deferred initializeOpenAIWebSocket: it opens the socket, or the URL is *)
(* refused at once.                                                          *)
InitializeOpenAIWebSocket ==
    /\ deferred
    /\ deferred' = FALSE
    /\ \/ /\ StillWanted
          /\ socket' = "connecting"
          /\ UNCHANGED <<corrupt, input, connectionStatus, decoderStatus, isClosed,
                         queues, usage, appended, told, lost>>
       \/ /\ StillWanted
          /\ DoClose(<<"error">>, TRUE, "none")
       \/ /\ ~StillWanted
          /\ AlreadyClosed("none")
    /\ UNCHANGED loading

(* The decoder is ready: the queued frames are decoded and sent or buffered.  *)
(* After a close the late status overwrites `closed', but the decoder is gone.*)
DecoderReady ==
    /\ loading
    /\ loading' = FALSE
    /\ decoderStatus' = "ready"
    /\ pendingOpusFrames' = <<>>
    /\ \/ /\ ~isClosed
          /\ decoded' = (decoded \/ \E i \in DOMAIN pendingOpusFrames : pendingOpusFrames[i] \notin corrupt)
          /\ SendOrEnqueue([i \in DOMAIN pendingOpusFrames |-> Decoded(pendingOpusFrames[i])])
       \/ /\ isClosed
          /\ lost' = lost \cup (ChunksOf(pendingOpusFrames) \ corrupt)
          /\ UNCHANGED <<decoded, pendingAudioData, appended, sentSamples>>
    /\ UNCHANGED <<corrupt, events, lastChunkNo, accepted, connectionStatus, deferred, socket,
                   isClosed, reportedSamples, billed, told>>

DecoderFails ==
    /\ loading
    /\ loading' = FALSE
    /\ \/ DoClose(<<"error">>, TRUE, socket)
       \/ /\ isClosed
          /\ decoderStatus' = "failed"
          /\ UNCHANGED <<corrupt, input, connectionStatus, socket, isClosed, queues, usage,
                         appended, told, lost>>
    /\ UNCHANGED deferred

NotFlushed == UNCHANGED <<appended, sentSamples, pendingAudioData>>  \* mutant

ProcessPendingAudioData ==
    /\ appended' = appended \o pendingAudioData
    /\ sentSamples' = sentSamples + Len(pendingAudioData)
    /\ pendingAudioData' = <<>>

(* The socket opens; close() during the connect keeps it from doing so. *)
SocketOpens ==
    /\ socket = "connecting"
    /\ socket' = "open"
    /\ connectionStatus' = "connected"
    /\ ProcessPendingAudioData
    /\ UNCHANGED <<corrupt, input, decoderStatus, loading, deferred, isClosed, pendingOpusFrames,
                   reportedSamples, billed, told, lost>>

(* The `error' event, which a `close' event follows. *)
SocketError ==
    /\ socket \in {"connecting", "open", "closing"}
    /\ DoClose(<<"error">>, TRUE, "closing") \/ AlreadyClosed("closing")
    /\ UNCHANGED <<loading, deferred>>

\* The service starts to close the socket.
ServiceCloses ==
    /\ socket = "open"
    /\ socket' = "closing"
    /\ UNCHANGED <<corrupt, input, connectionStatus, decoderStatus, loading, deferred, isClosed,
                   queues, usage, appended, told, lost>>

SocketClosed ==
    /\ socket \in {"open", "closing"}
    /\ DoClose(<<>>, TRUE, "closed") \/ AlreadyClosed("closed")
    /\ UNCHANGED <<loading, deferred>>

\* An `error' message of the service.
ServiceError ==
    /\ socket \in {"open", "closing"}
    /\ DoClose(<<"error">>, TRUE, socket) \/ AlreadyClosed(socket)
    /\ UNCHANGED <<loading, deferred>>

\* The encoder of the output half fails to load.
EncoderFails ==
    /\ DoClose(<<"error">>, TRUE, socket)
    /\ UNCHANGED <<loading, deferred>>
-----------------------------------------------------------------------------
AnyChunk(n) == TRUE  \* mutant: no order check

\* A chunk is discarded unless it is newer than the last one.
Newer(n) == lastChunkNo = NoChunk \/ n > lastChunkNo

\* What precedes frame n after a gap: nothing, or concealment of at most the gap.
Concealment(n) ==
    LET gap == n - lastChunkNo - 1
    IN  IF lastChunkNo # NoChunk /\ gap > 0 /\ decoded
        THEN {<<>>} \cup {Concealed(k) : k \in 1..(IF gap < MaxConcealment THEN gap ELSE MaxConcealment)}
        ELSE {<<>>}

(* handleMediaEvent for chunk n, also after a close. *)
Media(n) ==
    /\ events < MaxEvents
    /\ events' = events + 1
    /\ \/ /\ ~Newer(n)
          /\ UNCHANGED <<lastChunkNo, decoded, accepted, queues, appended, sentSamples, lost>>
       \/ /\ Newer(n)
          /\ lastChunkNo' = n
          /\ accepted' = accepted \cup {n}
          /\ \/ /\ decoderStatus = "ready" /\ ~isClosed
                /\ decoded' = (decoded \/ n \notin corrupt)
                /\ \E c \in Concealment(n) : SendOrEnqueue(<<c, Decoded(n)>>)
                /\ UNCHANGED pendingOpusFrames
             \/ /\ decoderStatus = "pending"
                /\ \/ /\ Len(pendingOpusFrames) < MaxPendingFrames
                      /\ pendingOpusFrames' = Append(pendingOpusFrames, n)
                      /\ UNCHANGED lost
                   \/ /\ Len(pendingOpusFrames) >= MaxPendingFrames
                      /\ lost' = lost \cup {n}
                      /\ UNCHANGED pendingOpusFrames
                /\ UNCHANGED <<decoded, pendingAudioData, appended, sentSamples>>
             \/ /\ isClosed \/ decoderStatus \in {"failed", "closed"}
                /\ lost' = lost \cup {n}
                /\ UNCHANGED <<decoded, queues, appended, sentSamples>>
    /\ UNCHANGED <<corrupt, connectionStatus, decoderStatus, loading, deferred, socket, isClosed,
                   reportedSamples, billed, told>>

\* The periodic usage timer, which closing clears.
UsageTimer ==
    /\ ~isClosed /\ sentSamples > reportedSamples
    /\ ReportUsageDelta
    /\ UNCHANGED <<corrupt, input, connectionStatus, decoderStatus, loading, deferred, socket, isClosed,
                   queues, appended, told, lost>>

\* close() by the proxy: no callback.
Close ==
    /\ DoClose(<<>>, FALSE, socket)
    /\ UNCHANGED <<loading, deferred>>

Next ==
    \/ InitializeOpenAIWebSocket
    \/ DecoderReady \/ DecoderFails \/ EncoderFails
    \/ SocketOpens \/ SocketError \/ ServiceCloses \/ SocketClosed \/ ServiceError
    \/ \E n \in Chunks : Media(n)
    \/ UsageTimer
    \/ Close

Spec == Init /\ [][Next]_vars

(* Deferred calls run, the decoder and the socket settle one way or the other.*)
FairSpec ==
    /\ Spec
    /\ WF_vars(InitializeOpenAIWebSocket)
    /\ WF_vars(DecoderReady \/ DecoderFails)
    /\ WF_vars(SocketOpens \/ (socket = "connecting" /\ SocketError))
    /\ WF_vars(socket = "closing" /\ SocketClosed)
-----------------------------------------------------------------------------
Units == Chunks \cup {Silence}
Statuses == {"pending", "connected", "ready", "failed", "closed"}

\* Every variable holds a value of its kind, and both queues keep to their caps.
TypeOK ==
    /\ corrupt \subseteq Undecodable
    /\ events \in 0..MaxEvents
    /\ connectionStatus \in Statuses \ {"ready"}
    /\ decoderStatus \in Statuses \ {"connected"}
    /\ loading \in BOOLEAN /\ deferred \in BOOLEAN
    /\ socket \in {"none", "connecting", "open", "closing", "closed"}
    /\ isClosed \in BOOLEAN
    /\ lastChunkNo \in Chunks \cup {NoChunk} /\ decoded \in BOOLEAN
    /\ pendingOpusFrames \in Seq(Chunks) /\ Len(pendingOpusFrames) <= MaxPendingFrames
    /\ pendingAudioData \in Seq(Units) /\ Len(pendingAudioData) <= MaxPendingAudio
    /\ sentSamples \in Nat /\ reportedSamples \in Nat /\ billed \in Nat
    /\ appended \in Seq(Units)
    /\ told \in Seq({"error", "closed"})
    /\ accepted \subseteq Chunks /\ lost \subseteq Chunks

Relay == INSTANCE MessageRelay
         WITH Batch <- MaxPendingFrames + MaxPendingAudio + 1, Filler <- Silence,
              accepted <- lastChunkNo, delivered <- appended

\* The translation service hears the participant's frames in order and none
\* twice, whichever queues they went through (handleMediaEvent, the two
\* processPending methods).
RelayHolds == Relay!Spec

\* What is billed is what was appended to the session: never more, and all of it
\* once the connection is closed, by whichever path (reportUsageDelta, doClose).
BilledAsSent ==
    /\ sentSamples = Len(appended)
    /\ billed <= sentSamples
    /\ isClosed => billed = sentSamples

\* A frame that decodes is lost only where the code says so (a queue at its cap, a
\* send that fails, a closed connection): all others are appended or queued.
NothingElseLost == ~isClosed =>
    accepted \ corrupt = (lost \cup ChunksOf(appended) \cup ChunksOf(pendingOpusFrames)
                          \cup ChunksOf(pendingAudioData)) \ corrupt

\* Audio is conserved from the frames accepted to the samples billed.
AudioAccounted == BilledAsSent /\ NothingElseLost

\* A closed connection leaves no socket open or opening, and told its owner once:
\* the error first, if there was one, and nothing when the owner closed it.
ClosedCleanly ==
    /\ isClosed => socket \notin {"connecting", "open"}
    /\ told \in IF isClosed THEN {<<>>, <<"closed">>, <<"error", "closed">>} ELSE {<<>>}

\* Whatever promise, event or message still comes after a close, nothing is
\* appended, billed or told any more.
ClosedIsQuiet == [][isClosed => UNCHANGED <<isClosed, appended, billed, told>>]_vars

\* Queued audio reaches the service, is dropped by a cap, or the connection closes.
QueuesDrain ==
    (pendingOpusFrames # <<>> \/ pendingAudioData # <<>>)
        ~> (isClosed \/ (pendingOpusFrames = <<>> /\ pendingAudioData = <<>>))
=============================================================================
