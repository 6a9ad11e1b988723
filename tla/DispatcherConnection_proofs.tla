--------------------- MODULE DispatcherConnection_proofs ---------------------
(***************************************************************************)
(* Proofs about DispatcherConnection, for any set of sockets and of timers  *)
(* and any number of messages.                                              *)
(***************************************************************************)
EXTENDS DispatcherConnection, SequenceTheorems, TLAPS

USE DispatcherAssumption
-----------------------------------------------------------------------------
(* The messages are numbered, and are sent straight away or through the queue. *)
Upto(n) == [i \in 1..n |-> i]

\* The messages up to n, and then the next one.
LEMMA UptoNext ==
    ASSUME NEW n \in Nat
    PROVE  Upto(n) \in Seq(Nat) /\ Append(Upto(n), n + 1) = Upto(n + 1)
<1>1. Upto(n) \in Seq(Nat) /\ Len(Upto(n)) = n  BY DEF Upto
<1>2. Upto(n + 1) \in Seq(Nat) /\ Len(Upto(n + 1)) = n + 1  BY DEF Upto
<1>3. \A i \in 1..(n + 1) : Append(Upto(n), n + 1)[i] = Upto(n + 1)[i]  BY <1>1 DEF Upto
<1>4. Append(Upto(n), n + 1) \in Seq(Nat) /\ Len(Append(Upto(n), n + 1)) = n + 1  BY <1>1
<1>5. Append(Upto(n), n + 1) = Upto(n + 1)  BY <1>2, <1>3, <1>4, SeqEqual
<1> QED  BY <1>1, <1>5

\* A message appended to the queue is appended to what is sent and queued.
LEMMA ConcatAppend ==
    ASSUME NEW s \in Seq(Nat), NEW t \in Seq(Nat), NEW e \in Nat
    PROVE  s \o Append(t, e) = Append(s \o t, e)
<1> DEFINE l == s \o Append(t, e)
           r == Append(s \o t, e)
<1>1. Append(t, e) \in Seq(Nat) /\ s \o t \in Seq(Nat)  OBVIOUS
<1>2. l \in Seq(Nat) /\ Len(l) = Len(s) + Len(t) + 1  BY <1>1
<1>3. r \in Seq(Nat) /\ Len(r) = Len(s) + Len(t) + 1  BY <1>1
<1>4. ASSUME NEW i \in 1..Len(l)  PROVE l[i] = r[i]
  <2>1. CASE i <= Len(s)  BY <1>1, <1>2, <2>1
  <2>2. CASE i > Len(s) /\ i < Len(l)  BY <1>1, <1>2, <2>2
  <2>3. CASE i = Len(l)  BY <1>1, <1>2, <2>3
  <2> QED  BY <1>2, <2>1, <2>2, <2>3
<1> QED  BY <1>2, <1>3, <1>4, SeqEqual
-----------------------------------------------------------------------------

(* OneAttempt is not inductive alone: after close() no timer may be left whose *)
(* connect() would open a second socket, or open one at all.                  *)
ClosedHasNoTimer == closed => timers = {}

IInv == TypeOK /\ OneAttempt /\ ClosedHasNoTimer

LEMMA InitIInv == Init => IInv
<1> SUFFICES ASSUME Init PROVE IInv  OBVIOUS
<1>1. PICK answer \in Connecting : state = [s \in Sockets |-> IF s = ws THEN answer ELSE "closed"]
      BY DEF Init
<1>2. ws \in Sockets /\ timers = {} /\ timeouts = {ws} /\ ~closed  BY DEF Init
<1>3. messageQueue \in Seq(Nat) /\ sent \in Seq(Nat)  BY EmptySeq DEF Init
<1>4. TypeOK  BY <1>1, <1>2, <1>3 DEF Init, TypeOK, Connecting
<1>5. Live = {ws}  BY <1>1, <1>2 DEF Live, Connecting
<1> QED  BY <1>2, <1>4, <1>5 DEF IInv, OneAttempt, ClosedHasNoTimer

\* What the flush of the queue does.
LEMMA Flushed ==
    ASSUME TypeOK, FlushMessageQueue
    PROVE  /\ messageQueue' = <<>> /\ sent' \in Seq(Nat)
           /\ sent' \o messageQueue' = sent \o messageQueue
<1>1. sent' \in Seq(Nat) /\ messageQueue' = <<>>  BY DEF TypeOK, FlushMessageQueue
<1>2. sent' \o <<>> = sent'  BY <1>1, ConcatEmptySeq
<1> QED  BY <1>1, <1>2 DEF FlushMessageQueue

\* Every step leaves the queue and what is sent alone, flushes, or is Send.
LEMMA Handing ==
    ASSUME [Next]_vars
    PROVE  \/ UNCHANGED queues
           \/ FlushMessageQueue /\ UNCHANGED messages
           \/ Send
BY DEF Next, vars, queues, Opens, Closes, ConnectTimeout, Reconnect, Close

LEMMA QueueTypes ==
    ASSUME TypeOK, [Next]_vars
    PROVE  messageQueue' \in Seq(Nat) /\ sent' \in Seq(Nat) /\ messages' \in Nat
<1>1. CASE UNCHANGED queues  BY <1>1 DEF TypeOK, queues
<1>2. CASE FlushMessageQueue /\ UNCHANGED messages  BY <1>2, Flushed, EmptySeq DEF TypeOK
<1>3. CASE Send
  <2>1. messages + 1 \in Nat /\ sent \in Seq(Nat) /\ messageQueue \in Seq(Nat)  BY DEF TypeOK
  <2>2. Append(sent, messages + 1) \in Seq(Nat) /\ Append(messageQueue, messages + 1) \in Seq(Nat)
        BY <2>1, AppendProperties
  <2> QED  BY <1>3, <2>1, <2>2 DEF Send
<1> QED  BY <1>1, <1>2, <1>3, Handing

\* The rest of what TypeOK says: it does not depend on the queue.
Attempts ==
    /\ ws \in Sockets \cup {None}
    /\ state \in [Sockets -> Connecting \cup {"open", "closing", "closed"}]
    /\ timeouts \subseteq Sockets /\ timers \subseteq Timers
    /\ reconnectTimer \in Timers \cup {None} /\ closed \in BOOLEAN

\* The invariant without the queue.
AttemptsSafe == Attempts /\ OneAttempt /\ ClosedHasNoTimer
-----------------------------------------------------------------------------
LEMMA OpensStep ==
    ASSUME AttemptsSafe, NEW s \in Sockets, Opens(s)
    PROVE  AttemptsSafe'
<1> USE DEF AttemptsSafe, Attempts, Connecting
<1>1. state[s] = "connecting" /\ state' = [state EXCEPT ![s] = "open"]  BY DEF Opens
<1>2. UNCHANGED <<ws, timers, reconnectTimer, closed>> /\ timeouts' \subseteq Sockets  BY DEF Opens
<1>3. Live' = Live  BY <1>1 DEF Live
<1>4. Attempts'  BY <1>1, <1>2
<1> QED  BY <1>2, <1>3, <1>4 DEF OneAttempt, ClosedHasNoTimer

\* The only socket there was is gone, and a timer is set if the connection is not closed.
LEMMA ClosesStep ==
    ASSUME AttemptsSafe, NEW s \in Sockets, Closes(s)
    PROVE  AttemptsSafe'
<1> USE DEF AttemptsSafe, Attempts, Connecting
<1>1. state' = [state EXCEPT ![s] = "closed"] /\ ws' = None /\ UNCHANGED <<timeouts, closed>>
      BY DEF Closes
<1>2. s \in Live  BY DEF Closes, Live
<1>3. Live' = {}
  <2>1. \A r \in Sockets : r # s => state[r] = "closed"  BY <1>2 DEF OneAttempt, Live
  <2> QED  BY <1>1, <2>1 DEF Live
<1>4. timers = {}  BY <1>2 DEF OneAttempt
<1>5. CASE closed
  <2>1. timers' = {} /\ reconnectTimer' = reconnectTimer
        BY <1>4, <1>5 DEF Closes, ScheduleReconnect
  <2> QED  BY <1>1, <1>3, <1>5, <2>1 DEF OneAttempt, ClosedHasNoTimer
<1>6. CASE ~closed
  <2>1. PICK t \in Timers : timers' = {t} /\ reconnectTimer' = t
        BY <1>4, <1>6 DEF Closes, ScheduleReconnect
  <2> QED  BY <1>1, <1>3, <1>6, <2>1 DEF OneAttempt, ClosedHasNoTimer
<1> QED  BY <1>5, <1>6

LEMMA TimeoutStep ==
    ASSUME AttemptsSafe, NEW s \in Sockets, ConnectTimeout(s)
    PROVE  AttemptsSafe'
<1> USE DEF AttemptsSafe, Attempts, Connecting
<1>1. UNCHANGED <<ws, timers, reconnectTimer, closed>> /\ timeouts' \subseteq Sockets
      BY DEF ConnectTimeout
<1>2. state' = state \/ CloseCurrent  BY DEF ConnectTimeout
<1>3. Live' = Live /\ Attempts'  BY <1>1, <1>2 DEF Live, CloseCurrent
<1> QED  BY <1>1, <1>3 DEF OneAttempt, ClosedHasNoTimer

\* A timer was the only one, and no socket was there.
LEMMA ReconnectStep ==
    ASSUME AttemptsSafe, NEW t \in Timers, NEW s \in Sockets, NEW answer \in Connecting,
           Reconnect(t, s, answer)
    PROVE  AttemptsSafe'
<1> USE DEF AttemptsSafe, Attempts, Connecting
<1>1. t \in timers /\ timers' = timers \ {t} /\ reconnectTimer' = None /\ UNCHANGED closed
      BY DEF Reconnect
<1>2. ws' = s /\ state' = [state EXCEPT ![s] = answer] /\ timeouts' \subseteq Sockets
      BY DEF Reconnect, Connect, TimedBy
<1>3. Live = {} /\ timers' = {} /\ ~closed  BY <1>1 DEF OneAttempt, ClosedHasNoTimer
<1>4. Live' = {s}
  <2>1. \A r \in Sockets : state[r] = "closed"  BY <1>3 DEF Live
  <2> QED  BY <1>2, <2>1 DEF Live
<1> QED  BY <1>1, <1>2, <1>3, <1>4 DEF OneAttempt, ClosedHasNoTimer

LEMMA CloseStep == AttemptsSafe /\ Close => AttemptsSafe'
<1> SUFFICES ASSUME AttemptsSafe, Close PROVE AttemptsSafe'  OBVIOUS
<1> USE DEF AttemptsSafe, Attempts, Connecting
<1>1. closed' /\ ws' = None /\ reconnectTimer' = None /\ UNCHANGED timeouts  BY DEF Close
<1>2. timers' = {}  BY DEF Close, OneAttempt
<1>3. Live' = Live /\ Attempts'  BY <1>1, <1>2 DEF Close, CloseCurrent, Live
<1> QED  BY <1>1, <1>2, <1>3 DEF OneAttempt, ClosedHasNoTimer

LEMMA AttemptsStep == AttemptsSafe /\ [Next]_vars => AttemptsSafe'
<1> SUFFICES ASSUME AttemptsSafe, [Next]_vars PROVE AttemptsSafe'  OBVIOUS
<1>1. CASE UNCHANGED <<ws, state, timeouts, timers, reconnectTimer, closed>>
      BY <1>1 DEF AttemptsSafe, Attempts, OneAttempt, ClosedHasNoTimer, Live
<1>2. CASE Send  BY <1>1, <1>2 DEF Send
<1>3. CASE Close  BY <1>3, CloseStep
<1>4. ASSUME NEW s \in Sockets, Opens(s) \/ Closes(s) \/ ConnectTimeout(s)  PROVE AttemptsSafe'
      BY <1>4, OpensStep, ClosesStep, TimeoutStep
<1>5. ASSUME NEW t \in Timers, NEW s \in Sockets, NEW answer \in Connecting, Reconnect(t, s, answer)
      PROVE  AttemptsSafe'
      BY <1>5, ReconnectStep
<1>6. CASE UNCHANGED vars  BY <1>1, <1>6 DEF vars
<1> QED  BY <1>2, <1>3, <1>4, <1>5, <1>6 DEF Next

LEMMA IInvStep == IInv /\ [Next]_vars => IInv'
<1> SUFFICES ASSUME IInv, [Next]_vars PROVE IInv'  OBVIOUS
<1>1. AttemptsSafe'  BY AttemptsStep DEF IInv, AttemptsSafe, TypeOK, Attempts
<1>2. TypeOK'  BY <1>1, QueueTypes DEF IInv, AttemptsSafe, Attempts, TypeOK
<1> QED  BY <1>1, <1>2 DEF IInv, AttemptsSafe

\* One socket or one reconnect timer at any moment, for DispatcherConnection's connect(),
\* scheduleReconnect() and close(), whenever their callbacks come.
THEOREM OneAttemptHolds == Spec => []OneAttempt
<1>1. IInv => OneAttempt  BY DEF IInv
<1> QED  BY <1>1, InitIInv, IInvStep, PTL DEF Spec
-----------------------------------------------------------------------------
(* The queue is empty whenever a message is sent past it, so that the two    *)
(* parts of RelaySafe are proved together.                                  *)
LEMMA QueueStep ==
    ASSUME IInv, QueueOnlyWhileAway, [Next]_vars
    PROVE  QueueOnlyWhileAway'
<1> USE DEF IsConnected, QueueOnlyWhileAway, Connecting
<1>1. TypeOK  BY DEF IInv
<1>2. CASE Send  BY <1>2 DEF Send
<1>3. CASE Close  BY <1>3 DEF Close, queues
<1>4. ASSUME NEW s \in Sockets, Opens(s)  PROVE QueueOnlyWhileAway'
      BY <1>4 DEF Opens, FlushMessageQueue
<1>5. ASSUME NEW s \in Sockets, Closes(s)  PROVE QueueOnlyWhileAway'
      BY <1>5 DEF Closes
<1>6. ASSUME NEW s \in Sockets, ConnectTimeout(s)  PROVE QueueOnlyWhileAway'
  <2>1. UNCHANGED <<ws, queues>> /\ (state' = state \/ CloseCurrent)  BY <1>6 DEF ConnectTimeout
  <2>2. ws # None /\ state'[ws] = "open" => state[ws] = "open"
        BY <1>1, <2>1 DEF CloseCurrent, TypeOK
  <2> QED  BY <2>1, <2>2 DEF queues
<1>7. ASSUME NEW t \in Timers, NEW s \in Sockets, NEW answer \in Connecting, Reconnect(t, s, answer)
      PROVE  QueueOnlyWhileAway'
  <2>1. ws' = s /\ state'[s] = answer /\ UNCHANGED queues
        BY <1>1, <1>7 DEF Reconnect, Connect, TypeOK
  <2> QED  BY <2>1 DEF queues
<1>8. CASE UNCHANGED vars  BY <1>8 DEF vars, queues
<1> QED  BY <1>2, <1>3, <1>4, <1>5, <1>6, <1>7, <1>8 DEF Next

LEMMA NothingLostStep ==
    ASSUME TypeOK, RelaySafe, [Next]_vars
    PROVE  NothingLost'
<1>1. sent \o messageQueue = Upto(messages)  BY DEF RelaySafe, NothingLost, Upto
<1> SUFFICES sent' \o messageQueue' = Upto(messages')  BY DEF NothingLost, Upto
<1>2. CASE UNCHANGED queues  BY <1>1, <1>2 DEF queues
<1>3. CASE FlushMessageQueue /\ UNCHANGED messages  BY <1>1, <1>3, Flushed
<1>4. CASE Send
  <2>1. messages \in Nat /\ sent \in Seq(Nat) /\ messageQueue \in Seq(Nat)  BY DEF TypeOK
  <2>2. messages' = messages + 1 /\ Append(sent \o messageQueue, messages + 1) = Upto(messages')
        BY <1>1, <1>4, <2>1, UptoNext DEF Send
  <2>3. CASE IsConnected(state)
    <3>1. messageQueue = <<>>  BY <2>3 DEF RelaySafe, QueueOnlyWhileAway
    <3>2. sent' = Append(sent, messages + 1) /\ messageQueue' = <<>>  BY <1>4, <2>3, <3>1 DEF Send
    <3>3. sent \o <<>> = sent /\ sent' \o <<>> = sent'  BY <2>1, <3>2, ConcatEmptySeq
    <3> QED  BY <2>2, <3>1, <3>2, <3>3
  <2>4. CASE ~IsConnected(state)
    <3>1. sent' = sent /\ messageQueue' = Append(messageQueue, messages + 1)  BY <1>4, <2>4 DEF Send
    <3>2. messages + 1 \in Nat  BY <2>1
    <3> QED  BY <2>1, <2>2, <3>1, <3>2, ConcatAppend
  <2> QED  BY <2>3, <2>4
<1> QED  BY <1>2, <1>3, <1>4, Handing

\* What the dispatcher gets is every message once and in order, whatever fails, and none
\* overtakes one that waits: send() and flushMessageQueue().
THEOREM RelaySafeHolds == Spec => []RelaySafe
<1>1. Init => RelaySafe
  <2>1. <<>> \o <<>> = Upto(0)  BY DEF Upto
  <2> QED  BY <2>1 DEF Init, RelaySafe, NothingLost, QueueOnlyWhileAway, Upto
<1>2. IInv /\ RelaySafe /\ [Next]_vars => RelaySafe'
      BY QueueStep, NothingLostStep DEF IInv, RelaySafe
<1> QED  BY <1>1, <1>2, InitIInv, IInvStep, PTL DEF Spec
-----------------------------------------------------------------------------
\* After close() no socket is current, and none can open any more: what close() closed was
\* the only one.
ClosedHasNoSocket == closed => ws = None /\ \A s \in Sockets : state[s] \in {"closing", "closed"}

LEMMA ClosedStep == IInv /\ ClosedHasNoSocket /\ [Next]_vars => ClosedHasNoSocket'
<1> SUFFICES ASSUME IInv, ClosedHasNoSocket, [Next]_vars, closed'
             PROVE  ws' = None /\ \A s \in Sockets : state'[s] \in {"closing", "closed"}
    BY DEF ClosedHasNoSocket
<1> USE DEF ClosedHasNoSocket
<1>1. TypeOK /\ (closed => timers = {})  BY DEF IInv, ClosedHasNoTimer
<1>2. CASE Send  BY <1>2 DEF Send
<1>3. CASE Close
  <2>1. ws' = None /\ CloseCurrent /\ ~closed  BY <1>3 DEF Close
  <2>2. \A s \in Live : s = ws  BY <2>1 DEF IInv, OneAttempt
  <2> QED  BY <1>1, <2>1, <2>2 DEF CloseCurrent, Live
<1>4. ASSUME NEW s \in Sockets, Opens(s) \/ Closes(s) \/ ConnectTimeout(s)
      PROVE  ws' = None /\ \A r \in Sockets : state'[r] \in {"closing", "closed"}
      BY <1>1, <1>4 DEF Opens, Closes, ConnectTimeout, CloseCurrent, TypeOK
<1>5. ASSUME NEW t \in Timers, NEW s \in Sockets, NEW answer \in Connecting, Reconnect(t, s, answer)
      PROVE  FALSE
      BY <1>1, <1>5 DEF Reconnect
<1>6. CASE UNCHANGED vars  BY <1>6 DEF vars
<1> QED  BY <1>2, <1>3, <1>4, <1>5, <1>6 DEF Next

LEMMA QuietStep ==
    ASSUME IInv, ClosedHasNoSocket, Next, closed
    PROVE  /\ \A s \in Sockets : state'[s] \in {state[s], "closed", "closing"}
           /\ timers' = {} /\ sent' = sent
<1>1. TypeOK /\ timers = {} /\ ~IsConnected(state)
      BY DEF IInv, ClosedHasNoTimer, ClosedHasNoSocket, IsConnected
<1>2. CASE Send  BY <1>1, <1>2 DEF Send
<1>3. CASE Close  BY <1>3 DEF Close
<1>4. ASSUME NEW s \in Sockets, Opens(s)  PROVE FALSE
      BY <1>4 DEF Opens, ClosedHasNoSocket
<1>5. ASSUME NEW s \in Sockets, Closes(s)
      PROVE  state' = [state EXCEPT ![s] = "closed"] /\ timers' = {} /\ sent' = sent
      BY <1>1, <1>5 DEF Closes, ScheduleReconnect, queues
<1>6. ASSUME NEW s \in Sockets, ConnectTimeout(s)
      PROVE  (state' = state \/ CloseCurrent) /\ timers' = {} /\ sent' = sent
      BY <1>1, <1>6 DEF ConnectTimeout, queues
<1>7. ASSUME NEW t \in Timers, NEW s \in Sockets, NEW answer \in Connecting, Reconnect(t, s, answer)
      PROVE  FALSE
      BY <1>1, <1>7 DEF Reconnect
<1> QED  BY <1>1, <1>2, <1>3, <1>4, <1>5, <1>6, <1>7 DEF Next, CloseCurrent, TypeOK

\* After close() no socket opens, no timer pends and nothing is sent, although neither
\* connect() nor the reconnect timer's callback looks at isClosed.
THEOREM ClosedSettlesHolds == Spec => ClosedSettles
<1>1. Init => ClosedHasNoSocket  BY DEF Init, ClosedHasNoSocket
<1>2. IInv /\ ClosedHasNoSocket /\ [Next]_vars
        => [closed => /\ \A s \in Sockets : state'[s] \in {state[s], "closed", "closing"}
                      /\ timers' = {} /\ sent' = sent]_vars
      BY QuietStep
<1> QED  BY <1>1, <1>2, InitIInv, IInvStep, ClosedStep, PTL DEF Spec, ClosedSettles
=============================================================================
