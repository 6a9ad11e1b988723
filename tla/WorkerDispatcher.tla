-------------------------- MODULE WorkerDispatcher --------------------------
(***************************************************************************)
(* handleWebSocketWithDispatcher of the Worker: it pipes a session's client *)
(* and container to each other and copies each final transcript to the      *)
(* session's dispatcher object over a socket of its own.  While that socket *)
(* is down the finals wait in messageQueue and a timer reconnects.          *)
(*                                                                          *)
(* An action is one task of the isolate: a socket event, the timer, or the  *)
(* settling of an awaited connectToDispatcher.  DISPATCHER_DO is set, and    *)
(* the initial connection to the dispatcher may have failed.  Finals are    *)
(* numbered in the order the container sends them.  Only readyState is seen *)
(* of a socket: what an open one is handed counts as sent.  A socket that   *)
(* this code closes delivers no further message (the WebSocket standard).    *)
(* The specification has names of its own beside ContainerCoordinator's, the *)
(* Worker's other half.                                                     *)
(***************************************************************************)
EXTENDS Integers, Sequences, FiniteSets

CONSTANTS Sockets,        \* dispatcher sockets; one that is closed is used again
          NoSocket,
          MaxConnecting,  \* bound: reconnects awaited at once
          MaxFinals       \* bound: final transcripts

ASSUME WorkerAssumption ==
    /\ NoSocket \notin Sockets
    /\ MaxConnecting \in Nat \ {0} /\ MaxFinals \in Nat

VARIABLES
    serverWs,            \* the state of the client's socket ...
    containerWs,         \* ... and of the container's
    state,               \* states of the dispatcher sockets
    dispatcherWs,
    handled,             \* sockets with the close listener of setupDispatcherHandlers
    isReconnecting,      \* also: the reconnect timer is pending
    connecting,          \* timer callbacks that await connectToDispatcher
    flushing,            \* flushBeforeClose awaits connectToDispatcher
    sessionClosed,
    messageQueue,
    sent,                \* history: finals handed to an open dispatcher socket
    finals               \* history: the number of the last final

pipe == <<serverWs, containerWs>>
relayVars == <<pipe, state, dispatcherWs, handled, isReconnecting, connecting, flushing,
               sessionClosed, messageQueue, sent, finals>>

Free == {s \in Sockets : state[s] = "closed"}

\* dispatcherWs?.readyState === OPEN
Open == dispatcherWs # NoSocket /\ state[dispatcherWs] = "open"
-----------------------------------------------------------------------------
NeverReconnect == isReconnecting' = isReconnecting  \* mutant: a lost socket is not replaced
ReconnectAnyway == isReconnecting' = TRUE           \* mutant: sessionClosed is not looked at

ScheduleReconnect == isReconnecting' = (isReconnecting \/ ~sessionClosed)

NoFlush == UNCHANGED <<messageQueue, sent>>  \* mutant: the queue waits for the next socket
FlushAndKeep == sent' = sent \o messageQueue /\ UNCHANGED messageQueue  \* mutant: no shift()

FlushMessageQueue == sent' = sent \o messageQueue /\ messageQueue' = <<>>

\* dispatcherWs?.close(...)
CloseDispatcher ==
    state' = IF Open THEN [state EXCEPT ![dispatcherWs] = "closing"] ELSE state

ReadyState(socket) == IF socket = "open" THEN "closing" ELSE socket  \* after close()

\* connectToDispatcher returns a socket, which becomes the current one.
NewSocket(s) ==
    /\ s \in Free
    /\ state' = [state EXCEPT ![s] = "open"]
    /\ dispatcherWs' = s
-----------------------------------------------------------------------------
RelayInit ==
    /\ serverWs = "open" /\ containerWs = "open"
    /\ dispatcherWs \in Sockets \cup {NoSocket}
    /\ state = [s \in Sockets |-> IF s = dispatcherWs THEN "open" ELSE "closed"]
    /\ handled = {dispatcherWs} \ {NoSocket}
    /\ isReconnecting = FALSE /\ connecting = 0 /\ flushing = FALSE /\ sessionClosed = FALSE
    /\ messageQueue = <<>> /\ sent = <<>> /\ finals = 0

SendOrQueue(n) ==
    IF Open THEN sent' = Append(sent, n) /\ UNCHANGED messageQueue
    ELSE messageQueue' = Append(messageQueue, n) /\ UNCHANGED sent

(* The container sends a final transcript. *)
Final ==
    /\ containerWs = "open" /\ finals < MaxFinals
    /\ finals' = finals + 1
    /\ SendOrQueue(finals + 1)
    /\ IF Open THEN UNCHANGED isReconnecting ELSE ScheduleReconnect
    /\ UNCHANGED <<pipe, state, dispatcherWs, handled, connecting, flushing, sessionClosed>>

(* The close event of dispatcher socket s, whoever closed it. *)
DispatcherCloses(s) ==
    /\ state[s] # "closed"
    /\ state' = [state EXCEPT ![s] = "closed"]
    /\ IF s \in handled THEN ScheduleReconnect ELSE UNCHANGED isReconnecting
    /\ UNCHANGED <<pipe, dispatcherWs, handled, connecting, flushing, sessionClosed,
                   messageQueue, sent, finals>>

(* The timer of scheduleReconnect, up to its await. *)
ReconnectTimer ==
    /\ isReconnecting /\ connecting < MaxConnecting
    /\ isReconnecting' = FALSE
    /\ connecting' = IF sessionClosed THEN connecting ELSE connecting + 1
    /\ UNCHANGED <<pipe, state, dispatcherWs, handled, flushing, sessionClosed,
                   messageQueue, sent, finals>>

(* The rest of it, with a socket ... *)
Reconnected(s) ==
    /\ connecting > 0
    /\ connecting' = connecting - 1
    /\ NewSocket(s)
    /\ handled' = handled \cup {s}
    /\ FlushMessageQueue
    /\ UNCHANGED <<pipe, isReconnecting, flushing, sessionClosed, finals>>

(* ... or without one. *)
ReconnectFails ==
    /\ connecting > 0
    /\ connecting' = connecting - 1
    /\ ScheduleReconnect
    /\ UNCHANGED <<pipe, state, dispatcherWs, handled, flushing, sessionClosed,
                   messageQueue, sent, finals>>

(* The client's socket closes.  What is queued is flushed in the background: the
   dispatcher's socket is not open then, and flushBeforeClose asks for a new one. *)
ClientCloses ==
    /\ serverWs # "closed"
    /\ serverWs' = "closed" /\ sessionClosed' = TRUE
    /\ flushing' = (messageQueue # <<>> /\ ~Open)
    /\ IF Open THEN FlushMessageQueue ELSE UNCHANGED <<messageQueue, sent>>
    /\ containerWs' = ReadyState(containerWs)
    /\ CloseDispatcher
    /\ UNCHANGED <<dispatcherWs, handled, isReconnecting, connecting, finals>>

(* flushBeforeClose gets its socket, on which nobody listens ... *)
FlushConnected(s) ==
    /\ flushing /\ flushing' = FALSE
    /\ NewSocket(s)
    /\ handled' = handled \ {s}
    /\ FlushMessageQueue
    /\ UNCHANGED <<pipe, isReconnecting, connecting, sessionClosed, finals>>

(* ... or gets none, and the queue is lost unless a reconnect flushes it. *)
FlushFails ==
    /\ flushing /\ flushing' = FALSE
    /\ IF Open THEN FlushMessageQueue ELSE UNCHANGED <<messageQueue, sent>>
    /\ UNCHANGED <<pipe, state, dispatcherWs, handled, isReconnecting, connecting, sessionClosed, finals>>

(* The container's socket closes. *)
ContainerCloses ==
    /\ containerWs # "closed"
    /\ containerWs' = "closed" /\ serverWs' = ReadyState(serverWs)
    /\ CloseDispatcher
    /\ UNCHANGED <<dispatcherWs, handled, isReconnecting, connecting, flushing, sessionClosed,
                   messageQueue, sent, finals>>

(* An error on either socket.  Its close event may follow, or never. *)
PipeError ==
    /\ "open" \in {serverWs, containerWs}
    /\ serverWs' = ReadyState(serverWs) /\ containerWs' = ReadyState(containerWs)
    /\ UNCHANGED <<state, dispatcherWs, handled, isReconnecting, connecting, flushing, sessionClosed,
                   messageQueue, sent, finals>>

RelayNext ==
    \/ Final \/ ReconnectTimer \/ ReconnectFails \/ FlushFails
    \/ ClientCloses \/ ContainerCloses \/ PipeError
    \/ \E s \in Sockets : DispatcherCloses(s) \/ Reconnected(s) \/ FlushConnected(s)

RelaySpec == RelayInit /\ [][RelayNext]_relayVars

\* The timer fires, awaited connects settle, a close handshake completes, and a
\* dispatcher that is asked again and again connects in the end.
RelayFairness ==
    /\ WF_relayVars(ReconnectTimer)
    /\ WF_relayVars(ReconnectFails \/ \E s \in Sockets : Reconnected(s))
    /\ SF_relayVars(\E s \in Sockets : Reconnected(s))
    /\ \A s \in Sockets : WF_relayVars(state[s] = "closing" /\ DispatcherCloses(s))

RelayFairSpec == RelaySpec /\ RelayFairness
-----------------------------------------------------------------------------
\* Every variable keeps its kind.
RelayTypeOK ==
    /\ serverWs \in {"open", "closing", "closed"} /\ containerWs \in {"open", "closing", "closed"}
    /\ state \in [Sockets -> {"open", "closing", "closed"}]
    /\ dispatcherWs \in Sockets \cup {NoSocket} /\ handled \subseteq Sockets
    /\ isReconnecting \in BOOLEAN /\ flushing \in BOOLEAN /\ sessionClosed \in BOOLEAN
    /\ connecting \in Nat /\ finals \in Nat
    /\ messageQueue \in Seq(Nat) /\ sent \in Seq(Nat)

\* However often the dispatcher's socket goes, and however its reconnects overlap,
\* the finals handed on and those still queued are all the finals, once each, in
\* the container's order.
NothingLost == sent \o messageQueue = [n \in 1..finals |-> n]

\* A final waits in the queue only while the current socket is not open: a newer one
\* is never sent ahead of it (the fast path of the message handler skips the queue).
QueueOnlyWhileAway == messageQueue # <<>> => ~Open

\* The finals are relayed exactly once, in order, past all the dispatcher's sockets.
FinalsSafe == NothingLost /\ QueueOnlyWhileAway

\* While the session has no close event, a queued final is sent in the end if the
\* dispatcher can be reached.
QueueDrains == messageQueue # <<>> ~> (messageQueue = <<>> \/ sessionClosed)

\* Once the session's close event has run, nothing starts another round of reconnects,
\* and a reconnect or flush then under way gets at most one socket each.
ClosedSettles ==
    [][sessionClosed => /\ isReconnecting' => isReconnecting
                        /\ connecting' <= connecting
                        /\ flushing' => flushing]_relayVars

\* A session that ended, with no task of it left, holds no dispatcher socket: what
\* the closes with 'Session ended' and 'Container disconnected' are for.  The code
\* does not keep it (see README).
Released ==
    sessionClosed /\ ~isReconnecting /\ connecting = 0 /\ ~flushing
        => \A s \in Sockets : state[s] # "open"
=============================================================================
