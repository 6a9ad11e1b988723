------------------------ MODULE DispatcherConnection ------------------------
(***************************************************************************)
(* A session's own connection to the dispatcher (used without the Worker):  *)
(* TranscriberProxy opens it, hands it every final transcript and closes it *)
(* with the session.  Messages wait in messageQueue while its socket is not *)
(* open; every socket that closes is replaced after a delay.                *)
(*                                                                          *)
(* An action is one callback of Node's event loop.  A connect timeout runs  *)
(* on after its attempt failed (only 'open' clears it) and acts on whatever *)
(* socket is then current, and nothing compares a socket that closes with   *)
(* the current one, so attempts, their timeouts and the reconnect timers    *)
(* are kept apart here.  The backoff is left out: timers fire in any order. *)
(* DISPATCHER_WS_URL is set and valid.                                      *)
(***************************************************************************)
EXTENDS Integers, Sequences, FiniteSets

CONSTANTS Sockets,     \* one that is closed and has no timeout pending is used again
          Timers,      \* reconnect timers
          None,        \* null
          MaxMessages  \* bound: messages to send

ASSUME DispatcherAssumption ==
    /\ None \notin Sockets \cup Timers
    /\ Sockets # {} /\ MaxMessages \in Nat

VARIABLES
    ws,              \* the current socket
    state,           \* of each socket; an "unanswered" one is connecting and will not open
    timeouts,        \* sockets whose connectionTimeout is pending
    timers,          \* pending reconnect timers
    reconnectTimer,  \* the one that close() clears
    closed,
    messageQueue,
    sent,            \* history: messages handed to an open socket
    messages         \* history: the number of the last message

queues == <<messageQueue, sent, messages>>
vars == <<ws, state, timeouts, timers, reconnectTimer, closed, queues>>

Connecting == {"connecting", "unanswered"}
Free == {s \in Sockets : state[s] = "closed" /\ s \notin timeouts}

\* this.ws?.readyState === OPEN
IsConnected(sockets) == ws # None /\ sockets[ws] = "open"

\* mutant: no close event follows
DropCurrent == state' = [s \in Sockets |-> IF s = ws THEN "closed" ELSE state[s]]

\* this.ws?.close(): the close event of the socket follows
CloseCurrent == state' = [s \in Sockets |-> IF s = ws /\ state[s] # "closed" THEN "closing" ELSE state[s]]
-----------------------------------------------------------------------------
\* mutants: a timer although the connection was closed; a queue sent and kept; no timeout
ScheduleAnyway == \E t \in Timers \ timers : timers' = timers \cup {t} /\ reconnectTimer' = t
FlushAndKeep == sent' = sent \o messageQueue /\ UNCHANGED messageQueue
NeverTimedOut(s) == timeouts

ScheduleReconnect ==
    IF closed THEN UNCHANGED <<timers, reconnectTimer>>
    ELSE \E t \in Timers \ timers : timers' = timers \cup {t} /\ reconnectTimer' = t

FlushMessageQueue == sent' = sent \o messageQueue /\ messageQueue' = <<>>

TimedBy(s) == timeouts \cup {s}

(* connect(): a new socket, whoever was current before. *)
Connect(s, answer) ==
    /\ s \in Free
    /\ ws' = s
    /\ state' = [state EXCEPT ![s] = answer]
    /\ timeouts' = TimedBy(s)
-----------------------------------------------------------------------------
(* TranscriberProxy's constructor calls connect(). *)
Init ==
    /\ ws \in Sockets
    /\ \E answer \in Connecting : state = [s \in Sockets |-> IF s = ws THEN answer ELSE "closed"]
    /\ timeouts = {ws} /\ timers = {} /\ reconnectTimer = None
    /\ closed = FALSE
    /\ messageQueue = <<>> /\ sent = <<>> /\ messages = 0

(* The open event: both listeners.  The flush goes through this.ws. *)
Opens(s) ==
    /\ state[s] = "connecting"
    /\ state' = [state EXCEPT ![s] = "open"]
    /\ timeouts' = timeouts \ {s}
    /\ IF IsConnected(state') THEN FlushMessageQueue ELSE UNCHANGED <<messageQueue, sent>>
    /\ UNCHANGED <<ws, timers, reconnectTimer, closed, messages>>

(* The close event, after a refusal, a lost connection or our close(). *)
Closes(s) ==
    /\ state[s] # "closed"
    /\ state' = [state EXCEPT ![s] = "closed"]
    /\ ws' = None
    /\ ScheduleReconnect
    /\ UNCHANGED <<timeouts, closed, queues>>

(* The connect timeout of s closes the current socket, which may be another. *)
ConnectTimeout(s) ==
    /\ s \in timeouts
    /\ timeouts' = timeouts \ {s}
    /\ IF IsConnected(state) THEN UNCHANGED state ELSE CloseCurrent
    /\ UNCHANGED <<ws, timers, reconnectTimer, closed, queues>>

(* A reconnect timer.  It does not look at closed. *)
Reconnect(t, s, answer) ==
    /\ t \in timers
    /\ timers' = timers \ {t} /\ reconnectTimer' = None
    /\ Connect(s, answer)
    /\ UNCHANGED <<closed, queues>>

(* send(): TranscriberProxy has a final transcript. *)
Send ==
    /\ messages < MaxMessages
    /\ messages' = messages + 1
    /\ IF IsConnected(state)
       THEN sent' = Append(sent, messages') /\ UNCHANGED messageQueue
       ELSE messageQueue' = Append(messageQueue, messages') /\ UNCHANGED sent
    /\ UNCHANGED <<ws, state, timeouts, timers, reconnectTimer, closed>>

(* close(), from TranscriberProxy.close(). *)
Close ==
    /\ ~closed /\ closed' = TRUE
    /\ timers' = timers \ {reconnectTimer} /\ reconnectTimer' = None
    /\ CloseCurrent /\ ws' = None
    /\ UNCHANGED <<timeouts, queues>>

Next ==
    \/ Send \/ Close
    \/ \E s \in Sockets : Opens(s) \/ Closes(s) \/ ConnectTimeout(s)
    \/ \E t \in Timers, s \in Sockets, answer \in Connecting : Reconnect(t, s, answer)

Spec == Init /\ [][Next]_vars

\* Timers fire and a close handshake completes; of the attempts made again and again
\* some are answered, and of those some open.
Fairness ==
    /\ \A s \in Sockets : WF_vars(ConnectTimeout(s)) /\ WF_vars(state[s] = "closing" /\ Closes(s))
    /\ WF_vars(\E t \in Timers, s \in Sockets, answer \in Connecting : Reconnect(t, s, answer))
    /\ SF_vars(\E t \in Timers, s \in Sockets : Reconnect(t, s, "connecting"))
    /\ SF_vars(\E s \in Sockets : Opens(s))

FairSpec == Spec /\ Fairness
-----------------------------------------------------------------------------
\* Every variable keeps its kind.
TypeOK ==
    /\ ws \in Sockets \cup {None}
    /\ state \in [Sockets -> Connecting \cup {"open", "closing", "closed"}]
    /\ timeouts \subseteq Sockets /\ timers \subseteq Timers
    /\ reconnectTimer \in Timers \cup {None} /\ closed \in BOOLEAN
    /\ messageQueue \in Seq(Nat) /\ sent \in Seq(Nat) /\ messages \in Nat

Live == {s \in Sockets : state[s] # "closed"}

\* At any moment there is one socket or one reconnect timer, and not both: so the close
\* event, which does not ask whose it is, never forgets a newer socket, and close()
\* finds the socket and the timer there are.
OneAttempt ==
    /\ \A s, r \in Live : s = r
    /\ \A t \in timers : t = reconnectTimer
    /\ Live # {} => timers = {}
    /\ ~closed => /\ \A s \in Live : s = ws
                  /\ Live # {} \/ timers # {}

\* Whatever fails and is retried, what was sent and what still waits are all messages,
\* once each and in order.
NothingLost == sent \o messageQueue = [n \in 1..messages |-> n]

\* A message waits only while the socket is not open, so that none overtakes it.
QueueOnlyWhileAway == messageQueue # <<>> => ~IsConnected(state)

\* What reaches the dispatcher is right: the two invariants together.
RelaySafe == NothingLost /\ QueueOnlyWhileAway

\* After close() no socket is opened, no timer pends and nothing more is sent, although
\* neither connect() nor the reconnect timer looks at closed.
ClosedSettles ==
    [][closed => /\ \A s \in Sockets : state'[s] \in {state[s], "closed", "closing"}
                 /\ timers' = {}
                 /\ sent' = sent]_vars

\* While the session lives, a queued message is sent in the end if the dispatcher can
\* be reached: also when an attempt is never answered.
QueueDrains == messageQueue # <<>> ~> (messageQueue = <<>> \/ closed)

\* An attempt is closed by a timeout only if that is its own.  The code does not keep
\* it: the timeout of a refused attempt cuts the next one short (see README).
OwnTimeout ==
    [][\A s, r \in Sockets : s \in timeouts \ timeouts' /\ state[r] \in Connecting /\ state'[r] = "closing"
           => closed' \/ s = r]_vars
=============================================================================
