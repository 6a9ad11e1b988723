--------------------------- MODULE SessionManager ---------------------------
(***************************************************************************)
(* The life of transcription sessions: SessionManager's maps and gauges, the*)
(* WebSocket and session event handlers of server.ts, and the part of       *)
(* TranscriberProxy that owns the client's WebSocket.                       *)
(*                                                                          *)
(* Client connections are numbered in the order the server accepts them     *)
(* (wsConnectionId).  A session is a TranscriberProxy, named by the          *)
(* connection that created it, which is also the socket its `closed' and     *)
(* `error' handlers were set up with.  Nobody is 0.                          *)
(*                                                                          *)
(* An action is one event of the event loop with every listener it reaches: *)
(* the proxy's own listeners run first, then those of server.ts.  close()    *)
(* on a socket only starts the closing handshake; its `close' event is a     *)
(* later action.                                                            *)
(***************************************************************************)
EXTENDS Integers, FiniteSets

CONSTANTS SessionIds,     \* values of the sessionId URL parameter
          NoId,           \* a connection without one
          MaxConns,       \* bound: client connections accepted
          MaxDrift,       \* bound: the gauge participantsActive, which may drift upwards
          ResumeEnabled,  \* config.sessionResumeEnabled
          Overlap,        \* may a client connect again before its old socket's close event?
          LateMedia,      \* may a client's audio arrive after close() was called on its socket?
          GraceErrors,    \* the sessions that a provider's error may end in their grace period
          Sigterm         \* may the process be told to stop?

ASSUME SessionAssumption ==
    /\ IsFiniteSet(SessionIds)
    /\ NoId \notin SessionIds
    /\ MaxConns \in Nat
    /\ MaxDrift \in Nat
    /\ ResumeEnabled \in BOOLEAN /\ Sigterm \in BOOLEAN
    /\ Overlap \in BOOLEAN /\ LateMedia \in BOOLEAN /\ GraceErrors \subseteq 1..MaxConns

Conns == 1..MaxConns
Nobody == 0

VARIABLES
    n,                  \* wsConnectionId
    ws, sid, of,        \* per connection: readyState, session id, the session it was given to
    cur,                \* per session: this.ws
    closed, conns,      \* per session: close() ran; some outgoingConnections entry exists
    active, detached,   \* activeSessions, detachedSessions
    timers,             \* per session id: pending grace period timers
    sessionsActive, sessionsDetached, participantsActive,   \* the gauges
    down                \* SIGTERM was handled

sockets == <<n, ws, sid, of, cur>>
proxies == <<closed, conns, participantsActive>>
registry == <<active, detached, timers, sessionsActive, sessionsDetached>>
vars == <<sockets, proxies, registry, down>>

\* sockets W after close() was called on each
Closing(st, W) == [w \in Conns |-> IF w \in W /\ st[w] = "open" THEN "closing" ELSE st[w]]

Entries(m) == {id \in SessionIds : m[id] # Nobody}
Active(p) == \E id \in SessionIds : active[id] = p
Detached(p) == \E id \in SessionIds : detached[id] = p
-----------------------------------------------------------------------------
(* SessionManager *)

RegisterSession(id, p) ==
    IF id = NoId THEN UNCHANGED registry
    ELSE /\ active' = [active EXCEPT ![id] = p]
         /\ sessionsActive' = sessionsActive + 1
         /\ UNCHANGED <<detached, timers, sessionsDetached>>

UnregisterUncounted(id) ==  \* mutant: decrement whether or not it was tracked
    IF id = NoId THEN UNCHANGED registry
    ELSE /\ active' = [active EXCEPT ![id] = Nobody]
         /\ sessionsActive' = sessionsActive - 1
         /\ UNCHANGED <<detached, timers, sessionsDetached>>

UnregisterNothing(id) == UNCHANGED registry  \* mutant: the session stays registered

UnregisterSession(id) ==
    IF id = NoId THEN UNCHANGED registry
    ELSE /\ active' = [active EXCEPT ![id] = Nobody]
         /\ sessionsActive' = IF active[id] # Nobody THEN sessionsActive - 1 ELSE sessionsActive
         /\ UNCHANGED <<detached, timers, sessionsDetached>>

MoveKeepsActive(id, p) ==  \* mutant: it stays in the map of active sessions
    /\ detached' = [detached EXCEPT ![id] = p]
    /\ timers' = [timers EXCEPT ![id] = @ + 1]
    /\ sessionsActive' = sessionsActive - 1
    /\ sessionsDetached' = sessionsDetached + 1
    /\ UNCHANGED active

MoveToDetached(id, p) ==
    /\ active' = [active EXCEPT ![id] = Nobody]
    /\ detached' = [detached EXCEPT ![id] = p]
    /\ timers' = [timers EXCEPT ![id] = @ + 1]
    /\ sessionsActive' = sessionsActive - 1
    /\ sessionsDetached' = sessionsDetached + 1

\* The branches for a missing id and for resumption switched off are never
\* reached: the only caller tests both.
DetachSession(id, p) ==
    IF active[id] = Nobody THEN UNCHANGED registry ELSE MoveToDetached(id, p)

ReattachKeepsTimer(id) ==  \* mutant: the grace period timer is not cleared
    /\ detached' = [detached EXCEPT ![id] = Nobody]
    /\ active' = [active EXCEPT ![id] = detached[id]]
    /\ sessionsDetached' = sessionsDetached - 1
    /\ sessionsActive' = sessionsActive + 1
    /\ UNCHANGED timers

ReattachSession(id) ==
    /\ timers' = [timers EXCEPT ![id] = @ - 1]
    /\ detached' = [detached EXCEPT ![id] = Nobody]
    /\ active' = [active EXCEPT ![id] = detached[id]]
    /\ sessionsDetached' = sessionsDetached - 1
    /\ sessionsActive' = sessionsActive + 1
-----------------------------------------------------------------------------
(* TranscriberProxy *)

ProxyLeftOpen(P, st) ==  \* mutant: connections survive the session
    /\ closed' = [p \in Conns |-> closed[p] \/ p \in P]
    /\ ws' = Closing(st, P \cup {cur[p] : p \in P})
    /\ UNCHANGED <<conns, participantsActive>>

(* close() of the sessions P, whose `closed' event closes the socket each was *)
(* created for; st is the state of the sockets before it.                     *)
ProxyClose(P, st) ==
    /\ closed' = [p \in Conns |-> closed[p] \/ p \in P]
    /\ conns' = [p \in Conns |-> conns[p] /\ p \notin P]
    /\ ws' = Closing(st, P \cup {cur[p] : p \in P})
    /\ UNCHANGED participantsActive

ReattachThenClose(p, w) ==  \* mutant: this.ws is replaced before it is closed
    /\ ws' = [ws EXCEPT ![w] = "closing"]
    /\ of' = [of EXCEPT ![w] = p]
    /\ cur' = [cur EXCEPT ![p] = w]

\* reattachWebSocket of session p to the new connection w
ReattachWebSocket(p, w) ==
    /\ ws' = [Closing(ws, {cur[p]}) EXCEPT ![w] = "open"]
    /\ of' = [of EXCEPT ![w] = p]
    /\ cur' = [cur EXCEPT ![p] = w]
-----------------------------------------------------------------------------
(* server.ts *)

Init ==
    /\ n = 0
    /\ ws = [w \in Conns |-> "none"]
    /\ sid = [w \in Conns |-> NoId]
    /\ of = [w \in Conns |-> Nobody]
    /\ cur = [p \in Conns |-> Nobody]
    /\ closed = [p \in Conns |-> FALSE]
    /\ conns = [p \in Conns |-> FALSE]
    /\ active = [id \in SessionIds |-> Nobody]
    /\ detached = [id \in SessionIds |-> Nobody]
    /\ timers = [id \in SessionIds |-> 0]
    /\ sessionsActive = 0 /\ sessionsDetached = 0 /\ participantsActive = 0
    /\ down = FALSE

\* A client of session id connects.
Accept(id) ==
    /\ n < MaxConns
    /\ Overlap \/ id = NoId \/ \A w \in Conns : sid[w] = id => ws[w] = "closed"
    /\ n' = n + 1
    /\ sid' = [sid EXCEPT ![n + 1] = id]

\* handleWebSocketConnection, session in its grace period
Resume(id) ==
    /\ Accept(id)
    /\ detached[id] # Nobody
    /\ ReattachSession(id)
    /\ ReattachWebSocket(detached[id], n + 1)
    /\ UNCHANGED <<proxies, down>>

\* handleWebSocketConnection, session still attached: take it over
TakeOver(id) ==
    /\ Accept(id)
    /\ detached[id] = Nobody /\ active[id] # Nobody
    /\ ReattachWebSocket(active[id], n + 1)
    /\ UNCHANGED <<proxies, registry, down>>

\* handleWebSocketConnection, no such session: create it
Create(id) ==
    /\ Accept(id)
    /\ id # NoId => detached[id] = Nobody /\ active[id] = Nobody
    /\ ws' = [ws EXCEPT ![n + 1] = "open"]
    /\ of' = [of EXCEPT ![n + 1] = n + 1]
    /\ cur' = [cur EXCEPT ![n + 1] = n + 1]
    /\ RegisterSession(id, n + 1)
    /\ UNCHANGED <<proxies, down>>

(* The `close' event of socket w.  The proxy's listener closes its current   *)
(* socket, whichever that is, and emits `closed', whose handler closes the   *)
(* one the session was created for; then server.ts detaches the session, or  *)
(* ends it when it cannot be resumed.                                        *)
WsClose(w) ==
    LET p == of[w]
        st == Closing([ws EXCEPT ![w] = "closed"], {cur[p], p})
    IN  /\ ws[w] \in {"open", "closing"}
        /\ \/ /\ sid[w] # NoId /\ ResumeEnabled
              /\ ws' = st
              /\ DetachSession(sid[w], p)
              /\ UNCHANGED proxies
           \/ /\ ~(sid[w] # NoId /\ ResumeEnabled)
              /\ UnregisterSession(sid[w])
              /\ ProxyClose({p}, st)
        /\ UNCHANGED <<n, sid, of, cur, down>>

\* The `error' event of socket w, after which its `close' event will come.
WsError(w) ==
    /\ ws[w] \in {"open", "closing"}
    /\ UnregisterSession(sid[w])
    /\ ProxyClose({of[w]}, Closing(ws, {w}))
    /\ UNCHANGED <<n, sid, of, cur, down>>

\* A media event that creates the participant's connection.  Sockets deliver
\* messages until they are closed, and every socket feeds the session it was
\* given to.
Media(w) ==
    /\ ws[w] = "open" \/ (ws[w] = "closing" /\ LateMedia)
    /\ ~conns[of[w]] /\ participantsActive < MaxDrift
    /\ conns' = [conns EXCEPT ![of[w]] = TRUE]
    /\ participantsActive' = participantsActive + 1
    /\ UNCHANGED <<sockets, closed, registry, down>>

\* The participant's connection closes by itself (onClosed) ...
ConnectionClosed(p) ==
    /\ conns[p]
    /\ conns' = [conns EXCEPT ![p] = FALSE]
    /\ participantsActive' = participantsActive - 1
    /\ UNCHANGED <<sockets, closed, registry, down>>

\* ... or with an error (onClosed, then the session's `error' event).  The handler looks
\* the session up among the active ones: one in its grace period stays in the other map.
SessionError(p) ==
    /\ conns[p] /\ (p \in GraceErrors \/ ~Detached(p))
    /\ participantsActive' = participantsActive - 1
    /\ UnregisterSession(sid[p])
    /\ closed' = [closed EXCEPT ![p] = TRUE]
    /\ conns' = [conns EXCEPT ![p] = FALSE]
    /\ ws' = Closing(ws, {cur[p], p})
    /\ UNCHANGED <<n, sid, of, cur, down>>

CleanupWithoutClose(id) ==  \* mutant: the expired session is only forgotten
    /\ timers[id] > 0
    /\ timers' = [timers EXCEPT ![id] = @ - 1]
    /\ detached[id] # Nobody
    /\ detached' = [detached EXCEPT ![id] = Nobody]
    /\ sessionsDetached' = sessionsDetached - 1
    /\ UNCHANGED <<sockets, proxies, active, sessionsActive, down>>

\* The grace period of session id is over.
CleanupSession(id) ==
    /\ timers[id] > 0
    /\ timers' = [timers EXCEPT ![id] = @ - 1]
    /\ detached[id] # Nobody
    /\ detached' = [detached EXCEPT ![id] = Nobody]
    /\ sessionsDetached' = sessionsDetached - 1
    /\ ProxyClose({detached[id]}, ws)
    /\ UNCHANGED <<n, sid, of, cur, active, sessionsActive, down>>

\* SIGTERM: end the detached sessions, forget the active ones.
Shutdown ==
    /\ Sigterm /\ ~down
    /\ down' = TRUE
    /\ ProxyClose({detached[id] : id \in Entries(detached)}, ws)
    /\ sessionsDetached' = sessionsDetached - Cardinality(Entries(detached))
    /\ detached' = [id \in SessionIds |-> Nobody]
    /\ timers' = [id \in SessionIds |-> IF detached[id] = Nobody THEN timers[id] ELSE timers[id] - 1]
    /\ sessionsActive' = sessionsActive - Cardinality(Entries(active))
    /\ active' = [id \in SessionIds |-> Nobody]
    /\ UNCHANGED <<n, sid, of, cur>>

Next == \/ \E id \in SessionIds : Resume(id) \/ TakeOver(id) \/ CleanupSession(id)
        \/ \E id \in SessionIds \cup {NoId} : Create(id)
        \/ \E w \in Conns : WsClose(w) \/ WsError(w) \/ Media(w)
        \/ \E p \in Conns : ConnectionClosed(p) \/ SessionError(p)
        \/ Shutdown

Spec == Init /\ [][Next]_vars

(* Sockets finish closing and grace periods end.  Clients owe nothing. *)
FairSpec ==
    /\ Spec
    /\ \A w \in Conns : WF_vars(ws[w] = "closing" /\ WsClose(w))
    /\ \A id \in SessionIds : WF_vars(CleanupSession(id))
-----------------------------------------------------------------------------
Sessions == {p \in Conns : of[p] = p}
Sockets(p) == {w \in Conns : of[w] = p}

\* Every variable holds a value of its kind.
TypeOK ==
    /\ n \in 0..MaxConns
    /\ ws \in [Conns -> {"none", "open", "closing", "closed"}]
    /\ sid \in [Conns -> SessionIds \cup {NoId}]
    /\ of \in [Conns -> Conns \cup {Nobody}]
    /\ cur \in [Conns -> Conns \cup {Nobody}]
    /\ closed \in [Conns -> BOOLEAN]
    /\ conns \in [Conns -> BOOLEAN]
    /\ active \in [SessionIds -> Conns \cup {Nobody}]
    /\ detached \in [SessionIds -> Conns \cup {Nobody}]
    /\ timers \in [SessionIds -> Nat]
    /\ sessionsActive \in Nat /\ sessionsDetached \in Nat /\ participantsActive \in Nat
    /\ down \in BOOLEAN

\* otp_sessions_active and otp_sessions_detached are the sizes of the two maps
\* on every path: detach, resume, takeover, error, expiry, shutdown.
GaugesExact ==
    /\ sessionsActive = Cardinality(Entries(active))
    /\ sessionsDetached = Cardinality(Entries(detached))

\* No session id is in both maps, so that the lookup order of
\* handleWebSocketConnection never hides a session.
NeverBoth == \A id \in SessionIds : active[id] = Nobody \/ detached[id] = Nobody

\* A grace period timer runs for exactly the detached sessions: none is left
\* over to end a later detachment early, and none is missing.
OneTimer == \A id \in SessionIds : timers[id] = IF detached[id] = Nobody THEN 0 ELSE 1

\* Each id is tracked in one place, with the timer of that place and no other:
\* what register, detach, reattach, expiry and shutdown rely on of each other.
TrackedOnce == NeverBoth /\ OneTimer

\* The maps hold sessions that are not closed, each under its own id.
TrackedAlive == \A id \in SessionIds : \A p \in {active[id], detached[id]} \ {Nobody} :
    sid[p] = id /\ ~closed[p]

\* A live session with an id can be found: nothing keeps backends open that no
\* reconnecting client and no timer can reach.
NoOrphan == ~down => \A p \in Sessions :
    sid[p] # NoId /\ ~closed[p] => p \in {active[sid[p]], detached[sid[p]]}

\* The server closes the newest connection of a client only with its session:
\* never because of what happened to an older socket.
NewestServed == \A p \in Sessions : ~closed[p] => ws[cur[p]] # "closing"

\* A client that reconnects finds its session, and is served by it.
SessionsReachable == NoOrphan /\ NewestServed

\* A closed session whose sockets are all gone has no participant connection
\* left: nobody would ever close it.
EndedIsEmpty == \A p \in Sessions :
    closed[p] /\ (\A w \in Sockets(p) : ws[w] = "closed") => ~conns[p]

\* otp_participants_active is the number of active participant tags.
ParticipantsCounted == participantsActive = Cardinality({p \in Sessions : conns[p]})

\* After SIGTERM the close handlers of server.ts tear the remaining sessions down.
ShutdownEndsSessions == down => \A p \in Sessions :
    (\A w \in Sockets(p) : ws[w] = "closed") => closed[p]

(* The refinement: what SessionLifecycle sees of a session.  One that was closed and is    *)
(* registered as active is served, and so is attached: it has come back.                   *)
Phase(p) == IF of[p] # p THEN "unborn"
            ELSE IF closed[p] /\ ~Active(p) THEN "ended"
            ELSE IF Detached(p) THEN "detached"
            ELSE "attached"

\* The sessions that no error ends in their grace period.
Spared == Conns \ GraceErrors

Lifecycle == INSTANCE SessionLifecycle
             WITH Sessions <- Spared,
                  phase <- [p \in Spared |-> Phase(p)],
                  owner <- [p \in Spared |-> IF of[p] = p THEN sid[p] ELSE NoId]

EveryLifecycle == INSTANCE SessionLifecycle
                  WITH Sessions <- Conns,
                       phase <- [p \in Conns |-> Phase(p)],
                       owner <- [p \in Conns |-> IF of[p] = p THEN sid[p] ELSE NoId]

\* Each session is opened, detached, resumed and ended as SessionLifecycle says: one live
\* session per id, none comes back once it ended, and a detached one is in the end resumed
\* or ended.  The code keeps it for the sessions that no error ends in their grace period,
\* whatever becomes of the others.
LifecycleHolds == Lifecycle!Spec

\* Its steps alone, without their fairness.
LifecycleSteps == Lifecycle!Steps

\* What unregisterSession takes out of tracking on a final cleanup is no longer served.  The
\* code does not keep it (see README): an error in the grace period closes a session and
\* leaves it where the client's next connection finds it, and it is ended no longer.
NoneComesBack == EveryLifecycle!Steps

\* A session whose client stays away is closed in the end, and with it its backends, and
\* no map holds it any more, even when an error closed it in its grace period.
AbandonedEnds == \A p \in Conns :
    (p \in Sessions /\ (\A w \in Sockets(p) : ws[w] = "closed"))
        ~> ((closed[p] /\ ~Active(p) /\ ~Detached(p)) \/ \E w \in Sockets(p) : ws[w] # "closed")
=============================================================================
