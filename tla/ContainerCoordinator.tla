------------------------ MODULE ContainerCoordinator ------------------------
(***************************************************************************)
(* The autoscale routing mode: the ContainerCoordinator durable object      *)
(* gives each session a container and counts the connections reported to    *)
(* it; the Worker asks it for a container, starts that and reports the      *)
(* connection as opened, without waiting for the answer.                    *)
(*                                                                          *)
(* The object handles one event at a time, and none while it awaits a write *)
(* to its storage; its answer leaves when the write is durable (the gates   *)
(* of durable objects).  A crash goes back to what is durable.  Containers  *)
(* are numbered as the code numbers them, which is also the order of its    *)
(* Map.  Nothing in the Worker posts /connection-closed: the handler is     *)
(* modelled with a caller that reports any closed connection, late, early   *)
(* (before the open is reported) or never, so what holds here holds of the  *)
(* Worker as it is.                                                         *)
(***************************************************************************)
EXTENDS Integers, FiniteSets, Functions

CONSTANTS Sessions,
          Connections,   \* requests of the Worker, each used once
          Nobody,
          MaxConnections,    \* maxConnectionsPerContainer
          MinContainers,
          ScaleDownIdleTime,
          MaxTime, MaxCrashes    \* bounds

ASSUME CoordinatorAssumption ==
    /\ Nobody \notin Connections
    /\ MaxConnections \in Nat \ {0} /\ MinContainers \in Nat /\ ScaleDownIdleTime \in Nat
    /\ MaxTime \in Nat /\ MaxCrashes \in Nat

VARIABLES
    memory, stored,  \* [containers, sessionToContainer, nextContainerId], and the durable copy
    awaiting,        \* the handler that awaits its write: [kind, by]
    phase,           \* of each connection
    session,         \* sessionId of each connection
    container,       \* its containerId once it is assigned
    reports,         \* requests on their way: <<path, connection>>
    now,
    crashes,
    opened,          \* history: how many opens were counted
    forgotten        \* history: sessions of which a close was reported

worker == <<phase, session, container, reports>>
vars == <<memory, stored, awaiting, worker, now, crashes, opened, forgotten>>

Quiet == [kind |-> "none", by |-> Nobody]
Await(kind, r) == awaiting' = [kind |-> kind, by |-> r]
Idle(c, pool) == pool[c].load = 0 /\ now - pool[c].lastActivity > ScaleDownIdleTime
-----------------------------------------------------------------------------
\* mutants: the busiest container; an id not counted; no second look at the pool's size;
\* a mapping that an assignment does not set
MostLoaded(pool) ==
    CHOOSE c \in DOMAIN pool : \A d \in DOMAIN pool : pool[d].load <= pool[c].load
SameId(id) == id
RemoveAllIdle(pool) ==
    IF Cardinality(DOMAIN pool) <= MinContainers THEN pool
    ELSE Restrict(pool, {c \in DOMAIN pool : ~Idle(c, pool)})
ForgetSession(mapping, s, c) == Restrict(mapping, DOMAIN mapping \ {s})

FindLeastLoadedContainer(pool) ==
    CHOOSE c \in DOMAIN pool : \A d \in DOMAIN pool :
        pool[c].load < pool[d].load \/ (pool[c].load = pool[d].load /\ c <= d)

NextId(id) == id + 1

\* Idle containers go in the order of the Map, as long as more than the minimum remain.
ConsiderScaleDown(pool) ==
    LET idle == {c \in DOMAIN pool : Idle(c, pool)}
        spare == Cardinality(DOMAIN pool) - MinContainers
        earlier(c) == Cardinality({d \in idle : d < c})
    IN  Restrict(pool, {c \in DOMAIN pool : c \notin idle \/ earlier(c) >= spare})

SetSession(mapping, s, c) == [x \in DOMAIN mapping \cup {s} |-> IF x = s THEN c ELSE mapping[x]]

NewContainer == [load |-> 0, lastActivity |-> now]
-----------------------------------------------------------------------------
(* initializeMinimumContainers: the first activation persists them. *)
Init ==
    /\ memory = [containers |-> [c \in 0..(MinContainers - 1) |-> [load |-> 0, lastActivity |-> 0]],
                 sessionToContainer |-> [s \in {} |-> 0],
                 nextContainerId |-> MinContainers]
    /\ stored = memory /\ awaiting = Quiet
    /\ phase = [r \in Connections |-> "none"]
    /\ session \in [Connections -> Sessions]
    /\ container = [r \in Connections |-> 0]
    /\ reports = {} /\ now = 0 /\ crashes = 0 /\ opened = 0 /\ forgotten = {}

(* selectContainerInstance posts /assign. *)
Request(r) ==
    /\ phase[r] = "none" /\ phase' = [phase EXCEPT ![r] = "assigning"]
    /\ UNCHANGED <<memory, stored, awaiting, session, container, reports, now, crashes, opened, forgotten>>

(* assignContainer: a session that has a container keeps it, without a write ... *)
AssignExisting(r) ==
    /\ awaiting = Quiet /\ phase[r] = "assigning"
    /\ LET s == session[r] IN
        /\ s \in DOMAIN memory.sessionToContainer
        /\ memory.sessionToContainer[s] \in DOMAIN memory.containers
        /\ container' = [container EXCEPT ![r] = memory.sessionToContainer[s]]
    /\ phase' = [phase EXCEPT ![r] = "starting"]
    /\ UNCHANGED <<memory, stored, awaiting, session, reports, now, crashes, opened, forgotten>>

(* ... another gets the least loaded one, or a new one if all are full. *)
AssignContainer(r) ==
    LET s == session[r]
        pool == memory.containers
        id == memory.nextContainerId
        least == FindLeastLoadedContainer(pool)
        full == DOMAIN pool = {} \/ pool[least].load >= MaxConnections
        target == IF full THEN id ELSE least
    IN  /\ awaiting = Quiet /\ phase[r] = "assigning"
        /\ s \in DOMAIN memory.sessionToContainer => memory.sessionToContainer[s] \notin DOMAIN pool
        /\ memory' = [containers |-> [c \in DOMAIN pool \cup {target} |->
                                        IF c \in DOMAIN pool THEN pool[c] ELSE NewContainer],
                      sessionToContainer |-> SetSession(memory.sessionToContainer, s, target),
                      nextContainerId |-> IF full THEN NextId(id) ELSE id]
        /\ container' = [container EXCEPT ![r] = target]
        /\ Await("assign", r)
        /\ UNCHANGED <<stored, phase, session, reports, now, crashes, opened, forgotten>>

(* startAndWaitForPorts succeeds: the open is reported, the socket is handed on. *)
Start(r) ==
    /\ phase[r] = "starting" /\ phase' = [phase EXCEPT ![r] = "open"]
    /\ reports' = reports \cup {<<"/connection-opened", r>>}
    /\ UNCHANGED <<memory, stored, awaiting, session, container, now, crashes, opened, forgotten>>

(* The container does not start: the request fails, nothing is reported. *)
Fail(r) ==
    /\ phase[r] = "starting" /\ phase' = [phase EXCEPT ![r] = "done"]
    /\ UNCHANGED <<memory, stored, awaiting, session, container, reports, now, crashes, opened, forgotten>>

(* The connection ends.  A caller may report it. *)
End(r) ==
    /\ phase[r] = "open" /\ phase' = [phase EXCEPT ![r] = "done"]
    /\ reports' = reports \cup {<<"/connection-closed", r>>}
    /\ UNCHANGED <<memory, stored, awaiting, session, container, now, crashes, opened, forgotten>>

(* A report does not arrive, or names a container that is gone. *)
Dropped(m) ==
    /\ m \in reports /\ reports' = reports \ {m}
    /\ UNCHANGED <<memory, stored, awaiting, phase, session, container, now, crashes, opened, forgotten>>

ConnectionOpened(r) ==
    LET c == container[r] IN
    /\ awaiting = Quiet /\ <<"/connection-opened", r>> \in reports
    /\ c \in DOMAIN memory.containers
    /\ reports' = reports \ {<<"/connection-opened", r>>}
    /\ memory' = [memory EXCEPT !.containers[c] = [load |-> @.load + 1, lastActivity |-> now],
                                !.sessionToContainer = SetSession(@, session[r], c)]
    /\ opened' = opened + 1
    /\ Await("opened", r)
    /\ UNCHANGED <<stored, phase, session, container, now, crashes, forgotten>>

ConnectionClosed(r) ==
    LET c == container[r] IN
    /\ awaiting = Quiet /\ <<"/connection-closed", r>> \in reports
    /\ c \in DOMAIN memory.containers
    /\ reports' = reports \ {<<"/connection-closed", r>>}
    /\ memory' = [memory EXCEPT !.containers[c] = [load |-> IF @.load > 0 THEN @.load - 1 ELSE 0,
                                                   lastActivity |-> now],
                                !.sessionToContainer = Restrict(@, DOMAIN @ \ {session[r]})]
    /\ forgotten' = forgotten \cup {session[r]}
    /\ Await("closed", r)
    /\ UNCHANGED <<stored, phase, session, container, now, crashes, opened>>

(* The write is durable, the handler goes on: an assignment is answered, a close
   considers scaling down, which may write again. *)
Persisted ==
    LET pool == ConsiderScaleDown(memory.containers)
        r == awaiting.by
    IN  /\ awaiting # Quiet
        /\ stored' = memory
        /\ phase' = IF awaiting.kind = "assign" THEN [phase EXCEPT ![r] = "starting"] ELSE phase
        /\ IF awaiting.kind = "closed" /\ pool # memory.containers
           THEN memory' = [memory EXCEPT !.containers = pool] /\ Await("scaled", r)
           ELSE awaiting' = Quiet /\ UNCHANGED memory
        /\ UNCHANGED <<session, container, reports, now, crashes, opened, forgotten>>

(* The object is reset.  Requests it has not answered fail. *)
Crash ==
    /\ crashes < MaxCrashes /\ crashes' = crashes + 1
    /\ memory' = stored /\ awaiting' = Quiet
    /\ phase' = [r \in Connections |-> IF phase[r] = "assigning" THEN "done" ELSE phase[r]]
    /\ UNCHANGED <<stored, session, container, reports, now, opened, forgotten>>

Tick ==
    /\ now < MaxTime /\ now' = now + 1
    /\ UNCHANGED <<memory, stored, awaiting, worker, crashes, opened, forgotten>>

Next ==
    \/ \E r \in Connections :
         \/ Request(r) \/ AssignExisting(r) \/ AssignContainer(r)
         \/ Start(r) \/ Fail(r) \/ End(r) \/ ConnectionOpened(r) \/ ConnectionClosed(r)
    \/ \E m \in reports : Dropped(m)
    \/ Persisted \/ Crash \/ Tick

Spec == Init /\ [][Next]_vars
-----------------------------------------------------------------------------
States == {memory, stored}
Answered(r) == phase[r] = "starting" \/ phase[r] = "open"

\* Every variable keeps its kind; the state and its durable copy are well formed.
TypeOK ==
    /\ \A m \in States :
        /\ m.nextContainerId \in Nat
        /\ DOMAIN m.containers \subseteq Nat
        /\ \A c \in DOMAIN m.containers : m.containers[c].load \in Nat /\ m.containers[c].lastActivity \in 0..now
        /\ DOMAIN m.sessionToContainer \subseteq Sessions
        /\ \A s \in DOMAIN m.sessionToContainer : m.sessionToContainer[s] \in Nat
    /\ awaiting.by \in Connections \cup {Nobody}
    /\ phase \in [Connections -> {"none", "assigning", "starting", "open", "done"}]
    /\ session \in [Connections -> Sessions] /\ container \in [Connections -> Nat]
    /\ now \in Nat /\ opened \in Nat /\ forgotten \subseteq Sessions

\* No container number is given out twice, whatever is removed and however often the
\* object restarts: what is in the pool or was answered to a request lies below
\* nextContainerId, in memory and in storage.
UniqueIds ==
    \A m \in States :
        /\ \A c \in DOMAIN m.containers : c < m.nextContainerId
        /\ \A r \in Connections : Answered(r) => container[r] < m.nextContainerId

\* A session that returns goes where it is being served: while one of its connections
\* starts or is open, it is mapped to that container, after a restart too, unless the
\* container was scaled down or some connection of the session was reported closed.
Sticky ==
    \A m \in States, r \in Connections :
        Answered(r) /\ session[r] \notin forgotten /\ container[r] \in DOMAIN m.containers
            => /\ session[r] \in DOMAIN m.sessionToContainer
               /\ m.sessionToContainer[session[r]] = container[r]

\* The pool keeps its minimum, and grows only for connections that were reported:
\* one container for every MaxConnections of them, and one more.
PoolBounded ==
    \A m \in States :
        LET size == Cardinality(DOMAIN m.containers) IN
        /\ MinContainers <= size
        /\ size <= MinContainers \/ size <= opened \div MaxConnections + 1

\* No more connections are open on a container than it may have.  The code does not
\* keep it: loads count what was reported, and reports are late (see README).
WithinCapacity ==
    \A c \in DOMAIN memory.containers :
        Cardinality({r \in Connections : phase[r] = "open" /\ container[r] = c}) <= MaxConnections

\* A session is served by one container.  The code does not keep it: the first close of
\* a session's connections forgets its container (see README).
OneContainer ==
    \A q, r \in Connections :
        phase[q] = "open" /\ phase[r] = "open" /\ session[q] = session[r] => container[q] = container[r]
=============================================================================
