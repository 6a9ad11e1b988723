---------------------------- MODULE Worker_proofs ----------------------------
(***************************************************************************)
(* Proofs about the Worker's two halves, for any sessions, connections,      *)
(* limits and crashes: ContainerCoordinator, which gives a session its       *)
(* container, and WorkerDispatcher, which relays its finals.                 *)
(***************************************************************************)
EXTENDS ContainerCoordinator, WorkerDispatcher, SequenceTheorems,
        FiniteSetTheorems, FunctionTheorems, WellFoundedInduction, TLAPS

USE CoordinatorAssumption

\* A set of naturals has a least element.
LEMMA LeastOf ==
    ASSUME NEW S, S \subseteq Nat, S # {}
    PROVE  \E x \in S : \A y \in S : x <= y
<1>1. IsWellFoundedOn(OpToRel(<, Nat), Nat)  BY NatLessThanWellFounded
<1>2. PICK x \in S : \A y \in S : ~(<<y, x>> \in OpToRel(<, Nat))  BY <1>1, WFMin
<1>3. \A y \in S : ~(y < x)  BY <1>2 DEF OpToRel
<1> QED  BY <1>3

\* A pool that is not empty has a least loaded container, the first of them.
LEMMA LeastLoaded ==
    ASSUME NEW pool, DOMAIN pool \subseteq Nat, DOMAIN pool # {},
           \A c \in DOMAIN pool : pool[c].load \in Nat
    PROVE  /\ FindLeastLoadedContainer(pool) \in DOMAIN pool
           /\ \A d \in DOMAIN pool : pool[FindLeastLoadedContainer(pool)].load <= pool[d].load
<1> DEFINE Loads == {pool[c].load : c \in DOMAIN pool}
<1>1. PICK l \in Loads : \A k \in Loads : l <= k
  <2>1. Loads \subseteq Nat /\ Loads # {}  OBVIOUS
  <2> QED  BY <2>1, LeastOf
<1> DEFINE Least == {c \in DOMAIN pool : pool[c].load = l}
<1>2. PICK c \in Least : \A d \in Least : c <= d
  <2>1. Least \subseteq Nat /\ Least # {}  BY <1>1
  <2> QED  BY <2>1, LeastOf
<1>3. \A d \in DOMAIN pool : pool[c].load < pool[d].load \/ (pool[c].load = pool[d].load /\ c <= d)
  <2> SUFFICES ASSUME NEW d \in DOMAIN pool
               PROVE  pool[c].load < pool[d].load \/ (pool[c].load = pool[d].load /\ c <= d)
      OBVIOUS
  <2>1. pool[c].load = l /\ l <= pool[d].load /\ pool[d].load \in Nat /\ l \in Nat  BY <1>1, <1>2
  <2>2. CASE pool[d].load = l  BY <1>2, <2>1, <2>2
  <2>3. CASE pool[d].load # l  BY <2>1, <2>3
  <2> QED  BY <2>2, <2>3
<1> DEFINE least == FindLeastLoadedContainer(pool)
<1>4. /\ least \in DOMAIN pool
      /\ \A d \in DOMAIN pool : pool[least].load < pool[d].load
                                \/ (pool[least].load = pool[d].load /\ least <= d)
  BY <1>2, <1>3 DEF FindLeastLoadedContainer
<1> HIDE DEF least
<1>5. \A d \in DOMAIN pool : pool[least].load <= pool[d].load  BY <1>4
<1> QED  BY <1>4, <1>5 DEF least
-----------------------------------------------------------------------------
(* Neither property is inductive: an open may be counted long after it was   *)
(* reported, when its connection is gone, and it maps the session again.     *)
(* Bound holds the connections whose container may still matter.             *)
Bound == {r \in Connections : Answered(r) \/ <<"/connection-opened", r>> \in reports}

\* m is a state of the object, and right about the connections of the set bound, whose
\* containers are `at' and whose sessions are `of'; `gone' are sessions reported closed.
Safe(m, bound, at, of, gone) ==
    /\ m = [containers |-> m.containers, sessionToContainer |-> m.sessionToContainer,
            nextContainerId |-> m.nextContainerId]
    /\ m.containers = [c \in DOMAIN m.containers |-> m.containers[c]]
    /\ DOMAIN m.containers \subseteq Nat /\ m.nextContainerId \in Nat
    /\ \A c \in DOMAIN m.containers : m.containers[c].load \in Nat /\ c < m.nextContainerId
    /\ \A r \in bound : at[r] < m.nextContainerId
    /\ \A r \in bound :
         of[r] \notin gone /\ at[r] \in DOMAIN m.containers
            => of[r] \in DOMAIN m.sessionToContainer /\ m.sessionToContainer[of[r]] = at[r]

\* Fewer connections, or more sessions that were reported closed.
LEMMA Narrowed ==
    ASSUME NEW m, NEW bound, NEW at, NEW of, NEW gone, Safe(m, bound, at, of, gone),
           NEW bound2, NEW at2, NEW gone2,
           bound2 \subseteq bound, \A r \in bound2 : at2[r] = at[r], gone \subseteq gone2
    PROVE  Safe(m, bound2, at2, of, gone2)
BY DEF Safe

\* One more connection, to a container its session is mapped to.
LEMMA Joined ==
    ASSUME NEW m, NEW bound, NEW at, NEW of, NEW gone, Safe(m, bound, at, of, gone),
           NEW r, of[r] \in DOMAIN m.sessionToContainer, m.sessionToContainer[of[r]] = at[r],
           at[r] < m.nextContainerId
    PROVE  Safe(m, bound \cup {r}, at, of, gone)
BY DEF Safe

\* assignContainer for a session without a container in the pool.
LEMMA Assigned ==
    ASSUME NEW m, NEW bound, NEW at, NEW of, NEW gone, Safe(m, bound, at, of, gone),
           NEW s, s \in DOMAIN m.sessionToContainer => m.sessionToContainer[s] \notin DOMAIN m.containers,
           NEW c, NEW next, NEW w, w.load \in Nat,
           \/ c = m.nextContainerId /\ next = m.nextContainerId + 1
           \/ c \in DOMAIN m.containers /\ next = m.nextContainerId,
           \A r \in bound : at[r] \in Nat
    PROVE  Safe([containers |-> [d \in DOMAIN m.containers \cup {c} |->
                                    IF d \in DOMAIN m.containers THEN m.containers[d] ELSE w],
                 sessionToContainer |-> SetSession(m.sessionToContainer, s, c),
                 nextContainerId |-> next], bound, at, of, gone)
<1> DEFINE pool == [d \in DOMAIN m.containers \cup {c} |->
                       IF d \in DOMAIN m.containers THEN m.containers[d] ELSE w]
           mapping == SetSession(m.sessionToContainer, s, c)
<1>1. m.nextContainerId \in Nat /\ c \in Nat /\ next \in Nat /\ c < next /\ m.nextContainerId <= next
      BY DEF Safe
<1>2. DOMAIN pool \subseteq Nat /\ \A d \in DOMAIN pool : pool[d].load \in Nat /\ d < next
      BY <1>1 DEF Safe
<1>3. \A r \in bound : at[r] < next  BY <1>1 DEF Safe
<1>4. ASSUME NEW r \in bound, of[r] \notin gone, at[r] \in DOMAIN pool
      PROVE  of[r] \in DOMAIN mapping /\ mapping[of[r]] = at[r]
  <2>1. at[r] \in DOMAIN m.containers
    <3>1. at[r] < m.nextContainerId /\ at[r] \in Nat  BY DEF Safe
    <3> QED  BY <1>1, <1>4, <3>1
  <2>2. of[r] \in DOMAIN m.sessionToContainer /\ m.sessionToContainer[of[r]] = at[r]
        BY <1>4, <2>1 DEF Safe
  <2>3. of[r] # s  BY <2>1, <2>2
  <2> QED  BY <2>2, <2>3 DEF SetSession
<1> HIDE DEF mapping
<1> QED  BY <1>1, <1>2, <1>3, <1>4 DEF Safe, mapping

\* Another load of a container, with a mapping that keeps the sessions not reported closed.
LEMMA Counted ==
    ASSUME NEW m, NEW bound, NEW at, NEW of, NEW gone, Safe(m, bound, at, of, gone),
           NEW m2, NEW pool, NEW mapping,
           m2 = [containers |-> pool, sessionToContainer |-> mapping, nextContainerId |-> m.nextContainerId],
           pool = [d \in DOMAIN m.containers |-> pool[d]],
           \A d \in DOMAIN m.containers : pool[d].load \in Nat,
           \A r \in bound : of[r] \notin gone /\ at[r] \in DOMAIN m.containers
               => of[r] \in DOMAIN mapping /\ mapping[of[r]] = at[r]
    PROVE  Safe(m2, bound, at, of, gone)
BY DEF Safe

\* considerScaleDown: a smaller pool.
LEMMA Scaled ==
    ASSUME NEW m, NEW bound, NEW at, NEW of, NEW gone, Safe(m, bound, at, of, gone),
           NEW S, S \subseteq DOMAIN m.containers
    PROVE  Safe([containers |-> Restrict(m.containers, S), sessionToContainer |-> m.sessionToContainer,
                 nextContainerId |-> m.nextContainerId], bound, at, of, gone)
BY DEF Safe, Restrict
-----------------------------------------------------------------------------
Correct(m) == Safe(m, Bound, container, session, forgotten)

WorkerSafe ==
    /\ phase \in [Connections -> {"none", "assigning", "starting", "open", "done"}]
    /\ session \in [Connections -> Sessions] /\ container \in [Connections -> Nat]
    /\ \A r \in Connections : <<"/connection-opened", r>> \in reports => phase[r] \in {"open", "done"}

\* The request that waits for its assignment to be durable, if there is one.
AssignmentSafe ==
    awaiting.kind = "assign" =>
        LET r == awaiting.by IN
        /\ r \in Connections /\ phase[r] = "assigning"
        /\ session[r] \in DOMAIN memory.sessionToContainer
        /\ memory.sessionToContainer[session[r]] = container[r]
        /\ container[r] < memory.nextContainerId

Durable == awaiting = Quiet => memory = stored

IInv == Correct(memory) /\ Correct(stored) /\ WorkerSafe /\ AssignmentSafe /\ Durable

LEMMA InitIInv == Init => IInv
<1> SUFFICES ASSUME Init PROVE IInv  OBVIOUS
<1>1. Bound = {}  BY DEF Init, Bound, Answered
<1>2. memory = [containers |-> [c \in 0..(MinContainers - 1) |-> [load |-> 0, lastActivity |-> 0]],
                sessionToContainer |-> [s \in {} |-> 0], nextContainerId |-> MinContainers]
      BY DEF Init
<1>3. Correct(memory)  BY <1>1, <1>2 DEF Correct, Safe
<1>4. stored = memory /\ awaiting = Quiet  BY DEF Init
<1>5. WorkerSafe  BY DEF Init, WorkerSafe
<1> QED  BY <1>3, <1>4, <1>5 DEF IInv, Correct, AssignmentSafe, Durable, Quiet

\* A step of the Worker that binds no other connection and changes no assigned container.
LEMMA Outside ==
    ASSUME IInv, UNCHANGED <<memory, stored, session>>, Bound' \subseteq Bound,
           \A r \in Bound' : container'[r] = container[r], forgotten \subseteq forgotten'
    PROVE  Correct(memory)' /\ Correct(stored)'
BY Narrowed DEF IInv, Correct

LEMMA RequestStep ==
    ASSUME IInv, NEW r \in Connections, Request(r)
    PROVE  IInv'
<1>1. phase[r] = "none" /\ phase' = [phase EXCEPT ![r] = "assigning"]  BY DEF Request
<1>2. UNCHANGED <<memory, stored, awaiting, session, container, reports, forgotten>>  BY DEF Request
<1>3. WorkerSafe'  BY <1>1, <1>2 DEF IInv, WorkerSafe
<1>4. Bound' \subseteq Bound  BY <1>1, <1>2 DEF IInv, WorkerSafe, Bound, Answered
<1>5. Correct(memory)' /\ Correct(stored)'  BY <1>2, <1>4, Outside
<1>6. AssignmentSafe' /\ Durable'  BY <1>1, <1>2 DEF IInv, WorkerSafe, AssignmentSafe, Durable
<1> QED  BY <1>3, <1>5, <1>6 DEF IInv

LEMMA ExistingStep ==
    ASSUME IInv, NEW r \in Connections, AssignExisting(r)
    PROVE  IInv'
<1> DEFINE c == memory.sessionToContainer[session[r]]
<1>1. /\ awaiting = Quiet /\ phase[r] = "assigning" /\ phase' = [phase EXCEPT ![r] = "starting"]
      /\ session[r] \in DOMAIN memory.sessionToContainer /\ c \in DOMAIN memory.containers
      /\ container' = [container EXCEPT ![r] = c]
      BY DEF AssignExisting
<1>2. UNCHANGED <<memory, stored, awaiting, session, reports, forgotten>> /\ memory = stored
      BY <1>1 DEF AssignExisting, IInv, Durable
<1>3. c \in Nat /\ c < memory.nextContainerId  BY <1>1 DEF IInv, Correct, Safe
<1>4. WorkerSafe'  BY <1>1, <1>2, <1>3 DEF IInv, WorkerSafe
<1>5. r \notin Bound /\ Bound' = Bound \cup {r} /\ container'[r] = c
      BY <1>1, <1>2 DEF IInv, WorkerSafe, Bound, Answered
<1>6. \A q \in Bound : container'[q] = container[q]
      BY <1>1, <1>5 DEF IInv, WorkerSafe, Bound
<1>7. Safe(memory, Bound, container', session, forgotten)
      BY <1>6, Narrowed DEF IInv, Correct
<1>8. Safe(memory, Bound \cup {r}, container', session, forgotten)
      BY <1>1, <1>3, <1>5, <1>7, Joined
<1>9. Correct(memory)' /\ Correct(stored)'  BY <1>2, <1>5, <1>8 DEF Correct
<1>10. AssignmentSafe' /\ Durable'  BY <1>1, <1>2 DEF AssignmentSafe, Durable, Quiet
<1> QED  BY <1>4, <1>9, <1>10 DEF IInv

LEMMA AssignStep ==
    ASSUME IInv, NEW r \in Connections, AssignContainer(r)
    PROVE  IInv'
<1> DEFINE s == session[r]
           pool == memory.containers
           id == memory.nextContainerId
           least == FindLeastLoadedContainer(pool)
           full == DOMAIN pool = {} \/ pool[least].load >= MaxConnections
           target == IF full THEN id ELSE least
           next == IF full THEN NextId(id) ELSE id
<1>1. /\ phase[r] = "assigning" /\ awaiting = Quiet /\ memory = stored
      /\ s \in DOMAIN memory.sessionToContainer => memory.sessionToContainer[s] \notin DOMAIN pool
      BY DEF AssignContainer, IInv, Durable
<1>2. memory' = [containers |-> [c \in DOMAIN pool \cup {target} |->
                                    IF c \in DOMAIN pool THEN pool[c] ELSE NewContainer],
                 sessionToContainer |-> SetSession(memory.sessionToContainer, s, target),
                 nextContainerId |-> next]
      BY DEF AssignContainer
<1>3. /\ container' = [container EXCEPT ![r] = target] /\ awaiting' = [kind |-> "assign", by |-> r]
      /\ UNCHANGED <<stored, phase, session, reports, forgotten>>
      BY DEF AssignContainer, Await
<1>4. /\ DOMAIN pool \subseteq Nat /\ id \in Nat
      /\ \A c \in DOMAIN pool : pool[c].load \in Nat /\ c < id
      BY DEF IInv, Correct, Safe
<1>5. \/ target = id /\ next = id + 1
      \/ target \in DOMAIN pool /\ next = id
  <2>1. CASE full  BY <2>1 DEF NextId
  <2>2. CASE ~full  BY <1>4, <2>2, LeastLoaded
  <2> QED  BY <2>1, <2>2
<1> HIDE DEF target, next
<1>6. target \in Nat /\ target < next  BY <1>4, <1>5
<1>7. Bound' = Bound /\ r \notin Bound  BY <1>1, <1>3 DEF IInv, WorkerSafe, Bound, Answered
<1>8. \A q \in Bound : container'[q] = container[q] /\ container'[q] \in Nat
      BY <1>3, <1>7 DEF IInv, WorkerSafe, Bound
<1>9. Safe(memory, Bound, container', session, forgotten) /\ Safe(stored, Bound, container', session, forgotten)
      BY <1>8, Narrowed DEF IInv, Correct
<1>10. NewContainer.load \in Nat  BY DEF NewContainer
<1>11. Safe(memory', Bound, container', session, forgotten)
  <2>1. \/ target = memory.nextContainerId /\ next = memory.nextContainerId + 1
        \/ target \in DOMAIN memory.containers /\ next = memory.nextContainerId
        BY <1>5
  <2>2. s \in DOMAIN memory.sessionToContainer =>
            memory.sessionToContainer[s] \notin DOMAIN memory.containers
        BY <1>1
  <2>3. \A q \in Bound : container'[q] \in Nat  BY <1>8
  <2>4. memory' = [containers |-> [c \in DOMAIN memory.containers \cup {target} |->
                                     IF c \in DOMAIN memory.containers THEN memory.containers[c]
                                     ELSE NewContainer],
                   sessionToContainer |-> SetSession(memory.sessionToContainer, s, target),
                   nextContainerId |-> next]
        BY <1>2
  <2> HIDE DEF s, pool, id, least, full
  <2> QED  BY <1>9, <1>10, <2>1, <2>2, <2>3, <2>4, Assigned
<1>12. Correct(memory)' /\ Correct(stored)'  BY <1>3, <1>7, <1>9, <1>11 DEF Correct
<1>13. WorkerSafe'  BY <1>3, <1>6 DEF IInv, WorkerSafe
<1>14. AssignmentSafe'
  <2>1. container'[r] = target /\ phase'[r] = "assigning" /\ session'[r] = s
        BY <1>1, <1>3 DEF IInv, WorkerSafe
  <2>2. s \in DOMAIN memory'.sessionToContainer /\ memory'.sessionToContainer[s] = target
        BY <1>2 DEF SetSession
  <2> QED  BY <1>2, <1>3, <1>6, <2>1, <2>2 DEF AssignmentSafe
<1>15. Durable'  BY <1>3 DEF Durable, Quiet
<1> QED  BY <1>12, <1>13, <1>14, <1>15 DEF IInv

\* The steps of a connection's life, and what happens to reports on their way.
LEMMA WorkerStep ==
    ASSUME IInv,
           \/ \E r \in Connections : Start(r) \/ Fail(r) \/ End(r)
           \/ \E m \in reports : Dropped(m)
    PROVE  IInv'
<1>1. UNCHANGED <<memory, stored, awaiting, session, container, forgotten>>
      BY DEF Start, Fail, End, Dropped
<1> SUFFICES WorkerSafe' /\ AssignmentSafe' /\ Bound' \subseteq Bound
    BY <1>1, Outside DEF IInv, Durable
<1> USE DEF IInv, WorkerSafe, AssignmentSafe, Bound, Answered
<1>2. ASSUME NEW r \in Connections, Start(r) \/ Fail(r) \/ End(r)
      PROVE  WorkerSafe' /\ AssignmentSafe' /\ Bound' \subseteq Bound
  <2>1. CASE Start(r)  BY <1>1, <2>1 DEF Start
  <2>2. CASE Fail(r)  BY <1>1, <2>2 DEF Fail
  <2>3. CASE End(r)  BY <1>1, <2>3 DEF End
  <2> QED  BY <1>2, <2>1, <2>2, <2>3
<1>3. ASSUME NEW m \in reports, Dropped(m)
      PROVE  WorkerSafe' /\ AssignmentSafe' /\ Bound' \subseteq Bound
      BY <1>1, <1>3 DEF Dropped
<1> QED  BY <1>2, <1>3

\* The session of an open that is counted is mapped to the container it was mapped to.
LEMMA OpenedStep ==
    ASSUME IInv, NEW r \in Connections, ConnectionOpened(r)
    PROVE  IInv'
<1> DEFINE c == container[r]
           w == [load |-> memory.containers[c].load + 1, lastActivity |-> now]
           mapping == SetSession(memory.sessionToContainer, session[r], c)
<1>1. /\ c \in DOMAIN memory.containers /\ r \in Bound
      /\ memory' = [memory EXCEPT !.containers[c] = [load |-> @.load + 1, lastActivity |-> now],
                                  !.sessionToContainer = SetSession(@, session[r], c)]
      /\ awaiting' = [kind |-> "opened", by |-> r] /\ reports' \subseteq reports
      /\ UNCHANGED <<stored, phase, session, container, forgotten>>
      BY DEF ConnectionOpened, Await, Bound
<1>2. memory' = [containers |-> [memory.containers EXCEPT ![c] = w], sessionToContainer |-> mapping,
                 nextContainerId |-> memory.nextContainerId]
      BY <1>1 DEF IInv, Correct, Safe
<1>3. w.load \in Nat  BY <1>1 DEF IInv, Correct, Safe
<1>4. ASSUME NEW q \in Bound, session[q] \notin forgotten, container[q] \in DOMAIN memory.containers
      PROVE  session[q] \in DOMAIN mapping /\ mapping[session[q]] = container[q]
      BY <1>1, <1>4 DEF IInv, Correct, Safe, SetSession
<1>5. Safe(memory', Bound, container, session, forgotten)
  <2> DEFINE pool == [memory.containers EXCEPT ![c] = w]
  <2>1. pool = [d \in DOMAIN memory.containers |-> pool[d]]  BY DEF IInv, Correct, Safe
  <2>2. \A d \in DOMAIN memory.containers : pool[d].load \in Nat  BY <1>3 DEF IInv, Correct, Safe
  <2>3. Safe(memory, Bound, container, session, forgotten)  BY DEF IInv, Correct
  <2> HIDE DEF pool, mapping, w
  <2> QED  BY <1>2, <1>4, <2>1, <2>2, <2>3, Counted DEF pool
<1>6. Bound' \subseteq Bound  BY <1>1 DEF Bound, Answered
<1>7. Correct(memory)' /\ Correct(stored)'  BY <1>1, <1>5, <1>6, Narrowed DEF IInv, Correct
<1>8. WorkerSafe' /\ AssignmentSafe' /\ Durable'
      BY <1>1 DEF IInv, WorkerSafe, AssignmentSafe, Durable, Quiet
<1> QED  BY <1>7, <1>8 DEF IInv

LEMMA ClosedStep ==
    ASSUME IInv, NEW r \in Connections, ConnectionClosed(r)
    PROVE  IInv'
<1> DEFINE c == container[r]
           w == [load |-> IF memory.containers[c].load > 0 THEN memory.containers[c].load - 1 ELSE 0,
                 lastActivity |-> now]
           mapping == Restrict(memory.sessionToContainer, DOMAIN memory.sessionToContainer \ {session[r]})
<1>1. /\ c \in DOMAIN memory.containers
      /\ memory' = [memory EXCEPT !.containers[c] = [load |-> IF @.load > 0 THEN @.load - 1 ELSE 0,
                                                     lastActivity |-> now],
                                  !.sessionToContainer = Restrict(@, DOMAIN @ \ {session[r]})]
      /\ awaiting' = [kind |-> "closed", by |-> r] /\ reports' \subseteq reports
      /\ forgotten' = forgotten \cup {session[r]}
      /\ UNCHANGED <<stored, phase, session, container>>
      BY DEF ConnectionClosed, Await
<1>2. memory' = [containers |-> [memory.containers EXCEPT ![c] = w], sessionToContainer |-> mapping,
                 nextContainerId |-> memory.nextContainerId]
      BY <1>1 DEF IInv, Correct, Safe
<1>3. w.load \in Nat  BY <1>1 DEF IInv, Correct, Safe
<1>4. Safe(memory, Bound, container, session, forgotten') BY <1>1, Narrowed DEF IInv, Correct
<1>5. ASSUME NEW q \in Bound, session[q] \notin forgotten', container[q] \in DOMAIN memory.containers
      PROVE  session[q] \in DOMAIN mapping /\ mapping[session[q]] = container[q]
      BY <1>1, <1>4, <1>5 DEF Safe, Restrict
<1>6. Safe(memory', Bound, container, session, forgotten')
  <2> DEFINE pool == [memory.containers EXCEPT ![c] = w]
  <2>1. pool = [d \in DOMAIN memory.containers |-> pool[d]]  BY DEF IInv, Correct, Safe
  <2>2. \A d \in DOMAIN memory.containers : pool[d].load \in Nat  BY <1>3 DEF IInv, Correct, Safe
  <2> HIDE DEF pool, mapping, w
  <2> QED  BY <1>2, <1>4, <1>5, <2>1, <2>2, Counted DEF pool
<1>7. Bound' \subseteq Bound  BY <1>1 DEF Bound, Answered
<1>8. Correct(memory)' /\ Correct(stored)'  BY <1>1, <1>6, <1>7, Narrowed DEF IInv, Correct
<1>9. WorkerSafe' /\ AssignmentSafe' /\ Durable'
      BY <1>1 DEF IInv, WorkerSafe, AssignmentSafe, Durable, Quiet
<1> QED  BY <1>8, <1>9 DEF IInv

\* What was assigned is answered once it is durable.
LEMMA PersistedStep == IInv /\ Persisted => IInv'
<1> SUFFICES ASSUME IInv, Persisted PROVE IInv'  OBVIOUS
<1> DEFINE pool == ConsiderScaleDown(memory.containers)
           r == awaiting.by
<1>1. /\ stored' = memory /\ UNCHANGED <<session, container, reports, forgotten>>
      /\ phase' = IF awaiting.kind = "assign" THEN [phase EXCEPT ![r] = "starting"] ELSE phase
      /\ \/ awaiting' = Quiet /\ memory' = memory
         \/ awaiting.kind = "closed" /\ awaiting' = [kind |-> "scaled", by |-> r]
            /\ memory' = [memory EXCEPT !.containers = pool]
      BY DEF Persisted, Await
<1>2. WorkerSafe' /\ AssignmentSafe' /\ Durable'
  <2>1. CASE awaiting.kind = "assign"
        BY <1>1, <2>1 DEF IInv, WorkerSafe, AssignmentSafe, Durable, Quiet
  <2>2. CASE awaiting.kind # "assign"
        BY <1>1, <2>2 DEF IInv, WorkerSafe, AssignmentSafe, Durable, Quiet
  <2> QED  BY <2>1, <2>2
<1>3. Safe(memory, Bound', container, session, forgotten)
  <2>1. CASE awaiting.kind = "assign"
    <3>1. Bound' \subseteq Bound \cup {r}  BY <1>1, <2>1 DEF Bound, Answered
    <3>2. Safe(memory, Bound \cup {r}, container, session, forgotten)
          BY <2>1, Joined DEF IInv, Correct, AssignmentSafe
    <3> QED  BY <3>1, <3>2, Narrowed
  <2>2. CASE awaiting.kind # "assign"
    <3>1. Bound' = Bound  BY <1>1, <2>2 DEF Bound, Answered
    <3> QED  BY <3>1 DEF IInv, Correct
  <2> QED  BY <2>1, <2>2
<1>4. Safe(memory', Bound', container, session, forgotten)
  <2>1. CASE memory' = memory  BY <1>3, <2>1
  <2>2. CASE memory' = [memory EXCEPT !.containers = pool]
    <3>1. PICK S \in SUBSET DOMAIN memory.containers : pool = Restrict(memory.containers, S)
          BY DEF ConsiderScaleDown
    <3>2. memory' = [containers |-> Restrict(memory.containers, S),
                     sessionToContainer |-> memory.sessionToContainer,
                     nextContainerId |-> memory.nextContainerId]
          BY <2>2, <3>1 DEF IInv, Correct, Safe
    <3> QED  BY <1>3, <3>2, Scaled
  <2> QED  BY <1>1, <2>1, <2>2
<1> QED  BY <1>1, <1>2, <1>3, <1>4 DEF IInv, Correct

LEMMA CrashStep == IInv /\ Crash => IInv'
<1> SUFFICES ASSUME IInv, Crash PROVE IInv'  OBVIOUS
<1>1. /\ memory' = stored /\ awaiting' = Quiet
      /\ phase' = [r \in Connections |-> IF phase[r] = "assigning" THEN "done" ELSE phase[r]]
      /\ UNCHANGED <<stored, session, container, reports, forgotten>>
      BY DEF Crash
<1>2. Bound' \subseteq Bound  BY <1>1 DEF Bound, Answered, IInv, WorkerSafe
<1>3. Correct(stored)' /\ Correct(memory)'  BY <1>1, <1>2, Narrowed DEF IInv, Correct
<1>4. WorkerSafe' /\ AssignmentSafe' /\ Durable'
      BY <1>1 DEF IInv, WorkerSafe, AssignmentSafe, Durable, Quiet
<1> QED  BY <1>3, <1>4 DEF IInv

LEMMA IInvStep == IInv /\ [Next]_vars => IInv'
<1> SUFFICES ASSUME IInv, [Next]_vars PROVE IInv'  OBVIOUS
<1>1. CASE UNCHANGED <<memory, stored, awaiting, phase, session, container, reports, forgotten>>
      BY <1>1 DEF IInv, Correct, WorkerSafe, AssignmentSafe, Durable, Bound, Answered
<1>2. ASSUME NEW r \in Connections,
             \/ Request(r) \/ AssignExisting(r) \/ AssignContainer(r)
             \/ ConnectionOpened(r) \/ ConnectionClosed(r)
      PROVE  IInv'
      BY <1>2, RequestStep, ExistingStep, AssignStep, OpenedStep, ClosedStep
<1>3. CASE \/ \E r \in Connections : Start(r) \/ Fail(r) \/ End(r)
           \/ \E m \in reports : Dropped(m)
      BY <1>3, WorkerStep
<1>4. CASE Persisted  BY <1>4, PersistedStep
<1>5. CASE Crash  BY <1>5, CrashStep
<1>6. CASE Tick  BY <1>1, <1>6 DEF Tick, worker
<1>7. CASE UNCHANGED vars  BY <1>1, <1>7 DEF vars, worker
<1> QED  BY <1>2, <1>3, <1>4, <1>5, <1>6, <1>7 DEF Next
-----------------------------------------------------------------------------
\* The ids of assignContainer and initializeMinimumContainers are given out once, whatever
\* is scaled down and however often the object goes back to what it persisted.
THEOREM UniqueIdsHolds == Spec => []UniqueIds
<1>1. IInv => UniqueIds  BY DEF IInv, Correct, Safe, UniqueIds, States, Bound
<1> QED  BY <1>1, InitIInv, IInvStep, PTL DEF Spec

\* A session that returns to assignContainer while it is served is sent where it is served,
\* unless one of its connections was reported closed or the container is gone.
THEOREM StickyHolds == Spec => []Sticky
<1>1. IInv => Sticky  BY DEF IInv, Correct, Safe, Sticky, States, Bound
<1> QED  BY <1>1, InitIInv, IInvStep, PTL DEF Spec
-----------------------------------------------------------------------------
(* The size of the pool.  It grows when every container is full, so the loads *)
(* must be accounted for: as a set of slots, which is never larger than the   *)
(* number of opens that were counted.                                         *)

Slots(pool) == {s \in (DOMAIN pool) \X Nat : 1 <= s[2] /\ s[2] <= pool[s[1]].load}

\* What the pool of m keeps to, when o opens were counted.
Sized(m, o) ==
    /\ IsFiniteSet(DOMAIN m.containers)
    /\ \A c \in DOMAIN m.containers : m.containers[c].load \in Nat
    /\ MinContainers <= Cardinality(DOMAIN m.containers)
    /\ \/ Cardinality(DOMAIN m.containers) <= MinContainers
       \/ (Cardinality(DOMAIN m.containers) - 1) * MaxConnections <= o
    /\ IsFiniteSet(Slots(m.containers)) /\ Cardinality(Slots(m.containers)) <= o

\* Opens are only counted upwards.
LEMMA SizedLater ==
    ASSUME NEW m, NEW o \in Nat, NEW p \in Nat, o <= p, Sized(m, o)
    PROVE  Sized(m, p)
<1>1. Cardinality(DOMAIN m.containers) \in Nat /\ Cardinality(Slots(m.containers)) \in Nat
  BY FS_CardinalityType DEF Sized
<1>2. (Cardinality(DOMAIN m.containers) - 1) * MaxConnections \in Int  BY <1>1
<1> QED  BY <1>1, <1>2 DEF Sized

\* The same pool, with loads that take no more slots, or one more.
LEMMA Reloaded ==
    ASSUME NEW m, NEW m2, NEW o \in Nat, NEW p \in Nat, Sized(m, o), o <= p,
           DOMAIN m2.containers = DOMAIN m.containers,
           \A c \in DOMAIN m.containers : m2.containers[c].load \in Nat,
           \/ Slots(m2.containers) \subseteq Slots(m.containers)
           \/ p = o + 1 /\ \E x : Slots(m2.containers) \subseteq Slots(m.containers) \cup {x}
    PROVE  Sized(m2, p)
<1>1. IsFiniteSet(Slots(m.containers)) /\ Cardinality(Slots(m.containers)) \in Nat
  BY FS_CardinalityType DEF Sized
<1>2. IsFiniteSet(Slots(m2.containers)) /\ Cardinality(Slots(m2.containers)) <= p
  <2>1. CASE Slots(m2.containers) \subseteq Slots(m.containers)
    <3>1. /\ IsFiniteSet(Slots(m2.containers)) /\ Cardinality(Slots(m2.containers)) \in Nat
          /\ Cardinality(Slots(m2.containers)) <= Cardinality(Slots(m.containers))
      BY <1>1, <2>1, FS_Subset, FS_CardinalityType
    <3> QED  BY <1>1, <3>1 DEF Sized
  <2>2. CASE p = o + 1 /\ \E x : Slots(m2.containers) \subseteq Slots(m.containers) \cup {x}
    <3>1. PICK x : Slots(m2.containers) \subseteq Slots(m.containers) \cup {x}  BY <2>2
    <3>2. /\ IsFiniteSet(Slots(m.containers) \cup {x})
          /\ Cardinality(Slots(m.containers) \cup {x}) \in Nat
          /\ Cardinality(Slots(m.containers) \cup {x}) <= Cardinality(Slots(m.containers)) + 1
      <4>1. /\ IsFiniteSet(Slots(m.containers) \cup {x})
            /\ Cardinality(Slots(m.containers) \cup {x}) = IF x \in Slots(m.containers)
                  THEN Cardinality(Slots(m.containers)) ELSE Cardinality(Slots(m.containers)) + 1
        BY <1>1, FS_AddElement
      <4> QED  BY <1>1, <4>1
    <3>3. /\ IsFiniteSet(Slots(m2.containers)) /\ Cardinality(Slots(m2.containers)) \in Nat
          /\ Cardinality(Slots(m2.containers)) <= Cardinality(Slots(m.containers) \cup {x})
      BY <3>1, <3>2, FS_Subset, FS_CardinalityType
    <3> QED  BY <1>1, <2>2, <3>2, <3>3 DEF Sized
  <2> QED  BY <2>1, <2>2
<1>3. Cardinality(DOMAIN m.containers) \in Nat  BY FS_CardinalityType DEF Sized
<1>4. (Cardinality(DOMAIN m.containers) - 1) * MaxConnections \in Int  BY <1>3
<1> QED  BY <1>2, <1>3, <1>4 DEF Sized

\* When every container is full, the slots bound the number of containers.
LEMMA AllFull ==
    ASSUME NEW m, NEW o \in Nat, Sized(m, o),
           \A c \in DOMAIN m.containers : m.containers[c].load >= MaxConnections
    PROVE  Cardinality(DOMAIN m.containers) * MaxConnections <= o
<1> DEFINE D == DOMAIN m.containers
           Places == D \X (1..MaxConnections)
<1>1. IsFiniteSet(1..MaxConnections) /\ Cardinality(1..MaxConnections) = MaxConnections
  BY FS_Interval
<1>2. IsFiniteSet(D) /\ Cardinality(D) \in Nat  BY FS_CardinalityType DEF Sized
<1>3. IsFiniteSet(Places) /\ Cardinality(Places) = Cardinality(D) * MaxConnections
  BY <1>1, <1>2, FS_Product
<1>4. Places \subseteq Slots(m.containers)  BY DEF Sized, Slots
<1>5. Cardinality(Places) <= Cardinality(Slots(m.containers))
  BY <1>4, FS_Subset DEF Sized
<1>6. Cardinality(Slots(m.containers)) \in Nat  BY FS_CardinalityType DEF Sized
<1> QED  BY <1>2, <1>3, <1>5, <1>6 DEF Sized

\* assignContainer: the same pool, or a new container when all are full.
LEMMA SizedAssigned ==
    ASSUME NEW m, NEW m2, NEW o \in Nat, Sized(m, o), NEW c,
           DOMAIN m2.containers = DOMAIN m.containers \cup {c},
           \A d \in DOMAIN m2.containers : m2.containers[d].load =
               IF d \in DOMAIN m.containers THEN m.containers[d].load ELSE 0,
           \/ c \in DOMAIN m.containers
           \/ \A d \in DOMAIN m.containers : m.containers[d].load >= MaxConnections
    PROVE  Sized(m2, o)
<1> DEFINE D == DOMAIN m.containers
<1>1. DOMAIN m2.containers = D \cup {c}  OBVIOUS
<1>2. Slots(m2.containers) = Slots(m.containers)  BY DEF Slots
<1>3. IsFiniteSet(D) /\ Cardinality(D) \in Nat  BY FS_CardinalityType DEF Sized
<1>4. IsFiniteSet(D \cup {c})
      /\ Cardinality(D \cup {c}) = IF c \in D THEN Cardinality(D) ELSE Cardinality(D) + 1
  BY <1>3, FS_AddElement
<1>5. \A d \in DOMAIN m2.containers : m2.containers[d].load \in Nat  BY DEF Sized
<1>6. CASE c \in D
  <2>1. DOMAIN m2.containers = D  BY <1>1, <1>6
  <2> QED  BY <1>2, <1>5, <2>1 DEF Sized
<1>7. CASE c \notin D
  <2>1. Cardinality(D) * MaxConnections <= o  BY <1>7, AllFull
  <2>2. Cardinality(DOMAIN m2.containers) = Cardinality(D) + 1  BY <1>1, <1>4, <1>7
  <2>3. (Cardinality(DOMAIN m2.containers) - 1) * MaxConnections <= o  BY <1>3, <2>1, <2>2
  <2>4. MinContainers <= Cardinality(DOMAIN m2.containers)  BY <1>3, <2>2 DEF Sized
  <2> QED  BY <1>1, <1>2, <1>4, <1>5, <2>3, <2>4 DEF Sized
<1> QED  BY <1>6, <1>7

\* Of a finite set of numbers at most k have fewer than k others below them.
LEMMA FewEarlier ==
    ASSUME NEW S, S \subseteq Nat, IsFiniteSet(S), NEW k \in Nat
    PROVE  Cardinality({c \in S : Cardinality({d \in S : d < c}) < k}) <= k
<1> DEFINE Earlier(c) == {d \in S : d < c}
           First == {c \in S : Cardinality(Earlier(c)) < k}
           rank == [c \in First |-> Cardinality(Earlier(c))]
<1>1. ASSUME NEW c \in S
      PROVE  IsFiniteSet(Earlier(c)) /\ Cardinality(Earlier(c)) \in Nat
  <2>1. Earlier(c) \subseteq S  OBVIOUS
  <2> QED  BY <2>1, FS_Subset, FS_CardinalityType
<1>2. ASSUME NEW c \in S, NEW d \in S, c < d
      PROVE  Cardinality(Earlier(c)) < Cardinality(Earlier(d))
  <2>1. Earlier(c) \cup {c} \subseteq Earlier(d) /\ c \notin Earlier(c)
    <3>1. c \in Nat /\ d \in Nat  OBVIOUS
    <3>2. ASSUME NEW e \in S, e < c PROVE e < d  BY <1>2, <3>1, <3>2
    <3>3. c \notin Earlier(c) /\ c \in Earlier(d)  BY <1>2, <3>1
    <3>4. \A e \in Earlier(c) : e \in Earlier(d)  BY <3>2
    <3> QED  BY <3>3, <3>4
  <2>2. Cardinality(Earlier(c) \cup {c}) = Cardinality(Earlier(c)) + 1
    <3> HIDE DEF Earlier
    <3> QED  BY <1>1, <2>1, FS_AddElement
  <2>3. Cardinality(Earlier(c) \cup {c}) <= Cardinality(Earlier(d))
    <3> HIDE DEF Earlier
    <3> QED  BY <1>1, <2>1, FS_Subset
  <2> HIDE DEF Earlier
  <2> QED  BY <1>1, <2>2, <2>3
<1> HIDE DEF Earlier
<1>3. rank \in Injection(First, 0..(k - 1))
  <2>1. ASSUME NEW c \in First PROVE Cardinality(Earlier(c)) \in 0..(k - 1)
    <3>1. Cardinality(Earlier(c)) \in Nat /\ Cardinality(Earlier(c)) < k  BY <1>1
    <3> QED  BY <3>1
  <2>3. rank \in [First -> 0..(k - 1)]  BY <2>1
  <2>2. \A c, d \in First : rank[c] = rank[d] => c = d
    <3> SUFFICES ASSUME NEW c \in First, NEW d \in First, rank[c] = rank[d] PROVE c = d  OBVIOUS
    <3>1. c \in S /\ d \in S /\ c \in Nat /\ d \in Nat  OBVIOUS
    <3>2. Cardinality(Earlier(c)) = Cardinality(Earlier(d))  OBVIOUS
    <3>3. ~(c < d) /\ ~(d < c)  BY <1>1, <1>2, <3>1, <3>2
    <3> QED  BY <3>1, <3>3
  <2> HIDE DEF First, rank
  <2> QED  BY <2>2, <2>3, Fun_IsInj
<1>4. IsFiniteSet(0..(k - 1)) /\ Cardinality(0..(k - 1)) = k  BY FS_Interval
<1>5. Cardinality(First) <= k  BY <1>3, <1>4, FS_Injection
<1> QED  BY <1>5 DEF Earlier

\* considerScaleDown leaves the minimum.
LEMMA ScaledDown ==
    ASSUME NEW m, NEW m2, NEW o \in Nat, Sized(m, o), DOMAIN m.containers \subseteq Nat,
           m2.containers = ConsiderScaleDown(m.containers)
    PROVE  Sized(m2, o)
<1> DEFINE D == DOMAIN m.containers
           idle == {c \in D : Idle(c, m.containers)}
           spare == Cardinality(D) - MinContainers
           earlier(c) == Cardinality({d \in idle : d < c})
           removed == {c \in idle : earlier(c) < spare}
           kept == {c \in D : c \notin idle \/ earlier(c) >= spare}
<1>1. m2.containers = Restrict(m.containers, kept)  BY DEF ConsiderScaleDown
<1>2. IsFiniteSet(D) /\ Cardinality(D) \in Nat /\ spare \in Nat
  BY FS_CardinalityType DEF Sized
<1>3. idle \subseteq Nat /\ IsFiniteSet(idle)  BY <1>2, FS_Subset
<1>4. ASSUME NEW c \in idle PROVE earlier(c) \in Nat
  <2>1. {d \in idle : d < c} \subseteq idle  OBVIOUS
  <2> QED  BY <1>3, <2>1, FS_Subset, FS_CardinalityType
<1>5. Cardinality(removed) <= spare
  <2> HIDE DEF idle, spare
  <2> QED  BY <1>2, <1>3, FewEarlier
<1>6. kept = D \ removed /\ removed \subseteq D
  <2> HIDE DEF earlier, spare
  <2>1. ASSUME NEW c \in idle PROVE earlier(c) >= spare <=> ~(earlier(c) < spare)
    BY <1>2, <1>4, <2>1
  <2> QED  BY <2>1
<1> HIDE DEF removed, kept, idle
<1>7. IsFiniteSet(removed) /\ Cardinality(removed) \in Nat  BY <1>2, <1>6, FS_Subset, FS_CardinalityType
<1>8. IsFiniteSet(kept) /\ Cardinality(kept) = Cardinality(D) - Cardinality(removed)
  <2>1. IsFiniteSet(D \ removed)  BY <1>2, FS_Difference
  <2>2. Cardinality(D \ removed) = Cardinality(D) - Cardinality(D \cap removed)
    BY <1>2, FS_Difference
  <2>3. D \cap removed = removed  BY <1>6
  <2> QED  BY <1>6, <2>1, <2>2, <2>3
<1>9. DOMAIN m2.containers = kept /\ kept \subseteq D  BY <1>1, <1>6 DEF Restrict
<1>10. \A c \in kept : m2.containers[c] = m.containers[c]  BY <1>1, <1>6 DEF Restrict
<1>11. Slots(m2.containers) \subseteq Slots(m.containers)
  BY <1>9, <1>10 DEF Slots
<1>12. /\ IsFiniteSet(Slots(m2.containers)) /\ Cardinality(Slots(m2.containers)) \in Nat
       /\ Cardinality(Slots(m2.containers)) <= Cardinality(Slots(m.containers))
  BY <1>11, FS_Subset, FS_CardinalityType DEF Sized
<1>13. Cardinality(Slots(m.containers)) \in Nat  BY FS_CardinalityType DEF Sized
<1>14. Cardinality(Slots(m2.containers)) <= o  BY <1>12, <1>13 DEF Sized
<1>15. MinContainers <= Cardinality(kept) /\ Cardinality(kept) \in Nat /\ Cardinality(kept) <= Cardinality(D)
  BY <1>2, <1>5, <1>7, <1>8
<1>16. Cardinality(kept) <= MinContainers \/ (Cardinality(kept) - 1) * MaxConnections <= o
  <2>1. CASE Cardinality(D) <= MinContainers  BY <1>2, <1>15, <2>1
  <2>2. CASE (Cardinality(D) - 1) * MaxConnections <= o
    <3>1. (Cardinality(kept) - 1) * MaxConnections <= (Cardinality(D) - 1) * MaxConnections
      BY <1>2, <1>15
    <3>2. /\ (Cardinality(kept) - 1) * MaxConnections \in Int
          /\ (Cardinality(D) - 1) * MaxConnections \in Int
      BY <1>2, <1>15
    <3> QED  BY <2>2, <3>1, <3>2
  <2> QED  BY <2>1, <2>2 DEF Sized
<1>17. \A c \in kept : m2.containers[c].load \in Nat  BY <1>9, <1>10 DEF Sized
<1> QED  BY <1>8, <1>9, <1>12, <1>14, <1>15, <1>16, <1>17 DEF Sized
-----------------------------------------------------------------------------
PoolSized == opened \in Nat /\ Sized(memory, opened) /\ Sized(stored, opened)

LEMMA InitPoolSized == Init => PoolSized
<1> SUFFICES ASSUME Init PROVE PoolSized  OBVIOUS
<1>1. memory.containers = [c \in 0..(MinContainers - 1) |-> [load |-> 0, lastActivity |-> 0]]
  BY DEF Init
<1>2. opened = 0 /\ stored = memory  BY DEF Init
<1>3. IsFiniteSet(0..(MinContainers - 1)) /\ Cardinality(0..(MinContainers - 1)) = MinContainers
  BY FS_Interval
<1>4. Slots(memory.containers) = {}  BY <1>1 DEF Slots
<1>5. IsFiniteSet(Slots(memory.containers)) /\ Cardinality(Slots(memory.containers)) = 0
  BY <1>4, FS_EmptySet
<1>6. Sized(memory, 0)  BY <1>1, <1>3, <1>5 DEF Sized
<1> QED  BY <1>2, <1>6 DEF PoolSized

LEMMA AssignSized ==
    ASSUME IInv, PoolSized, NEW r \in Connections, AssignContainer(r)
    PROVE  PoolSized'
<1> DEFINE s == session[r]
           pool == memory.containers
           id == memory.nextContainerId
           least == FindLeastLoadedContainer(pool)
           full == DOMAIN pool = {} \/ pool[least].load >= MaxConnections
           target == IF full THEN id ELSE least
<1>1. /\ memory'.containers = [c \in DOMAIN pool \cup {target} |->
                                  IF c \in DOMAIN pool THEN pool[c] ELSE NewContainer]
      /\ UNCHANGED <<stored, opened>>
  BY DEF AssignContainer
<1>2. DOMAIN pool \subseteq Nat /\ \A c \in DOMAIN pool : pool[c].load \in Nat
  BY DEF IInv, Correct, Safe
<1>3. \/ target \in DOMAIN pool
      \/ \A d \in DOMAIN pool : pool[d].load >= MaxConnections
  <2>1. CASE DOMAIN pool = {}  BY <2>1
  <2>2. CASE DOMAIN pool # {}
    <3>1. least \in DOMAIN pool /\ \A d \in DOMAIN pool : pool[least].load <= pool[d].load
      BY <1>2, <2>2, LeastLoaded
    <3> HIDE DEF least
    <3>2. CASE full
      <4>1. pool[least].load >= MaxConnections  BY <2>2, <3>2
      <4> QED  BY <1>2, <3>1, <4>1
    <3>3. CASE ~full  BY <3>1, <3>3
    <3> QED  BY <3>2, <3>3
  <2> QED  BY <2>1, <2>2
<1>4. NewContainer.load = 0  BY DEF NewContainer
<1> HIDE DEF target
<1>5. Sized(memory', opened)
  <2>1. Sized(memory, opened) /\ opened \in Nat  BY DEF PoolSized
  <2>2. /\ DOMAIN memory'.containers = DOMAIN pool \cup {target}
        /\ \A d \in DOMAIN memory'.containers : memory'.containers[d].load =
               IF d \in DOMAIN pool THEN pool[d].load ELSE 0
    BY <1>1, <1>4
  <2> QED  BY <1>3, <2>1, <2>2, SizedAssigned
<1> QED  BY <1>1, <1>5 DEF PoolSized

LEMMA OpenedSized ==
    ASSUME IInv, PoolSized, NEW r \in Connections, ConnectionOpened(r)
    PROVE  PoolSized'
<1> DEFINE c == container[r]
           pool == memory.containers
<1>1. /\ c \in DOMAIN pool /\ opened' = opened + 1 /\ stored' = stored
      /\ memory'.containers = [pool EXCEPT ![c] = [load |-> @.load + 1, lastActivity |-> now]]
  BY DEF ConnectionOpened, IInv, Correct, Safe
<1>2. \A d \in DOMAIN pool : pool[d].load \in Nat  BY DEF IInv, Correct, Safe
<1>3. /\ DOMAIN memory'.containers = DOMAIN pool
      /\ \A d \in DOMAIN pool : memory'.containers[d].load = IF d = c THEN pool[d].load + 1 ELSE pool[d].load
  BY <1>1
<1>4. Slots(memory'.containers) \subseteq Slots(pool) \cup {<<c, pool[c].load + 1>>}
  BY <1>1, <1>2, <1>3 DEF Slots
<1>5. \A d \in DOMAIN pool : memory'.containers[d].load \in Nat  BY <1>2, <1>3
<1>6. Sized(memory', opened + 1)
  <2>1. Sized(memory, opened) /\ opened \in Nat  BY DEF PoolSized
  <2>2. \E x : Slots(memory'.containers) \subseteq Slots(memory.containers) \cup {x}  BY <1>4
  <2>3. opened + 1 \in Nat /\ opened <= opened + 1  BY <2>1
  <2> QED  BY <1>3, <1>5, <2>1, <2>2, <2>3, Reloaded
<1>7. Sized(stored, opened + 1)  BY SizedLater DEF PoolSized
<1> QED  BY <1>1, <1>6, <1>7 DEF PoolSized

LEMMA ClosedSized ==
    ASSUME IInv, PoolSized, NEW r \in Connections, ConnectionClosed(r)
    PROVE  PoolSized'
<1> DEFINE c == container[r]
           pool == memory.containers
<1>1. /\ c \in DOMAIN pool /\ UNCHANGED <<opened, stored>>
      /\ memory'.containers = [pool EXCEPT ![c] = [load |-> IF @.load > 0 THEN @.load - 1 ELSE 0,
                                                   lastActivity |-> now]]
  BY DEF ConnectionClosed, IInv, Correct, Safe
<1>2. \A d \in DOMAIN pool : pool[d].load \in Nat  BY DEF IInv, Correct, Safe
<1>3. /\ DOMAIN memory'.containers = DOMAIN pool
      /\ \A d \in DOMAIN pool : /\ memory'.containers[d].load \in Nat
                                /\ memory'.containers[d].load <= pool[d].load
  BY <1>1, <1>2
<1>4. Slots(memory'.containers) \subseteq Slots(pool)
  <2> SUFFICES ASSUME NEW s \in Slots(memory'.containers) PROVE s \in Slots(pool)
    OBVIOUS
  <2>1. s \in (DOMAIN pool) \X Nat /\ 1 <= s[2] /\ s[2] <= memory'.containers[s[1]].load
    BY <1>3 DEF Slots
  <2>2. s[2] <= pool[s[1]].load  BY <1>2, <1>3, <2>1
  <2> QED  BY <2>1, <2>2 DEF Slots
<1>5. Sized(memory', opened)  BY <1>3, <1>4, Reloaded DEF PoolSized
<1> QED  BY <1>1, <1>5 DEF PoolSized

LEMMA PersistedSized == IInv /\ PoolSized /\ Persisted => PoolSized'
<1> SUFFICES ASSUME IInv, PoolSized, Persisted PROVE PoolSized'  OBVIOUS
<1>1. /\ stored' = memory /\ opened' = opened
      /\ \/ memory' = memory
         \/ memory' = [memory EXCEPT !.containers = ConsiderScaleDown(memory.containers)]
  BY DEF Persisted
<1>2. CASE memory' = memory  BY <1>1, <1>2 DEF PoolSized
<1>3. CASE memory' = [memory EXCEPT !.containers = ConsiderScaleDown(memory.containers)]
  <2>1. memory'.containers = ConsiderScaleDown(memory.containers)
    BY <1>3 DEF IInv, Correct, Safe
  <2>2. Sized(memory', opened)
    BY <2>1, ScaledDown DEF PoolSized, IInv, Correct, Safe
  <2> QED  BY <1>1, <2>2 DEF PoolSized
<1> QED  BY <1>1, <1>2, <1>3

LEMMA PoolSizedStep == IInv /\ PoolSized /\ [Next]_vars => PoolSized'
<1> SUFFICES ASSUME IInv, PoolSized, [Next]_vars PROVE PoolSized'  OBVIOUS
<1>1. CASE UNCHANGED <<memory, stored, opened>>  BY <1>1 DEF PoolSized
<1>2. ASSUME NEW r \in Connections, AssignContainer(r) \/ ConnectionOpened(r) \/ ConnectionClosed(r)
      PROVE  PoolSized'
  BY <1>2, AssignSized, OpenedSized, ClosedSized
<1>3. ASSUME NEW r \in Connections,
             Request(r) \/ AssignExisting(r) \/ Start(r) \/ Fail(r) \/ End(r)
      PROVE  PoolSized'
  BY <1>1, <1>3 DEF Request, AssignExisting, Start, Fail, End
<1>4. ASSUME NEW m \in reports, Dropped(m) PROVE PoolSized'  BY <1>1, <1>4 DEF Dropped
<1>5. CASE Persisted  BY <1>5, PersistedSized
<1>6. CASE Crash  BY <1>6 DEF Crash, PoolSized
<1>7. CASE Tick  BY <1>1, <1>7 DEF Tick
<1>8. CASE UNCHANGED vars  BY <1>1, <1>8 DEF vars
<1> QED  BY <1>2, <1>3, <1>4, <1>5, <1>6, <1>7, <1>8 DEF Next

\* initializeMinimumContainers and considerScaleDown keep the minimum, and
\* assignContainer adds a container only when the opens counted so far, those
\* of lost writes included, would fill all there are.
THEOREM PoolBoundedHolds == Spec => []PoolBounded
<1>1. PoolSized => PoolBounded
  <2> SUFFICES ASSUME PoolSized, NEW m \in States
               PROVE  /\ MinContainers <= Cardinality(DOMAIN m.containers)
                      /\ \/ Cardinality(DOMAIN m.containers) <= MinContainers
                         \/ Cardinality(DOMAIN m.containers) <= opened \div MaxConnections + 1
    BY DEF PoolBounded
  <2> DEFINE size == Cardinality(DOMAIN m.containers)
             q == opened \div MaxConnections
  <2>1. Sized(m, opened) /\ opened \in Nat  BY DEF PoolSized, States
  <2>2. size \in Nat /\ MinContainers <= size  BY <2>1, FS_CardinalityType DEF Sized
  <2>3. CASE (size - 1) * MaxConnections <= opened
    <3>1. q \in Nat /\ opened < (q + 1) * MaxConnections  BY <2>1
    <3> HIDE DEF q, size
    <3>2. (size - 1) * MaxConnections < (q + 1) * MaxConnections
      <4>1. (size - 1) * MaxConnections \in Int /\ (q + 1) * MaxConnections \in Int  BY <2>2, <3>1
      <4> QED  BY <2>1, <2>3, <3>1, <4>1
    <3>3. size - 1 < q + 1
      <4> SUFFICES ASSUME size - 1 >= q + 1 PROVE FALSE  BY <2>2, <3>1
      <4>1. (size - 1) * MaxConnections >= (q + 1) * MaxConnections  BY <2>2, <3>1
      <4>2. (size - 1) * MaxConnections \in Int /\ (q + 1) * MaxConnections \in Int  BY <2>2, <3>1
      <4> QED  BY <3>2, <4>1, <4>2
    <3>4. size <= q + 1  BY <2>2, <3>1, <3>3
    <3> QED  BY <2>2, <3>4 DEF q, size
  <2>4. CASE size <= MinContainers  BY <2>2, <2>4
  <2> QED  BY <2>1, <2>3, <2>4 DEF Sized
<1> QED  BY <1>1, InitIInv, IInvStep, InitPoolSized, PoolSizedStep, PTL DEF Spec
-----------------------------------------------------------------------------
(* The relay of the Worker.  The finals are numbered, and are sent straight   *)
(* away or through the queue.                                                *)
Upto(n) == [i \in 1..n |-> i]

\* The messages up to n, and then the next one.
LEMMA UptoNext ==
    ASSUME NEW n \in Nat
    PROVE  Upto(n) \in Seq(Nat) /\ Append(Upto(n), n + 1) = Upto(n + 1)
<1>1. Upto(n) \in Seq(Nat) /\ Len(Upto(n)) = n  BY DEF Upto
<1>2. Upto(n + 1) \in Seq(Nat) /\ Len(Upto(n + 1)) = n + 1  BY DEF Upto
<1>3. \A i \in 1..(n + 1) : Append(Upto(n), n + 1)[i] = Upto(n + 1)[i]  BY <1>1 DEF Upto
<1>4. Append(Upto(n), n + 1) \in Seq(Nat) /\ Len(Append(Upto(n), n + 1)) = n + 1  BY <1>1
<1>5. Append(Upto(n), n + 1) = Upto(n + 1)  BY <1>2, <1>3, <1>4, SeqEqual
<1> QED  BY <1>1, <1>5

\* A message appended to the queue is appended to what is sent and queued.
LEMMA ConcatAppend ==
    ASSUME NEW s \in Seq(Nat), NEW t \in Seq(Nat), NEW e \in Nat
    PROVE  s \o Append(t, e) = Append(s \o t, e)
<1> DEFINE l == s \o Append(t, e)
           r == Append(s \o t, e)
<1>1. Append(t, e) \in Seq(Nat) /\ s \o t \in Seq(Nat)  OBVIOUS
<1>2. l \in Seq(Nat) /\ Len(l) = Len(s) + Len(t) + 1  BY <1>1
<1>3. r \in Seq(Nat) /\ Len(r) = Len(s) + Len(t) + 1  BY <1>1
<1>4. ASSUME NEW i \in 1..Len(l)  PROVE l[i] = r[i]
  <2>1. CASE i <= Len(s)  BY <1>1, <1>2, <2>1
  <2>2. CASE i > Len(s) /\ i < Len(l)  BY <1>1, <1>2, <2>2
  <2>3. CASE i = Len(l)  BY <1>1, <1>2, <2>3
  <2> QED  BY <1>2, <2>1, <2>2, <2>3
<1> QED  BY <1>2, <1>3, <1>4, SeqEqual
-----------------------------------------------------------------------------
(* NothingLost is not inductive alone: a final sent past the queue keeps its  *)
(* place only if the queue is empty, which QueueOnlyWhileAway says.           *)
WorkerIInv == RelayTypeOK /\ NothingLost /\ QueueOnlyWhileAway

\* The client's socket closes once: what ClosedSettles needs.
WorkerClosedOnce == sessionClosed => serverWs = "closed"

LEMMA WorkerInitIInv == RelayInit => WorkerIInv
<1> SUFFICES ASSUME RelayInit PROVE WorkerIInv  OBVIOUS
<1>1. RelayTypeOK
  <2>1. handled \subseteq Sockets /\ state \in [Sockets -> {"open", "closing", "closed"}]
        BY DEF RelayInit
  <2> QED  BY <2>1, EmptySeq DEF RelayInit, RelayTypeOK
<1>2. <<>> \o <<>> = Upto(0)  BY DEF Upto
<1>3. NothingLost  BY <1>2 DEF RelayInit, NothingLost, Upto
<1>4. QueueOnlyWhileAway  BY DEF RelayInit, QueueOnlyWhileAway
<1> QED  BY <1>1, <1>3, <1>4 DEF WorkerIInv

\* What the flush of the queue does, whatever socket it goes to.
LEMMA WorkerFlushed ==
    ASSUME RelayTypeOK, FlushMessageQueue
    PROVE  /\ messageQueue' = <<>> /\ sent' \in Seq(Nat)
           /\ sent' \o messageQueue' = sent \o messageQueue
<1>1. sent' \in Seq(Nat) /\ messageQueue' = <<>>  BY DEF RelayTypeOK, FlushMessageQueue
<1>2. sent' \o <<>> = sent'  BY <1>1, ConcatEmptySeq
<1> QED  BY <1>1, <1>2 DEF FlushMessageQueue

\* Every action leaves the queue and what is sent alone, flushes, or is Final.
LEMMA WorkerHanding ==
    ASSUME RelayTypeOK, [RelayNext]_relayVars
    PROVE  \/ UNCHANGED <<messageQueue, sent, finals>>
           \/ FlushMessageQueue /\ UNCHANGED finals
           \/ Final
BY DEF RelayNext, relayVars, Final, DispatcherCloses, ReconnectTimer, Reconnected,
    ReconnectFails, ClientCloses,
       FlushConnected, FlushFails, ContainerCloses, PipeError
-----------------------------------------------------------------------------
LEMMA WorkerTypeStep == RelayTypeOK /\ [RelayNext]_relayVars => RelayTypeOK'
<1> SUFFICES ASSUME RelayTypeOK, [RelayNext]_relayVars PROVE RelayTypeOK'  OBVIOUS
<1> USE DEF ReadyState, ScheduleReconnect
<1>1. messageQueue' \in Seq(Nat) /\ sent' \in Seq(Nat) /\ finals' \in Nat
  <2>1. CASE UNCHANGED <<messageQueue, sent, finals>>  BY <2>1 DEF RelayTypeOK
  <2>2. CASE FlushMessageQueue /\ UNCHANGED finals  BY <2>2, WorkerFlushed, EmptySeq DEF RelayTypeOK
  <2>3. CASE Final
    <3>1. finals + 1 \in Nat /\ sent \in Seq(Nat) /\ messageQueue \in Seq(Nat)  BY DEF RelayTypeOK
    <3>2. finals' = finals + 1 /\ SendOrQueue(finals + 1)  BY <2>3 DEF Final
    <3>3. Append(sent, finals + 1) \in Seq(Nat) /\ Append(messageQueue, finals + 1) \in Seq(Nat)
          BY <3>1, AppendProperties
    <3> QED  BY <3>1, <3>2, <3>3 DEF SendOrQueue
  <2> QED  BY <2>1, <2>2, <2>3, WorkerHanding
<1> DEFINE Rest == /\ serverWs \in {"open", "closing", "closed"}
                   /\ containerWs \in {"open", "closing", "closed"}
                   /\ state \in [Sockets -> {"open", "closing", "closed"}]
                   /\ dispatcherWs \in Sockets \cup {NoSocket} /\ handled \subseteq Sockets
                   /\ isReconnecting \in BOOLEAN /\ flushing \in BOOLEAN
                   /\ sessionClosed \in BOOLEAN /\ connecting \in Nat
<1>2. Rest'
  <2>1. CASE Final  BY <2>1 DEF Final, RelayTypeOK, pipe
  <2>2. CASE ReconnectTimer
    <3>1. connecting' \in Nat
      <4>1. CASE sessionClosed  BY <2>2, <4>1 DEF ReconnectTimer, RelayTypeOK
      <4>2. CASE ~sessionClosed  BY <2>2, <4>2 DEF ReconnectTimer, RelayTypeOK
      <4> QED  BY <4>1, <4>2
    <3> QED  BY <2>2, <3>1 DEF ReconnectTimer, RelayTypeOK, pipe
  <2>3. CASE ReconnectFails  BY <2>3 DEF ReconnectFails, RelayTypeOK, pipe
  <2>4. CASE FlushFails  BY <2>4 DEF FlushFails, RelayTypeOK, pipe
  <2>5. CASE ClientCloses  BY <2>5 DEF ClientCloses, CloseDispatcher, Open, RelayTypeOK
  <2>6. CASE ContainerCloses  BY <2>6 DEF ContainerCloses, CloseDispatcher, Open, RelayTypeOK
  <2>7. CASE PipeError  BY <2>7 DEF PipeError, RelayTypeOK
  <2>8. ASSUME NEW s \in Sockets, DispatcherCloses(s)  PROVE Rest'
        BY <2>8 DEF DispatcherCloses, RelayTypeOK, pipe
  <2>9. ASSUME NEW s \in Sockets, Reconnected(s)  PROVE Rest'
        BY <2>9 DEF Reconnected, NewSocket, RelayTypeOK, pipe
  <2>10. ASSUME NEW s \in Sockets, FlushConnected(s)  PROVE Rest'
        BY <2>10 DEF FlushConnected, NewSocket, RelayTypeOK, pipe
  <2>11. CASE UNCHANGED relayVars  BY <2>11 DEF relayVars, pipe, RelayTypeOK
  <2> QED  BY <2>1, <2>2, <2>3, <2>4, <2>5, <2>6, <2>7, <2>8, <2>9, <2>10, <2>11 DEF RelayNext
<1> QED  BY <1>1, <1>2 DEF RelayTypeOK

LEMMA WorkerQueueStep == WorkerIInv /\ [RelayNext]_relayVars => QueueOnlyWhileAway'
<1> SUFFICES ASSUME RelayTypeOK, QueueOnlyWhileAway, [RelayNext]_relayVars, messageQueue' # <<>>
             PROVE  ~Open'
    BY DEF WorkerIInv, QueueOnlyWhileAway
<1> USE DEF QueueOnlyWhileAway, Open
<1>1. CASE Final  BY <1>1 DEF Final, SendOrQueue
<1>2. CASE ReconnectTimer  BY <1>2 DEF ReconnectTimer
<1>3. CASE ReconnectFails  BY <1>3 DEF ReconnectFails
<1>4. CASE FlushFails  BY <1>4 DEF FlushFails, FlushMessageQueue
<1>5. CASE ClientCloses  BY <1>5 DEF ClientCloses, CloseDispatcher, FlushMessageQueue
<1>6. CASE ContainerCloses  BY <1>6 DEF ContainerCloses, CloseDispatcher, RelayTypeOK
<1>7. CASE PipeError  BY <1>7 DEF PipeError
<1>8. ASSUME NEW s \in Sockets, DispatcherCloses(s)  PROVE ~Open'
      BY <1>8 DEF DispatcherCloses, RelayTypeOK
<1>9. ASSUME NEW s \in Sockets, Reconnected(s) \/ FlushConnected(s)  PROVE ~Open'
      BY <1>9 DEF Reconnected, FlushConnected, FlushMessageQueue
<1>10. CASE UNCHANGED relayVars  BY <1>10 DEF relayVars
<1> QED  BY <1>1, <1>2, <1>3, <1>4, <1>5, <1>6, <1>7, <1>8, <1>9, <1>10 DEF RelayNext

LEMMA WorkerNothingLostStep == WorkerIInv /\ [RelayNext]_relayVars => NothingLost'
<1> SUFFICES ASSUME WorkerIInv, [RelayNext]_relayVars PROVE sent' \o messageQueue' = Upto(finals')
    BY DEF NothingLost, Upto
<1>1. RelayTypeOK /\ QueueOnlyWhileAway /\ sent \o messageQueue = Upto(finals)
      BY DEF WorkerIInv, NothingLost, Upto
<1>2. CASE UNCHANGED <<messageQueue, sent, finals>>  BY <1>1, <1>2
<1>3. CASE FlushMessageQueue /\ UNCHANGED finals  BY <1>1, <1>3, WorkerFlushed
<1>4. CASE Final
  <2>1. finals \in Nat /\ sent \in Seq(Nat) /\ messageQueue \in Seq(Nat)  BY <1>1 DEF RelayTypeOK
  <2>2. finals' = finals + 1 /\ SendOrQueue(finals + 1)  BY <1>4 DEF Final
  <2>3. Append(sent \o messageQueue, finals + 1) = Upto(finals')  BY <1>1, <2>1, <2>2, UptoNext
  <2>4. CASE Open
    <3>1. messageQueue = <<>>  BY <1>1, <2>4 DEF QueueOnlyWhileAway
    <3>2. sent' = Append(sent, finals + 1) /\ messageQueue' = <<>>
          BY <2>2, <2>4, <3>1 DEF SendOrQueue
    <3>3. sent \o <<>> = sent /\ sent' \o <<>> = sent'  BY <2>1, <3>2, ConcatEmptySeq
    <3> QED  BY <2>3, <3>1, <3>2, <3>3
  <2>5. CASE ~Open
    <3>1. sent' = sent /\ messageQueue' = Append(messageQueue, finals + 1)
          BY <2>2, <2>5 DEF SendOrQueue
    <3>2. sent \o Append(messageQueue, finals + 1) = Append(sent \o messageQueue, finals + 1)
          BY <2>1, ConcatAppend
    <3> QED  BY <2>3, <3>1, <3>2
  <2> QED  BY <2>4, <2>5
<1> QED  BY <1>1, <1>2, <1>3, <1>4, WorkerHanding

LEMMA WorkerInvariance == RelaySpec => []WorkerIInv
<1>1. WorkerIInv /\ [RelayNext]_relayVars => WorkerIInv'
      BY WorkerTypeStep, WorkerQueueStep, WorkerNothingLostStep DEF WorkerIInv
<1> QED  BY WorkerInitIInv, <1>1, PTL DEF RelaySpec
-----------------------------------------------------------------------------
\* The client's close event comes once, and is what closes the session.
LEMMA WorkerClosedOnceHolds == RelaySpec => []WorkerClosedOnce
<1>1. RelayInit => WorkerClosedOnce  BY DEF RelayInit, WorkerClosedOnce
<1>2. WorkerClosedOnce /\ [RelayNext]_relayVars => WorkerClosedOnce'
  <2> SUFFICES ASSUME WorkerClosedOnce, [RelayNext]_relayVars PROVE WorkerClosedOnce'  OBVIOUS
  <2> USE DEF WorkerClosedOnce, ReadyState, pipe
  <2>1. CASE ClientCloses  BY <2>1 DEF ClientCloses
  <2>2. CASE ContainerCloses  BY <2>2 DEF ContainerCloses
  <2>3. CASE PipeError  BY <2>3 DEF PipeError
  <2>4. CASE UNCHANGED <<serverWs, sessionClosed>>  BY <2>4
  <2> QED  BY <2>1, <2>2, <2>3, <2>4
           DEF RelayNext, relayVars, Final, ReconnectTimer, ReconnectFails, FlushFails,
               DispatcherCloses,
               Reconnected, FlushConnected
<1> QED  BY <1>1, <1>2, PTL DEF RelaySpec

\* After the close event no step starts a new round of reconnects (scheduleReconnect,
\* and the reconnect timer's own look at sessionClosed).
THEOREM WorkerSettlesHolds == RelaySpec => ClosedSettles
<1>1. RelayTypeOK /\ WorkerClosedOnce /\ [RelayNext]_relayVars =>
        [sessionClosed => /\ isReconnecting' => isReconnecting
                          /\ connecting' <= connecting
                          /\ flushing' => flushing]_relayVars
  <2> SUFFICES ASSUME RelayTypeOK, WorkerClosedOnce, RelayNext, sessionClosed
               PROVE  /\ isReconnecting' => isReconnecting
                      /\ connecting' <= connecting
                      /\ flushing' => flushing
      OBVIOUS
  <2>1. connecting' <= connecting
    <3>1. connecting \in Nat  BY DEF RelayTypeOK
    <3>2. CASE connecting' = connecting  BY <3>1, <3>2
    <3>3. CASE connecting' = connecting - 1  BY <3>1, <3>3
    <3> QED  BY <3>2, <3>3
             DEF RelayNext, Final, DispatcherCloses, ReconnectTimer, Reconnected,
                 ReconnectFails, ClientCloses,
                 FlushConnected, FlushFails, ContainerCloses, PipeError
  <2>2. ~ClientCloses  BY DEF ClientCloses, WorkerClosedOnce
  <2>3. flushing' => flushing
        BY <2>2
        DEF RelayNext, Final, DispatcherCloses, ReconnectTimer, Reconnected, ReconnectFails,
            FlushConnected, FlushFails, ContainerCloses, PipeError
  <2>4. isReconnecting' => isReconnecting
        BY ZenonT(60)
        DEF RelayNext, Final, DispatcherCloses, ReconnectTimer, Reconnected,
            ReconnectFails, ClientCloses,
            FlushConnected, FlushFails, ContainerCloses, PipeError, ScheduleReconnect
  <2> QED  BY <2>1, <2>3, <2>4
<1>2. WorkerIInv => RelayTypeOK  BY DEF WorkerIInv
<1> QED  BY <1>1, <1>2, WorkerInvariance, WorkerClosedOnceHolds, PTL DEF RelaySpec, ClosedSettles

\* However reconnects, flushes and closes interleave, every final of the container is relayed
\* once and in order, or queued while no socket is open to take it (the message handler,
\* flushMessageQueue, flushBeforeClose).
THEOREM WorkerFinalsSafeHolds == RelaySpec => []FinalsSafe
<1>1. WorkerIInv => FinalsSafe  BY DEF WorkerIInv, FinalsSafe
<1> QED  BY <1>1, WorkerInvariance, PTL
=============================================================================
