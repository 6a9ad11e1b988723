------------------------ MODULE SessionManager_proofs ------------------------
(***************************************************************************)
(* Proofs about SessionManager, for any number of session ids and client    *)
(* connections.  The maps, timers and gauges come first: whatever clients   *)
(* do (Overlap, LateMedia, Sigterm and ResumeEnabled are arbitrary).  Then  *)
(* what holds for clients that do not overlap their own connections: that   *)
(* sessions are found again, and that they live as SessionLifecycle says.   *)
(***************************************************************************)
EXTENDS SessionManager, FiniteSetTheorems, TLAPS

USE SessionAssumption DEF Conns, Nobody

Map == [SessionIds -> Conns \cup {Nobody}]

\* The entries of a map, as registration, detachment and removal change them.
LEMMA EntriesFinite ==
    ASSUME NEW m
    PROVE  IsFiniteSet(Entries(m)) /\ Cardinality(Entries(m)) \in Nat
<1>1. Entries(m) \subseteq SessionIds  BY DEF Entries
<1> QED  BY <1>1, FS_Subset, FS_CardinalityType

LEMMA AddEntry ==
    ASSUME NEW m \in Map, NEW id \in SessionIds, NEW p \in Conns, m[id] = Nobody
    PROVE  Cardinality(Entries([m EXCEPT ![id] = p])) = Cardinality(Entries(m)) + 1
<1>1. p # Nobody  OBVIOUS
<1>2. Entries([m EXCEPT ![id] = p]) = Entries(m) \cup {id}  BY <1>1 DEF Entries, Map
<1>3. id \notin Entries(m)  BY DEF Entries
<1> QED  BY <1>2, <1>3, EntriesFinite, FS_AddElement

LEMMA RemoveEntry ==
    ASSUME NEW m \in Map, NEW id \in SessionIds, m[id] # Nobody
    PROVE  Cardinality(Entries([m EXCEPT ![id] = Nobody])) = Cardinality(Entries(m)) - 1
<1>1. Entries([m EXCEPT ![id] = Nobody]) = Entries(m) \ {id}  BY DEF Entries, Map
<1>2. id \in Entries(m)  BY DEF Entries
<1> QED  BY <1>1, <1>2, EntriesFinite, FS_RemoveElement

LEMMA NoEntries == Cardinality(Entries([id \in SessionIds |-> Nobody])) = 0
<1>1. Entries([id \in SessionIds |-> Nobody]) = {}  BY DEF Entries
<1> QED  BY <1>1, FS_EmptySet

LEMMA RemoveNothing ==
    ASSUME NEW m \in Map, NEW id \in SessionIds, m[id] = Nobody
    PROVE  [m EXCEPT ![id] = Nobody] = m
BY DEF Map
-----------------------------------------------------------------------------
(* The inductive invariant.  GaugesExact alone is not inductive: a detach     *)
(* must find no other entry in the map it adds to (NeverBoth), and must have  *)
(* a session to add (every socket in use was given one).                      *)

States == {"none", "open", "closing", "closed"}

Types ==
    /\ n \in 0..MaxConns
    /\ ws \in [Conns -> States]
    /\ sid \in [Conns -> SessionIds \cup {NoId}]
    /\ of \in [Conns -> Conns \cup {Nobody}]
    /\ cur \in [Conns -> Conns \cup {Nobody}]
    /\ closed \in [Conns -> BOOLEAN]
    /\ conns \in [Conns -> BOOLEAN]
    /\ down \in BOOLEAN

SocketsUsed == \A w \in Conns : ws[w] # "none" => of[w] # Nobody

Registry ==
    /\ active \in Map /\ detached \in Map /\ timers \in [SessionIds -> Int]
    /\ sessionsActive \in Int /\ sessionsDetached \in Int
    /\ NeverBoth /\ OneTimer /\ GaugesExact

\* participantsActive may drift upwards, never below what it counts.
Connected == {p \in Conns : conns[p]}
Covered == participantsActive \in Int /\ participantsActive >= Cardinality(Connected)

IInv == Types /\ SocketsUsed /\ Registry /\ Covered

LEMMA ConnectedFinite ==
    IsFiniteSet(Connected) /\ Cardinality(Connected) \in Nat
<1>1. IsFiniteSet(Conns)  BY FS_Interval
<1>2. Connected \subseteq Conns  BY DEF Connected
<1> QED  BY <1>1, <1>2, FS_Subset, FS_CardinalityType

LEMMA InitIInv == Init => IInv
<1> SUFFICES ASSUME Init PROVE IInv  OBVIOUS
<1>1. Types /\ SocketsUsed
  <2>1. n \in 0..MaxConns  BY DEF Init
  <2>2. down \in BOOLEAN  BY DEF Init
  <2>3. ws \in [Conns -> States] /\ sid \in [Conns -> SessionIds \cup {NoId}]
    BY DEF Init, States
  <2>4. of \in [Conns -> Conns \cup {Nobody}] /\ cur \in [Conns -> Conns \cup {Nobody}]
    BY DEF Init
  <2>5. closed \in [Conns -> BOOLEAN] /\ conns \in [Conns -> BOOLEAN]  BY DEF Init
  <2>6. SocketsUsed  BY DEF Init, SocketsUsed
  <2> QED  BY <2>1, <2>2, <2>3, <2>4, <2>5, <2>6 DEF Types
<1>2. Registry
  <2>1. active \in Map /\ detached \in Map /\ timers \in [SessionIds -> Int]  BY DEF Init, Map
  <2>2. sessionsActive \in Int /\ sessionsDetached \in Int  BY DEF Init
  <2>3. NeverBoth /\ OneTimer  BY DEF Init, NeverBoth, OneTimer
  <2>4. GaugesExact  BY NoEntries DEF Init, GaugesExact
  <2> QED  BY <2>1, <2>2, <2>3, <2>4 DEF Registry
<1>3. Covered
  <2>1. Connected = {}  BY DEF Init, Connected
  <2> QED  BY <2>1, FS_EmptySet DEF Init, Covered
<1> QED  BY <1>1, <1>2, <1>3 DEF IInv
-----------------------------------------------------------------------------
(* What the operations of SessionManager do to the maps, timers and gauges. *)

LEMMA RegisterPreserves ==
    ASSUME Registry, NEW id \in SessionIds \cup {NoId}, NEW p \in Conns,
           id # NoId => detached[id] = Nobody /\ active[id] = Nobody,
           RegisterSession(id, p)
    PROVE  Registry'
<1>1. CASE id = NoId
  BY <1>1 DEF RegisterSession, Registry, registry, NeverBoth, OneTimer, GaugesExact
<1>2. CASE id # NoId
  <2>1. id \in SessionIds  BY <1>2
  <2>2. active' = [active EXCEPT ![id] = p] /\ UNCHANGED <<detached, timers, sessionsDetached>>
    BY <1>2 DEF RegisterSession
  <2>3. active' \in Map /\ sessionsActive' \in Int  BY <1>2, <2>2 DEF Registry, Map, RegisterSession
  <2>4. NeverBoth' /\ OneTimer'
    BY <1>2, <2>1, <2>2 DEF Registry, Map, NeverBoth, OneTimer
  <2>5. sessionsActive' = Cardinality(Entries(active'))
    BY <1>2, <2>1, <2>2, AddEntry DEF Registry, RegisterSession, GaugesExact
  <2>6. GaugesExact'  BY <2>2, <2>5 DEF Registry, GaugesExact, Entries
  <2> QED  BY <2>2, <2>3, <2>4, <2>6 DEF Registry
<1> QED  BY <1>1, <1>2

LEMMA UnregisterPreserves ==
    ASSUME Registry, NEW id \in SessionIds \cup {NoId}, UnregisterSession(id)
    PROVE  Registry'
<1>1. CASE id = NoId
  BY <1>1 DEF UnregisterSession, Registry, registry, NeverBoth, OneTimer, GaugesExact
<1>2. CASE id # NoId
  <2>1. id \in SessionIds  BY <1>2
  <2>2. active' = [active EXCEPT ![id] = Nobody] /\ UNCHANGED <<detached, timers, sessionsDetached>>
    BY <1>2 DEF UnregisterSession
  <2>3. active' \in Map /\ sessionsActive' \in Int  BY <1>2, <2>2 DEF Registry, Map, UnregisterSession
  <2>4. NeverBoth' /\ OneTimer'  BY <2>1, <2>2 DEF Registry, Map, NeverBoth, OneTimer
  <2>5. sessionsActive' = Cardinality(Entries(active'))
    BY <1>2, <2>1, <2>2, RemoveEntry, RemoveNothing DEF Registry, UnregisterSession, GaugesExact
  <2>6. GaugesExact'  BY <2>2, <2>5 DEF Registry, GaugesExact, Entries
  <2> QED  BY <2>2, <2>3, <2>4, <2>6 DEF Registry
<1> QED  BY <1>1, <1>2

LEMMA DetachPreserves ==
    ASSUME Registry, NEW id \in SessionIds, NEW p \in Conns, DetachSession(id, p)
    PROVE  Registry'
<1>1. CASE active[id] = Nobody
  BY <1>1 DEF DetachSession, Registry, registry, NeverBoth, OneTimer, GaugesExact
<1>2. CASE active[id] # Nobody
  <2>1. detached[id] = Nobody  BY <1>2 DEF Registry, NeverBoth
  <2>2. /\ active' = [active EXCEPT ![id] = Nobody]
        /\ detached' = [detached EXCEPT ![id] = p]
        /\ timers' = [timers EXCEPT ![id] = @ + 1]
        /\ sessionsActive' = sessionsActive - 1
        /\ sessionsDetached' = sessionsDetached + 1
    BY <1>2 DEF DetachSession, MoveToDetached
  <2>3. /\ active' \in Map /\ detached' \in Map /\ timers' \in [SessionIds -> Int]
        /\ sessionsActive' \in Int /\ sessionsDetached' \in Int
    BY <2>2 DEF Registry, Map
  <2>4. NeverBoth' /\ OneTimer'
    BY <1>2, <2>1, <2>2 DEF Registry, Map, NeverBoth, OneTimer
  <2>5. sessionsActive' = Cardinality(Entries(active'))
    BY <1>2, <2>2, RemoveEntry DEF Registry, GaugesExact
  <2>6. sessionsDetached' = Cardinality(Entries(detached'))
    BY <2>1, <2>2, AddEntry DEF Registry, GaugesExact
  <2>7. GaugesExact'  BY <2>5, <2>6 DEF GaugesExact, Entries
  <2> QED  BY <2>3, <2>4, <2>7 DEF Registry
<1> QED  BY <1>1, <1>2

LEMMA ReattachPreserves ==
    ASSUME Registry, NEW id \in SessionIds, detached[id] # Nobody, ReattachSession(id)
    PROVE  Registry'
<1>1. active[id] = Nobody /\ detached[id] \in Conns  BY DEF Registry, NeverBoth, Map
<1>2. /\ active' = [active EXCEPT ![id] = detached[id]]
      /\ detached' = [detached EXCEPT ![id] = Nobody]
      /\ timers' = [timers EXCEPT ![id] = @ - 1]
      /\ sessionsActive' = sessionsActive + 1
      /\ sessionsDetached' = sessionsDetached - 1
  BY DEF ReattachSession
<1>3. /\ active' \in Map /\ detached' \in Map /\ timers' \in [SessionIds -> Int]
      /\ sessionsActive' \in Int /\ sessionsDetached' \in Int
  BY <1>2 DEF Registry, Map
<1>4. NeverBoth' /\ OneTimer'  BY <1>1, <1>2 DEF Registry, Map, NeverBoth, OneTimer
<1>5. sessionsActive' = Cardinality(Entries(active'))
  BY <1>1, <1>2, AddEntry DEF Registry, GaugesExact
<1>6. sessionsDetached' = Cardinality(Entries(detached'))
  BY <1>2, RemoveEntry DEF Registry, GaugesExact
<1>7. GaugesExact'  BY <1>5, <1>6 DEF GaugesExact, Entries
<1> QED  BY <1>3, <1>4, <1>7 DEF Registry

LEMMA ExpirePreserves ==
    ASSUME Registry, NEW id \in SessionIds, CleanupSession(id)
    PROVE  Registry'
<1>1. /\ detached[id] # Nobody
      /\ detached' = [detached EXCEPT ![id] = Nobody]
      /\ timers' = [timers EXCEPT ![id] = @ - 1]
      /\ sessionsDetached' = sessionsDetached - 1
      /\ UNCHANGED <<active, sessionsActive>>
  BY DEF CleanupSession
<1>2. detached' \in Map /\ timers' \in [SessionIds -> Int] /\ sessionsDetached' \in Int
  BY <1>1 DEF Registry, Map
<1>3. NeverBoth' /\ OneTimer'  BY <1>1 DEF Registry, Map, NeverBoth, OneTimer
<1>4. sessionsDetached' = Cardinality(Entries(detached'))
  BY <1>1, RemoveEntry DEF Registry, GaugesExact
<1>5. GaugesExact'  BY <1>1, <1>4 DEF Registry, GaugesExact, Entries
<1> QED  BY <1>1, <1>2, <1>3, <1>5 DEF Registry

LEMMA ShutdownPreserves ==
    ASSUME Registry, Shutdown
    PROVE  Registry'
<1>1. /\ active' = [id \in SessionIds |-> Nobody]
      /\ detached' = [id \in SessionIds |-> Nobody]
      /\ timers' = [id \in SessionIds |-> IF detached[id] = Nobody THEN timers[id]
                                                               ELSE timers[id] - 1]
      /\ sessionsActive' = sessionsActive - Cardinality(Entries(active))
      /\ sessionsDetached' = sessionsDetached - Cardinality(Entries(detached))
  BY DEF Shutdown
<1>2. sessionsActive' = 0 /\ sessionsDetached' = 0
  BY <1>1, EntriesFinite DEF Registry, GaugesExact
<1>3. active' \in Map /\ detached' \in Map /\ timers' \in [SessionIds -> Int]
  BY <1>1 DEF Registry, Map
<1>4. NeverBoth' /\ OneTimer'  BY <1>1 DEF Registry, NeverBoth, OneTimer
<1>5. Cardinality(Entries(active')) = 0 /\ Cardinality(Entries(detached')) = 0
  BY <1>1, NoEntries
<1>6. GaugesExact'  BY <1>2, <1>5 DEF GaugesExact, Entries
<1> QED  BY <1>2, <1>3, <1>4, <1>6 DEF Registry

LEMMA RegistryUnchanged ==
    ASSUME Registry, UNCHANGED registry
    PROVE  Registry'
BY DEF Registry, registry, NeverBoth, OneTimer, GaugesExact, Entries
-----------------------------------------------------------------------------
(* What closing sockets and connections does to the rest. *)

\* close() invents no socket.
LEMMA ClosingStates ==
    ASSUME NEW st \in [Conns -> States], NEW W
    PROVE  /\ Closing(st, W) \in [Conns -> States]
           /\ \A w \in Conns : Closing(st, W)[w] # "none" => st[w] # "none"
BY DEF Closing, States

\* Dropping connections without counting them leaves the gauge high enough.
LEMMA FewerConnected ==
    ASSUME Covered, Connected' \subseteq Connected, UNCHANGED participantsActive
    PROVE  Covered'
<1>1. Cardinality(Connected') <= Cardinality(Connected)  BY ConnectedFinite, FS_Subset
<1>2. Cardinality(Connected') \in Nat  BY ConnectedFinite, FS_Subset, FS_CardinalityType
<1> QED  BY <1>1, <1>2, ConnectedFinite DEF Covered

LEMMA OneFewerConnected ==
    ASSUME Types, Covered, NEW p \in Conns, conns[p],
           conns' = [conns EXCEPT ![p] = FALSE],
           participantsActive' = participantsActive - 1
    PROVE  Covered'
<1>1. Connected' = Connected \ {p} /\ p \in Connected  BY DEF Connected, Types
<1>2. Cardinality(Connected') = Cardinality(Connected) - 1
  BY <1>1, ConnectedFinite, FS_RemoveElement
<1> QED  BY <1>2, ConnectedFinite DEF Covered

LEMMA ProxyClosePreserves ==
    ASSUME Types, SocketsUsed, Covered, NEW P, NEW st \in [Conns -> States],
           \A w \in Conns : st[w] # "none" => ws[w] # "none",
           ProxyClose(P, st), UNCHANGED <<n, sid, of, cur>>, down' \in BOOLEAN
    PROVE  Types' /\ SocketsUsed' /\ Covered'
<1>1. /\ ws' \in [Conns -> States]
      /\ \A w \in Conns : ws'[w] # "none" => ws[w] # "none"
  BY ClosingStates DEF ProxyClose
<1>2. closed' \in [Conns -> BOOLEAN] /\ conns' \in [Conns -> BOOLEAN]
  BY DEF ProxyClose, Types
<1>3. Connected' \subseteq Connected  BY DEF ProxyClose, Connected
<1>4. Covered'  BY <1>3, FewerConnected DEF ProxyClose
<1> QED  BY <1>1, <1>2, <1>4 DEF Types, SocketsUsed

LEMMA AttachPreserves ==
    ASSUME Types, SocketsUsed, NEW id \in SessionIds, NEW p \in Conns,
           Accept(id), ReattachWebSocket(p, n + 1), UNCHANGED <<proxies, down>>
    PROVE  Types' /\ SocketsUsed'
<1>1. n + 1 \in Conns /\ n' \in 0..MaxConns /\ sid' \in [Conns -> SessionIds \cup {NoId}]
  BY DEF Accept, Types
<1>2. /\ ws' \in [Conns -> States]
      /\ \A w \in Conns : w # n + 1 /\ ws'[w] # "none" => ws[w] # "none"
  BY <1>1, ClosingStates DEF ReattachWebSocket, Types, States
<1>3. /\ of' = [of EXCEPT ![n + 1] = p] /\ cur' = [cur EXCEPT ![p] = n + 1]
  BY DEF ReattachWebSocket
<1>4. of' \in [Conns -> Conns \cup {Nobody}] /\ cur' \in [Conns -> Conns \cup {Nobody}]
  BY <1>1, <1>3 DEF Types
<1>5. SocketsUsed'  BY <1>1, <1>2, <1>3 DEF SocketsUsed, Types
<1> QED  BY <1>1, <1>2, <1>4, <1>5 DEF Types, proxies
-----------------------------------------------------------------------------
LEMMA NextPreserves == IInv /\ [Next]_vars => IInv'
<1> SUFFICES ASSUME IInv, [Next]_vars PROVE IInv'  OBVIOUS
<1> USE DEF IInv
<1>1. ASSUME NEW id \in SessionIds, Resume(id) PROVE IInv'
  <2>1. detached[id] \in Conns  BY <1>1 DEF Resume, Registry, Map
  <2>2. Types' /\ SocketsUsed'  BY <1>1, <2>1, AttachPreserves DEF Resume
  <2>3. Registry'  BY <1>1, ReattachPreserves DEF Resume
  <2>4. Covered'  BY <1>1, FewerConnected DEF Resume, proxies, Connected
  <2> QED  BY <2>2, <2>3, <2>4
<1>2. ASSUME NEW id \in SessionIds, TakeOver(id) PROVE IInv'
  <2>1. active[id] \in Conns  BY <1>2 DEF TakeOver, Registry, Map
  <2>2. Types' /\ SocketsUsed'  BY <1>2, <2>1, AttachPreserves DEF TakeOver
  <2>3. Registry'  BY <1>2, RegistryUnchanged DEF TakeOver
  <2>4. Covered'  BY <1>2, FewerConnected DEF TakeOver, proxies, Connected
  <2> QED  BY <2>2, <2>3, <2>4
<1>3. ASSUME NEW id \in SessionIds \cup {NoId}, Create(id) PROVE IInv'
  <2>1. n + 1 \in Conns /\ n' \in 0..MaxConns /\ sid' \in [Conns -> SessionIds \cup {NoId}]
    BY <1>3 DEF Create, Accept, Types
  <2>2. /\ ws' = [ws EXCEPT ![n + 1] = "open"]
        /\ of' = [of EXCEPT ![n + 1] = n + 1]
        /\ cur' = [cur EXCEPT ![n + 1] = n + 1]
        /\ UNCHANGED <<closed, conns, participantsActive, down>>
    BY <1>3 DEF Create, proxies
  <2>3. Types' /\ SocketsUsed'  BY <2>1, <2>2 DEF Types, States, SocketsUsed
  <2>4. Registry'  BY <1>3, <2>1, RegisterPreserves DEF Create
  <2>5. Covered'  BY <2>2, FewerConnected DEF Connected
  <2> QED  BY <2>3, <2>4, <2>5
<1>4. ASSUME NEW w \in Conns, WsClose(w) PROVE IInv'
  <2> DEFINE p == of[w]
             gone == [ws EXCEPT ![w] = "closed"]
             st == Closing(gone, {cur[p], p})
  <2>1. ws[w] # "none" /\ UNCHANGED <<n, sid, of, cur, down>>  BY <1>4 DEF WsClose
  <2>2. p \in Conns /\ sid[w] \in SessionIds \cup {NoId}  BY <2>1 DEF SocketsUsed, Types
  <2>3. gone \in [Conns -> States]  BY DEF Types, States
  <2>4. st \in [Conns -> States] /\ \A c \in Conns : st[c] # "none" => ws[c] # "none"
    <3>1. \A c \in Conns : gone[c] # "none" => ws[c] # "none"  BY <2>1 DEF Types
    <3> HIDE DEF gone
    <3> QED  BY <2>3, <3>1, ClosingStates
  <2>5. CASE sid[w] # NoId /\ ResumeEnabled
    <3>1. ws' = st /\ DetachSession(sid[w], p) /\ UNCHANGED proxies  BY <1>4, <2>5 DEF WsClose
    <3> HIDE DEF st, p
    <3>2. Types' /\ SocketsUsed'  BY <2>1, <2>4, <3>1 DEF Types, SocketsUsed, proxies
    <3>3. Registry'  BY <2>2, <2>5, <3>1, DetachPreserves
    <3>4. Covered'  BY <3>1, FewerConnected DEF proxies, Connected
    <3> QED  BY <3>2, <3>3, <3>4
  <2>6. CASE ~(sid[w] # NoId /\ ResumeEnabled)
    <3>1. UnregisterSession(sid[w]) /\ ProxyClose({p}, st)  BY <1>4, <2>6 DEF WsClose
    <3> HIDE DEF st, p
    <3>2. Types' /\ SocketsUsed' /\ Covered'
      BY <2>1, <2>4, <3>1, ProxyClosePreserves DEF Types
    <3>3. Registry'  BY <2>2, <3>1, UnregisterPreserves
    <3> QED  BY <3>2, <3>3
  <2> QED  BY <2>5, <2>6
<1>5. ASSUME NEW w \in Conns, WsError(w) PROVE IInv'
  <2> DEFINE st == Closing(ws, {w})
  <2>1. UnregisterSession(sid[w]) /\ ProxyClose({of[w]}, st) /\ UNCHANGED <<n, sid, of, cur, down>>
    BY <1>5 DEF WsError
  <2>2. st \in [Conns -> States] /\ \A c \in Conns : st[c] # "none" => ws[c] # "none"
    BY ClosingStates DEF Types
  <2> HIDE DEF st
  <2>3. Types' /\ SocketsUsed' /\ Covered'  BY <2>1, <2>2, ProxyClosePreserves DEF Types
  <2>4. sid[w] \in SessionIds \cup {NoId}  BY DEF Types
  <2>5. Registry'  BY <2>1, <2>4, UnregisterPreserves
  <2> QED  BY <2>3, <2>5
<1>6. ASSUME NEW w \in Conns, Media(w) PROVE IInv'
  <2>1. /\ ws[w] # "none" /\ ~conns[of[w]]
        /\ conns' = [conns EXCEPT ![of[w]] = TRUE]
        /\ participantsActive' = participantsActive + 1
        /\ UNCHANGED <<sockets, closed, registry, down>>
    BY <1>6 DEF Media
  <2>2. of[w] \in Conns  BY <2>1 DEF SocketsUsed, Types
  <2>3. Types' /\ SocketsUsed'  BY <2>1 DEF Types, SocketsUsed, sockets
  <2>4. Registry'  BY <2>1, RegistryUnchanged
  <2>5. Connected' = Connected \cup {of[w]} /\ of[w] \notin Connected
    BY <2>1, <2>2 DEF Connected, Types
  <2>6. Cardinality(Connected') = Cardinality(Connected) + 1
    BY <2>5, ConnectedFinite, FS_AddElement
  <2>7. Covered'  BY <2>1, <2>6, ConnectedFinite DEF Covered
  <2> QED  BY <2>3, <2>4, <2>7
<1>7. ASSUME NEW p \in Conns, ConnectionClosed(p) PROVE IInv'
  <2>1. /\ conns[p] /\ conns' = [conns EXCEPT ![p] = FALSE]
        /\ participantsActive' = participantsActive - 1
        /\ UNCHANGED <<sockets, closed, registry, down>>
    BY <1>7 DEF ConnectionClosed
  <2>2. Types' /\ SocketsUsed'  BY <2>1 DEF Types, SocketsUsed, sockets
  <2>3. Registry'  BY <2>1, RegistryUnchanged
  <2>4. Covered'  BY <2>1, OneFewerConnected
  <2> QED  BY <2>2, <2>3, <2>4
<1>8. ASSUME NEW p \in Conns, SessionError(p) PROVE IInv'
  <2>1. /\ conns[p] /\ conns' = [conns EXCEPT ![p] = FALSE]
        /\ participantsActive' = participantsActive - 1
        /\ UnregisterSession(sid[p])
        /\ closed' = [closed EXCEPT ![p] = TRUE]
        /\ ws' = Closing(ws, {cur[p], p})
        /\ UNCHANGED <<n, sid, of, cur, down>>
    BY <1>8 DEF SessionError
  <2>2. ws' \in [Conns -> States] /\ \A c \in Conns : ws'[c] # "none" => ws[c] # "none"
    BY <2>1, ClosingStates DEF Types
  <2>3. Types' /\ SocketsUsed'  BY <2>1, <2>2 DEF Types, SocketsUsed
  <2>4. sid[p] \in SessionIds \cup {NoId}  BY DEF Types
  <2>5. Registry'  BY <2>1, <2>4, UnregisterPreserves
  <2>6. Covered'  BY <2>1, OneFewerConnected
  <2> QED  BY <2>3, <2>5, <2>6
<1>9. ASSUME NEW id \in SessionIds, CleanupSession(id) PROVE IInv'
  <2>1. ProxyClose({detached[id]}, ws) /\ UNCHANGED <<n, sid, of, cur, down>>
    BY <1>9 DEF CleanupSession
  <2>2. Types' /\ SocketsUsed' /\ Covered'  BY <2>1, ProxyClosePreserves DEF Types
  <2>3. Registry'  BY <1>9, ExpirePreserves
  <2> QED  BY <2>2, <2>3
<1>10. CASE Shutdown
  <2>1. /\ ProxyClose({detached[id] : id \in Entries(detached)}, ws)
        /\ UNCHANGED <<n, sid, of, cur>> /\ down' = TRUE
    BY <1>10 DEF Shutdown
  <2>2. Types' /\ SocketsUsed' /\ Covered'  BY <2>1, ProxyClosePreserves DEF Types
  <2>3. Registry'  BY <1>10, ShutdownPreserves
  <2> QED  BY <2>2, <2>3
<1>11. CASE UNCHANGED vars
  <2>1. Types' /\ SocketsUsed'  BY <1>11 DEF vars, sockets, proxies, Types, SocketsUsed
  <2>2. Registry'  BY <1>11, RegistryUnchanged DEF vars
  <2>3. Covered'  BY <1>11, FewerConnected DEF vars, proxies, Connected
  <2> QED  BY <2>1, <2>2, <2>3
<1> QED  BY <1>1, <1>2, <1>3, <1>4, <1>5, <1>6, <1>7, <1>8, <1>9, <1>10, <1>11 DEF Next
-----------------------------------------------------------------------------
LEMMA Invariance == Spec => []IInv
BY InitIInv, NextPreserves, PTL DEF Spec

\* No gauge ever goes negative and every variable keeps its kind: the gauges of
\* SessionManager because they are sizes, participantsActive because it covers
\* the connections it was raised for.
THEOREM TypesHold == Spec => []TypeOK
<1>1. IInv => TypeOK
  <2> SUFFICES ASSUME IInv PROVE TypeOK  OBVIOUS
  <2>1. sessionsActive \in Nat /\ sessionsDetached \in Nat
    BY EntriesFinite DEF IInv, Registry, GaugesExact
  <2>2. participantsActive \in Nat  BY ConnectedFinite DEF IInv, Covered
  <2>3. timers \in [SessionIds -> Nat]  BY DEF IInv, Registry, OneTimer
  <2> QED  BY <2>1, <2>2, <2>3 DEF IInv, Types, States, Registry, Map, TypeOK
<1> QED  BY <1>1, Invariance, PTL

\* The gauges otp_sessions_active and otp_sessions_detached are the sizes of
\* SessionManager's two maps, whatever order close, error, timer and upgrade
\* events come in.
THEOREM GaugesHold == Spec => []GaugesExact
<1>1. IInv => GaugesExact  BY DEF IInv, Registry
<1> QED  BY <1>1, Invariance, PTL

\* No session id is tracked as active and detached at once.
THEOREM NeverBothHolds == Spec => []NeverBoth
<1>1. IInv => NeverBoth  BY DEF IInv, Registry
<1> QED  BY <1>1, Invariance, PTL

\* One grace period timer runs for each detached session, none for any other id.
THEOREM OneTimerHolds == Spec => []OneTimer
<1>1. IInv => OneTimer  BY DEF IInv, Registry
<1> QED  BY <1>1, Invariance, PTL

\* The two together: an id is tracked in one map, with that map's timer.
THEOREM TrackedOnceHolds == Spec => []TrackedOnce
<1>1. IInv => TrackedOnce  BY DEF IInv, Registry, TrackedOnce
<1> QED  BY <1>1, Invariance, PTL
-----------------------------------------------------------------------------
(* When clients do not overlap their own connections, and no audio comes      *)
(* after close() was called on its socket.  A session is then found by its id *)
(* because at most one socket of an id is not closed (Alone), because that    *)
(* socket feeds the session registered for the id, if one is (Attached), and  *)
(* because whatever is not closed, or still has a participant's connection    *)
(* that could fail and have the id unregistered, is registered (Found).       *)

Live(w) == ws[w] \in {"open", "closing"}
Tracked(p) == p \in {active[sid[p]], detached[sid[p]]}

\* Connections up to n were accepted, each for a session of its own id.
Family ==
    /\ \A w \in Conns : w <= n \/ (ws[w] = "none" /\ of[w] = Nobody /\ ~closed[w] /\ ~conns[w])
    /\ \A w \in Conns : w <= n => /\ ws[w] # "none" /\ of[w] \in Sessions
                                  /\ sid[of[w]] = sid[w] /\ (sid[w] = NoId => of[w] = w)
    /\ \A p \in Conns : conns[p] => p \in Sessions
    /\ \A p \in Sessions : cur[p] \in Conns /\ of[cur[p]] = p

Alone ==
    /\ \A v, w \in Conns : Live(v) /\ Live(w) /\ sid[v] = sid[w] /\ sid[v] # NoId => v = w
    /\ \A w \in Conns : Live(w) => w = cur[of[w]]

Named == \A id \in SessionIds : \A p \in {active[id], detached[id]} \ {Nobody} :
    p \in Sessions /\ sid[p] = id

Attached == \A w \in Conns : Live(w) /\ sid[w] # NoId => active[sid[w]] \in {Nobody, of[w]}

Found == ~down =>
    /\ \A p \in Sessions : sid[p] # NoId /\ (~closed[p] \/ conns[p]) => Tracked(p)
    /\ \A w \in Conns : ws[w] = "open" /\ sid[w] # NoId => Tracked(of[w])

Orderly == Family /\ Alone /\ Named /\ Attached /\ Found /\ NewestServed

\* Every step but an accepted connection only ends sockets and map entries.
Winding ==
    /\ UNCHANGED <<n, sid, of, cur>>
    /\ \A w \in Conns : (ws'[w] = "none" <=> ws[w] = "none") /\ (Live(w)' => Live(w))
    /\ \A id \in SessionIds : /\ active'[id] \in {active[id], Nobody}
                              /\ detached'[id] \in {active[id], detached[id], Nobody}
    /\ \A p \in Conns : (closed'[p] /\ ~closed[p]) \/ (conns'[p] /\ ~conns[p]) => p \in Sessions

LEMMA WindingPreserves ==
    ASSUME Types, Family, Alone, Named, Attached, Winding
    PROVE  Family' /\ Alone' /\ Named' /\ Attached'
<1>1. Sessions' = Sessions  BY DEF Winding, Sessions
<1>2. Family'
  <2>1. ASSUME NEW w \in Conns
        PROVE  w <= n \/ (ws'[w] = "none" /\ of[w] = Nobody /\ ~closed'[w] /\ ~conns'[w])
    BY <2>1 DEF Family, Winding, Sessions
  <2>2. ASSUME NEW w \in Conns, w <= n PROVE ws'[w] # "none"
    BY <2>2 DEF Family, Winding
  <2>3. \A p \in Conns : conns'[p] => p \in Sessions  BY DEF Family, Winding
  <2> QED  BY <1>1, <2>1, <2>2, <2>3 DEF Family, Winding
<1>3. Alone'  BY DEF Alone, Winding, Live
<1>4. Named'  BY <1>1 DEF Named, Winding
<1>5. Attached'
  <2> SUFFICES ASSUME NEW w \in Conns, Live(w)', sid[w] # NoId
               PROVE  active'[sid[w]] \in {Nobody, of[w]}
    BY DEF Attached, Winding, Live
  <2>1. sid[w] \in SessionIds  BY DEF Types
  <2>2. Live(w)  BY DEF Winding
  <2> QED  BY <2>1, <2>2 DEF Attached, Winding
<1> QED  BY <1>2, <1>3, <1>4, <1>5

\* Who closes a session only closes its own sockets, all of them.
LEMMA OwnSockets ==
    ASSUME Types, Family, Alone, NEW p \in Sessions, NEW w \in Conns, Live(w)
    PROVE  (w = cur[p] \/ w = p) <=> of[w] = p
<1>1. w # Nobody /\ w = cur[of[w]]  BY DEF Alone
<1>2. of[cur[p]] = p /\ of[p] = p  BY DEF Family, Sessions
<1> QED  BY <1>1, <1>2

LEMMA ClosingOnly ==
    ASSUME NEW st \in [Conns -> States], NEW W, NEW w \in Conns
    PROVE  /\ (Closing(st, W)[w] = "none" <=> st[w] = "none")
           /\ (Closing(st, W)[w] = "closed" <=> st[w] = "closed")
           /\ (Closing(st, W)[w] = "open" <=> st[w] = "open" /\ w \notin W)
           /\ (Closing(st, W)[w] = "closing" => st[w] = "closing" \/ (st[w] = "open" /\ w \in W))
BY DEF Closing, States

\* The session p is ended, whether its backends were closed with it or by its
\* error: its sockets close, no other session is forgotten.
Ended(p) ==
    /\ UNCHANGED <<n, sid, of, cur, down>>
    /\ closed' = [closed EXCEPT ![p] = TRUE]
    /\ conns' = [conns EXCEPT ![p] = FALSE]
    /\ \A w \in Conns : /\ (ws'[w] = "none" <=> ws[w] = "none") /\ (Live(w)' => Live(w))
                        /\ ws'[w] = "open" => ws[w] = "open" /\ of[w] # p
                        /\ ws'[w] = "closing" => ws[w] = "closing" \/ of[w] = p
    /\ \A id \in SessionIds : /\ active'[id] \in {active[id], Nobody}
                              /\ detached'[id] \in {detached[id], Nobody}
                              /\ ~down /\ active'[id] # active[id] => active[id] = p
                              /\ ~down /\ detached'[id] # detached[id] => detached[id] = p

LEMMA EndedPreserves ==
    ASSUME Types, Orderly, NEW p \in Sessions, Ended(p)
    PROVE  Orderly'
<1>1. Sessions' = Sessions /\ p \in Conns  BY DEF Ended, Sessions
<1>2. Winding  BY <1>1 DEF Ended, Winding, Types
<1>3. Family' /\ Alone' /\ Named' /\ Attached'  BY <1>2, WindingPreserves DEF Orderly
<1>4. ASSUME NEW q \in Sessions, q # p, sid[q] # NoId, ~down, Tracked(q)
      PROVE  Tracked(q)'
  <2>1. sid[q] \in SessionIds /\ sid'[q] = sid[q] /\ q # Nobody  BY <1>4 DEF Types, Sessions, Ended
  <2> QED  BY <1>4, <2>1 DEF Ended, Tracked
<1>5. Found'
  <2> SUFFICES ASSUME ~down
               PROVE  /\ \A q \in Sessions : sid[q] # NoId /\ (~closed'[q] \/ conns'[q]) => Tracked(q)'
                      /\ \A w \in Conns : ws'[w] = "open" /\ sid[w] # NoId => Tracked(of[w])'
    BY <1>1 DEF Found, Ended
  <2>1. ASSUME NEW q \in Sessions, sid[q] # NoId, ~closed'[q] \/ conns'[q] PROVE Tracked(q)'
    <3>1. q # p /\ (~closed[q] \/ conns[q])  BY <1>1, <2>1 DEF Ended, Types, Sessions
    <3> QED  BY <1>4, <2>1, <3>1 DEF Orderly, Found
  <2>2. ASSUME NEW w \in Conns, ws'[w] = "open", sid[w] # NoId PROVE Tracked(of[w])'
    <3>1. ws[w] = "open" /\ of[w] # p  BY <2>2 DEF Ended
    <3>2. w <= n  BY <3>1 DEF Orderly, Family
    <3>3. of[w] \in Sessions /\ sid[of[w]] = sid[w]  BY <3>2 DEF Orderly, Family
    <3>4. Tracked(of[w])  BY <2>2, <3>1 DEF Orderly, Found
    <3>5. of[w] # p /\ sid[of[w]] # NoId  BY <2>2, <3>1, <3>3
    <3>6. Tracked(of[w])' <=> of[w] \in {active'[sid'[of[w]]], detached'[sid'[of[w]]]}
      BY DEF Tracked, Ended
    <3> HIDE DEF Tracked
    <3>7. of[w] \in {active'[sid'[of[w]]], detached'[sid'[of[w]]]}
      BY <1>4, <3>3, <3>4, <3>5 DEF Tracked
    <3> QED  BY <3>6, <3>7
  <2> QED  BY <2>1, <2>2
<1>6. NewestServed'
  <2> SUFFICES ASSUME NEW q \in Sessions, ~closed'[q] PROVE ws'[cur[q]] # "closing"
    BY <1>1 DEF NewestServed, Ended
  <2>1. q # p /\ ~closed[q]  BY <1>1 DEF Ended, Types, Sessions
  <2>2. cur[q] \in Conns /\ of[cur[q]] = q  BY DEF Orderly, Family
  <2> QED  BY <2>1, <2>2 DEF Orderly, NewestServed, Ended
<1> QED  BY <1>3, <1>5, <1>6 DEF Orderly

\* Unregistering what the socket or session at hand stands for takes no other
\* session's entry.
LEMMA UnregistersOwn ==
    ASSUME IInv, Orderly, NEW w \in Conns, NEW p \in Sessions, UnregisterSession(sid[w]), sid[w] = sid[p],
           sid[w] # NoId /\ ~down => active[sid[w]] \in {Nobody, p}
    PROVE  \A id \in SessionIds : /\ active'[id] \in {active[id], Nobody}
                                  /\ detached'[id] = detached[id]
                                  /\ ~down /\ active'[id] # active[id] => active[id] = p
<1>1. CASE sid[w] = NoId  BY <1>1 DEF UnregisterSession, registry
<1>2. CASE sid[w] # NoId
  <2>1. active' = [active EXCEPT ![sid[w]] = Nobody] /\ detached' = detached
    BY <1>2 DEF UnregisterSession
  <2>2. active \in Map /\ sid[w] \in SessionIds  BY <1>2 DEF IInv, Registry, Types
  <2> QED  BY <1>2, <2>1, <2>2 DEF Map
<1> QED  BY <1>1, <1>2

LEMMA LiveSocket ==
    ASSUME Types, Family, NEW w \in Conns, Live(w)
    PROVE  of[w] \in Sessions /\ of[w] \in Conns /\ sid[of[w]] = sid[w] /\ w <= n
<1>1. ws[w] # "none"  BY DEF Live
<1> QED  BY <1>1 DEF Family, Sessions
-----------------------------------------------------------------------------
(* The steps. *)

\* One step towards the end of the sockets of p, and of no others.
Letting(p, st) == \A v \in Conns :
    /\ (st[v] = "none" <=> ws[v] = "none") /\ (st[v] \in {"open", "closing"} => Live(v))
    /\ st[v] = "open" => ws[v] = "open"
    /\ st[v] = "closing" => ws[v] = "closing" \/ of[v] = p

LEMMA LettingGo ==
    ASSUME Types, Orderly, NEW p \in Sessions, NEW st \in [Conns -> States], Letting(p, st),
           NEW W \in SUBSET Conns, \A w \in W : of[w] = p \/ ~Live(w)
    PROVE  Closing(st, W) \in [Conns -> States] /\ Letting(p, Closing(st, W))
<1>1. Closing(st, W) \in [Conns -> States]  BY ClosingStates
<1> SUFFICES ASSUME NEW v \in Conns
             PROVE  LET c == Closing(st, W)[v]
                    IN  /\ (c = "none" <=> ws[v] = "none") /\ (c \in {"open", "closing"} => Live(v))
                        /\ c = "open" => ws[v] = "open"
                        /\ c = "closing" => ws[v] = "closing" \/ of[v] = p
  BY <1>1 DEF Letting
<1>2. /\ (st[v] = "none" <=> ws[v] = "none") /\ (st[v] \in {"open", "closing"} => Live(v))
      /\ st[v] = "open" => ws[v] = "open"
      /\ st[v] = "closing" => ws[v] = "closing" \/ of[v] = p
  BY DEF Letting
<1>3. /\ (Closing(st, W)[v] = "none" <=> st[v] = "none")
      /\ (Closing(st, W)[v] = "open" <=> st[v] = "open" /\ v \notin W)
      /\ (Closing(st, W)[v] = "closing" => st[v] = "closing" \/ (st[v] = "open" /\ v \in W))
  BY ClosingOnly
<1> QED  BY <1>2, <1>3

LEMMA EndsSockets ==
    ASSUME Types, Orderly, NEW p \in Sessions, NEW st \in [Conns -> States], Letting(p, st),
           NEW W, W = {cur[p], p}, ws' = Closing(st, W)
    PROVE  \A v \in Conns : /\ (ws'[v] = "none" <=> ws[v] = "none") /\ (Live(v)' => Live(v))
                            /\ ws'[v] = "open" => ws[v] = "open" /\ of[v] # p
                            /\ ws'[v] = "closing" => ws[v] = "closing" \/ of[v] = p
<1> SUFFICES ASSUME NEW v \in Conns
             PROVE  /\ (ws'[v] = "none" <=> ws[v] = "none") /\ (Live(v)' => Live(v))
                    /\ ws'[v] = "open" => ws[v] = "open" /\ of[v] # p
                    /\ ws'[v] = "closing" => ws[v] = "closing" \/ of[v] = p
  OBVIOUS
<1>1. /\ (st[v] = "none" <=> ws[v] = "none") /\ (st[v] \in {"open", "closing"} => Live(v))
      /\ st[v] = "open" => ws[v] = "open"
      /\ st[v] = "closing" => ws[v] = "closing" \/ of[v] = p
  BY DEF Letting
<1>2. /\ (ws'[v] = "none" <=> st[v] = "none")
      /\ (ws'[v] = "open" <=> st[v] = "open" /\ v # p /\ v # cur[p])
      /\ (ws'[v] = "closing" => st[v] = "closing" \/ (st[v] = "open" /\ (v = p \/ v = cur[p])))
  BY ClosingOnly
<1>3. Live(v) => ((v = cur[p] \/ v = p) <=> of[v] = p)  BY OwnSockets DEF Orderly
<1>4. Live(v)' => Live(v)  BY <1>1, <1>2 DEF Live
<1> QED  BY <1>1, <1>2, <1>3, <1>4 DEF Live

LEMMA LettingNothing ==
    ASSUME NEW p PROVE Letting(p, ws)
BY DEF Letting, Live
-----------------------------------------------------------------------------
(* The steps. *)

LEMMA WsErrorOrderly ==
    ASSUME IInv, Orderly, NEW w \in Conns, WsError(w)
    PROVE  Orderly' /\ of[w] \in Sessions /\ Ended(of[w])
<1> DEFINE p == of[w]
           st == Closing(ws, {w})
<1>1. /\ Live(w) /\ UnregisterSession(sid[w]) /\ ProxyClose({p}, st)
      /\ UNCHANGED <<n, sid, of, cur, down>>
  BY DEF WsError, Live
<1>2. p \in Sessions /\ p \in Conns /\ sid[p] = sid[w]  BY <1>1, LiveSocket DEF IInv, Orderly
<1>3. st \in [Conns -> States] /\ Letting(p, st)
  BY <1>2, LettingNothing, LettingGo DEF IInv, Types
<1> HIDE DEF st, p
<1>4. ws' = Closing(st, {cur[p], p})
  <2>1. ws' = Closing(st, {p} \cup {cur[q] : q \in {p}})  BY <1>1 DEF ProxyClose
  <2>2. {p} \cup {cur[q] : q \in {p}} = {cur[p], p}  OBVIOUS
  <2> QED  BY <2>1, <2>2
<1>5. \A v \in Conns : /\ (ws'[v] = "none" <=> ws[v] = "none") /\ (Live(v)' => Live(v))
                       /\ ws'[v] = "open" => ws[v] = "open" /\ of[v] # p
                       /\ ws'[v] = "closing" => ws[v] = "closing" \/ of[v] = p
  BY <1>2, <1>3, <1>4, EndsSockets DEF IInv
<1>6. sid[w] # NoId /\ ~down => active[sid[w]] \in {Nobody, p}
  BY <1>1 DEF Orderly, Attached, p
<1>7. closed' = [closed EXCEPT ![p] = TRUE] /\ conns' = [conns EXCEPT ![p] = FALSE]
  BY <1>1, <1>2 DEF ProxyClose, IInv, Types
<1>8. \A id \in SessionIds : /\ active'[id] \in {active[id], Nobody}
                             /\ detached'[id] = detached[id]
                             /\ ~down /\ active'[id] # active[id] => active[id] = p
  BY <1>1, <1>2, <1>6, UnregistersOwn
<1>9. Ended(p)  BY <1>1, <1>5, <1>7, <1>8 DEF Ended
<1> QED  BY <1>2, <1>9, EndedPreserves DEF IInv, p

LEMMA SessionErrorOrderly ==
    ASSUME IInv, Orderly, NEW p \in Conns, SessionError(p)
    PROVE  Orderly' /\ p \in Sessions /\ Ended(p)
<1>1. /\ conns[p] /\ UnregisterSession(sid[p])
      /\ closed' = [closed EXCEPT ![p] = TRUE] /\ conns' = [conns EXCEPT ![p] = FALSE]
      /\ ws' = Closing(ws, {cur[p], p})
      /\ UNCHANGED <<n, sid, of, cur, down>>
  BY DEF SessionError
<1>2. p \in Sessions  BY <1>1 DEF Orderly, Family
<1>3. ws \in [Conns -> States] /\ Letting(p, ws)  BY LettingNothing DEF IInv, Types
<1>5. \A v \in Conns : /\ (ws'[v] = "none" <=> ws[v] = "none") /\ (Live(v)' => Live(v))
                       /\ ws'[v] = "open" => ws[v] = "open" /\ of[v] # p
                       /\ ws'[v] = "closing" => ws[v] = "closing" \/ of[v] = p
  BY <1>1, <1>2, <1>3, EndsSockets DEF IInv
<1>6. sid[p] # NoId /\ ~down => active[sid[p]] \in {Nobody, p}
  <2> SUFFICES ASSUME sid[p] # NoId, ~down PROVE active[sid[p]] \in {Nobody, p}  OBVIOUS
  <2>1. Tracked(p)  BY <1>1, <1>2 DEF Orderly, Found
  <2>2. sid[p] \in SessionIds  BY DEF IInv, Types
  <2> QED  BY <2>1, <2>2 DEF Tracked, IInv, Registry, NeverBoth
<1>8. \A id \in SessionIds : /\ active'[id] \in {active[id], Nobody}
                             /\ detached'[id] = detached[id]
                             /\ ~down /\ active'[id] # active[id] => active[id] = p
  BY <1>1, <1>2, <1>6, UnregistersOwn
<1>9. Ended(p)  BY <1>1, <1>5, <1>8 DEF Ended
<1> QED  BY <1>2, <1>9, EndedPreserves DEF IInv

LEMMA CleanupOrderly ==
    ASSUME IInv, Orderly, NEW id \in SessionIds, CleanupSession(id)
    PROVE  Orderly' /\ detached[id] \in Sessions /\ Ended(detached[id])
<1> DEFINE p == detached[id]
<1>1. /\ p # Nobody /\ ProxyClose({p}, ws) /\ detached' = [detached EXCEPT ![id] = Nobody]
      /\ UNCHANGED <<n, sid, of, cur, active, down>>
  BY DEF CleanupSession
<1>2. p \in Sessions /\ p \in Conns  BY <1>1 DEF Orderly, Named, Sessions
<1>3. ws \in [Conns -> States] /\ Letting(p, ws)  BY LettingNothing DEF IInv, Types
<1>4. ws' = Closing(ws, {cur[p], p})
  <2>1. ws' = Closing(ws, {p} \cup {cur[q] : q \in {p}})  BY <1>1 DEF ProxyClose
  <2>2. {p} \cup {cur[q] : q \in {p}} = {cur[p], p}  OBVIOUS
  <2> QED  BY <2>1, <2>2
<1> HIDE DEF p
<1>5. \A v \in Conns : /\ (ws'[v] = "none" <=> ws[v] = "none") /\ (Live(v)' => Live(v))
                       /\ ws'[v] = "open" => ws[v] = "open" /\ of[v] # p
                       /\ ws'[v] = "closing" => ws[v] = "closing" \/ of[v] = p
  BY <1>2, <1>3, <1>4, EndsSockets DEF IInv
<1>7. closed' = [closed EXCEPT ![p] = TRUE] /\ conns' = [conns EXCEPT ![p] = FALSE]
  BY <1>1, <1>2 DEF ProxyClose, IInv, Types
<1>8. \A i \in SessionIds : /\ detached'[i] \in {detached[i], Nobody}
                            /\ detached'[i] # detached[i] => detached[i] = p
  BY <1>1 DEF p, IInv, Registry, Map
<1>9. Ended(p)  BY <1>1, <1>5, <1>7, <1>8 DEF Ended
<1> QED  BY <1>2, <1>9, EndedPreserves DEF IInv, p

\* The close event of w leaves the socket w closed, the others of its session
\* closing.
LEMMA CloseSockets ==
    ASSUME IInv, Orderly, NEW w \in Conns, Live(w)
    PROVE  LET p == of[w]
               st == Closing([ws EXCEPT ![w] = "closed"], {cur[p], p})
           IN  /\ p \in Sessions /\ p \in Conns /\ sid[p] = sid[w] /\ w = cur[p]
               /\ st \in [Conns -> States] /\ Letting(p, st) /\ st[w] = "closed"
<1> DEFINE p == of[w]
           gone == [ws EXCEPT ![w] = "closed"]
           st == Closing(gone, {cur[p], p})
<1>1. p \in Sessions /\ p \in Conns /\ sid[p] = sid[w]  BY LiveSocket DEF IInv, Orderly
<1>2. w = cur[p]  BY DEF Orderly, Alone
<1>3. gone \in [Conns -> States]  BY DEF IInv, Types, States
<1>4. Letting(p, gone)  BY DEF IInv, Types, Letting, Live
<1>5. gone[w] = "closed"  BY DEF IInv, Types
<1>6. cur[p] \in Conns /\ of[cur[p]] = p /\ of[p] = p  BY <1>1 DEF Orderly, Family, Sessions
<1> HIDE DEF gone, p
<1>7. st \in [Conns -> States] /\ Letting(p, st)
  BY <1>1, <1>3, <1>4, <1>6, LettingGo DEF IInv
<1>8. st[w] = "closed"  BY <1>3, <1>5, ClosingOnly
<1> QED  BY <1>1, <1>2, <1>7, <1>8 DEF p, gone

\* The session is kept for its client, under the id it is registered for.
LEMMA WsCloseDetaches ==
    ASSUME IInv, Orderly, NEW w \in Conns, WsClose(w), sid[w] # NoId, ResumeEnabled
    PROVE  Orderly' /\ UNCHANGED <<of, sid, closed, down>>
                    /\ DetachSession(sid[w], of[w]) /\ active[sid[w]] \in {Nobody, of[w]}
<1> DEFINE p == of[w]
           st == Closing([ws EXCEPT ![w] = "closed"], {cur[p], p})
<1>1. /\ Live(w) /\ ws' = st /\ DetachSession(sid[w], p)
      /\ UNCHANGED <<n, sid, of, cur, down, closed, conns>>
  BY DEF WsClose, Live, proxies
<1>2. /\ p \in Sessions /\ p \in Conns /\ sid[p] = sid[w] /\ w = cur[p]
      /\ Letting(p, st) /\ st[w] = "closed"
  BY <1>1, CloseSockets
<1> HIDE DEF st, p
<1>3. \A v \in Conns : /\ (ws'[v] = "none" <=> ws[v] = "none") /\ (Live(v)' => Live(v))
                       /\ ws'[v] = "open" => ws[v] = "open"
                       /\ ws'[v] = "closing" => ws[v] = "closing" \/ of[v] = p
  BY <1>1, <1>2 DEF Letting, Live
<1>4. sid[w] \in SessionIds /\ active \in Map /\ detached \in Map  BY DEF IInv, Types, Registry
<1>5. active[sid[w]] \in {Nobody, p}  BY <1>1 DEF Orderly, Attached, p
<1>6. \A id \in SessionIds : /\ active'[id] \in {active[id], Nobody}
                             /\ detached'[id] \in {active[id], detached[id], Nobody}
                             /\ \A q \in {active[id], detached[id]} \ {Nobody} :
                                    q \in {active'[id], detached'[id]}
  <2>1. CASE active[sid[w]] = Nobody  BY <1>1, <2>1 DEF DetachSession, registry
  <2>2. CASE active[sid[w]] = p /\ p # Nobody
    <3>1. active' = [active EXCEPT ![sid[w]] = Nobody] /\ detached' = [detached EXCEPT ![sid[w]] = p]
      BY <1>1, <2>2 DEF DetachSession, MoveToDetached
    <3>2. detached[sid[w]] = Nobody  BY <1>4, <2>2 DEF IInv, Registry, NeverBoth
    <3> QED  BY <1>4, <2>2, <3>1, <3>2 DEF Map
  <2> QED  BY <1>5, <2>1, <2>2
<1>7. Winding  BY <1>1, <1>3, <1>6 DEF Winding
<1>8. Family' /\ Alone' /\ Named' /\ Attached'  BY <1>7, WindingPreserves DEF IInv, Orderly
<1>9. Sessions' = Sessions  BY <1>1 DEF Sessions
<1>10. ASSUME NEW q \in Sessions, sid[q] # NoId, Tracked(q)
       PROVE  q \in {active'[sid[q]], detached'[sid[q]]}
  <2>1. sid[q] \in SessionIds /\ q # Nobody  BY <1>10 DEF IInv, Types, Sessions
  <2> QED  BY <1>6, <1>10, <2>1 DEF Tracked
<1>11. Found'
  <2> SUFFICES ASSUME ~down
               PROVE  /\ \A q \in Sessions : sid[q] # NoId /\ (~closed[q] \/ conns[q]) =>
                             q \in {active'[sid[q]], detached'[sid[q]]}
                      /\ \A v \in Conns : ws'[v] = "open" /\ sid[v] # NoId =>
                             of[v] \in {active'[sid[of[v]]], detached'[sid[of[v]]]}
    BY <1>1, <1>9 DEF Found, Tracked
  <2>1. \A q \in Sessions : sid[q] # NoId /\ (~closed[q] \/ conns[q]) => Tracked(q)
    BY DEF Orderly, Found
  <2>2. ASSUME NEW v \in Conns, ws'[v] = "open", sid[v] # NoId
        PROVE  of[v] \in Sessions /\ sid[of[v]] # NoId /\ Tracked(of[v])
    <3>1. ws[v] = "open"  BY <1>3, <2>2
    <3>2. of[v] \in Sessions /\ sid[of[v]] = sid[v]
      BY <3>1, LiveSocket DEF Live, IInv, Orderly
    <3> QED  BY <2>2, <3>1, <3>2 DEF Orderly, Found
  <2> QED  BY <1>10, <2>1, <2>2
<1>12. NewestServed'
  <2> SUFFICES ASSUME NEW q \in Sessions, ~closed[q] PROVE ws'[cur[q]] # "closing"
    BY <1>1, <1>9 DEF NewestServed
  <2>1. cur[q] \in Conns /\ of[cur[q]] = q  BY DEF Orderly, Family
  <2>2. ws[cur[q]] # "closing"  BY DEF Orderly, NewestServed
  <2> QED  BY <1>1, <1>2, <1>3, <2>1, <2>2
<1> QED  BY <1>1, <1>5, <1>8, <1>11, <1>12 DEF Orderly, p

\* ... or ends, when it cannot be resumed.
LEMMA WsCloseEnds ==
    ASSUME IInv, Orderly, NEW w \in Conns, WsClose(w), ~(sid[w] # NoId /\ ResumeEnabled)
    PROVE  Orderly' /\ of[w] \in Sessions /\ Ended(of[w])
<1> DEFINE p == of[w]
           st == Closing([ws EXCEPT ![w] = "closed"], {cur[p], p})
<1>1. /\ Live(w) /\ UnregisterSession(sid[w]) /\ ProxyClose({p}, st)
      /\ UNCHANGED <<n, sid, of, cur, down>>
  BY DEF WsClose, Live
<1>2. /\ p \in Sessions /\ p \in Conns /\ sid[p] = sid[w]
      /\ st \in [Conns -> States] /\ Letting(p, st)
  BY <1>1, CloseSockets
<1> HIDE DEF st, p
<1>4. ws' = Closing(st, {cur[p], p})
  <2>1. ws' = Closing(st, {p} \cup {cur[q] : q \in {p}})  BY <1>1 DEF ProxyClose
  <2>2. {p} \cup {cur[q] : q \in {p}} = {cur[p], p}  OBVIOUS
  <2> QED  BY <2>1, <2>2
<1>5. \A v \in Conns : /\ (ws'[v] = "none" <=> ws[v] = "none") /\ (Live(v)' => Live(v))
                       /\ ws'[v] = "open" => ws[v] = "open" /\ of[v] # p
                       /\ ws'[v] = "closing" => ws[v] = "closing" \/ of[v] = p
  BY <1>2, <1>4, EndsSockets DEF IInv
<1>6. sid[w] # NoId /\ ~down => active[sid[w]] \in {Nobody, p}
  BY <1>1 DEF Orderly, Attached, p
<1>7. closed' = [closed EXCEPT ![p] = TRUE] /\ conns' = [conns EXCEPT ![p] = FALSE]
  BY <1>1, <1>2 DEF ProxyClose, IInv, Types
<1>8. \A id \in SessionIds : /\ active'[id] \in {active[id], Nobody}
                             /\ detached'[id] = detached[id]
                             /\ ~down /\ active'[id] # active[id] => active[id] = p
  BY <1>1, <1>2, <1>6, UnregistersOwn
<1>9. Ended(p)  BY <1>1, <1>5, <1>7, <1>8 DEF Ended
<1> QED  BY <1>2, <1>9, EndedPreserves DEF IInv, p

LEMMA MediaOrderly ==
    ASSUME IInv, Orderly, ~LateMedia, NEW w \in Conns, Media(w)
    PROVE  Orderly' /\ UNCHANGED <<of, sid, closed, active, detached, down>>
<1>1. /\ ws[w] = "open" /\ conns' = [conns EXCEPT ![of[w]] = TRUE]
      /\ UNCHANGED <<n, ws, sid, of, cur, closed, active, detached, down>>
  BY DEF Media, sockets, registry
<1>2. of[w] \in Sessions /\ of[w] \in Conns /\ sid[of[w]] = sid[w]
  BY <1>1, LiveSocket DEF Live, IInv, Orderly
<1>3. Winding  BY <1>1, <1>2 DEF Winding, IInv, Types, Live
<1>4. Family' /\ Alone' /\ Named' /\ Attached'  BY <1>3, WindingPreserves DEF IInv, Orderly
<1>5. Sessions' = Sessions  BY <1>1 DEF Sessions
<1>6. NewestServed'  BY <1>1, <1>5 DEF NewestServed, Orderly
<1>7. Found'
  <2>1. \A q \in Conns : Tracked(q)' <=> Tracked(q)  BY <1>1 DEF Tracked
  <2>2. ~down /\ sid[w] # NoId => Tracked(of[w])  BY <1>1 DEF Orderly, Found
  <2>3. \A q \in Sessions : conns'[q] => conns[q] \/ q = of[w]  BY <1>1, <1>2 DEF IInv, Types, Sessions
  <2> QED  BY <1>1, <1>2, <1>5, <2>1, <2>2, <2>3 DEF Orderly, Found, Sessions, Tracked
<1> QED  BY <1>1, <1>4, <1>6, <1>7 DEF Orderly

LEMMA ConnectionClosedOrderly ==
    ASSUME IInv, Orderly, NEW p \in Conns, ConnectionClosed(p)
    PROVE  Orderly' /\ UNCHANGED <<of, sid, closed, active, detached, down>>
<1>1. /\ conns' = [conns EXCEPT ![p] = FALSE]
      /\ UNCHANGED <<n, ws, sid, of, cur, closed, active, detached, down>>
  BY DEF ConnectionClosed, sockets, registry
<1>3. Winding  BY <1>1 DEF Winding, IInv, Types, Live
<1>4. Family' /\ Alone' /\ Named' /\ Attached'  BY <1>3, WindingPreserves DEF IInv, Orderly
<1>5. Sessions' = Sessions  BY <1>1 DEF Sessions
<1>6. NewestServed'  BY <1>1, <1>5 DEF NewestServed, Orderly
<1>7. Found'
  <2>3. \A q \in Sessions : conns'[q] => conns[q]  BY <1>1 DEF IInv, Types, Sessions
  <2> QED  BY <1>1, <1>5, <2>3 DEF Orderly, Found, Sessions, Tracked
<1> QED  BY <1>1, <1>4, <1>6, <1>7 DEF Orderly

\* SIGTERM closes the sockets of the sessions it ends, and only those.
LEMMA ShutdownOrderly ==
    ASSUME IInv, Orderly, Shutdown
    PROVE  Orderly'
<1> DEFINE P == {detached[id] : id \in Entries(detached)}
           W == P \cup {cur[p] : p \in P}
<1>1. /\ ProxyClose(P, ws) /\ down' = TRUE /\ UNCHANGED <<n, sid, of, cur>>
      /\ active' = [id \in SessionIds |-> Nobody] /\ detached' = [id \in SessionIds |-> Nobody]
  BY DEF Shutdown
<1>2. \A p \in P : p \in Sessions  BY DEF Entries, Orderly, Named
<1>3. ws \in [Conns -> States]  BY DEF IInv, Types
<1> HIDE DEF P
<1>4. ws' = Closing(ws, W) /\ closed' = [p \in Conns |-> closed[p] \/ p \in P]
      /\ conns' = [p \in Conns |-> conns[p] /\ p \notin P]
  BY <1>1 DEF ProxyClose
<1>5. \A w \in W : of[w] \in P  BY <1>2 DEF Orderly, Family, Sessions
<1> HIDE DEF W
<1>6. \A v \in Conns : /\ (ws'[v] = "none" <=> ws[v] = "none")
                       /\ (ws'[v] = "closed" <=> ws[v] = "closed")
                       /\ (ws'[v] = "open" => ws[v] = "open")
                       /\ (ws'[v] = "closing" => ws[v] = "closing" \/ v \in W)
  BY <1>3, <1>4, ClosingOnly
<1>7. ws' \in [Conns -> States]  BY <1>3, <1>4, ClosingStates
<1>8. \A v \in Conns : Live(v)' => Live(v)  BY <1>3, <1>6, <1>7 DEF Live, States
<1>9. Winding  BY <1>1, <1>2, <1>4, <1>6, <1>8 DEF Winding, IInv, Types
<1>10. Family' /\ Alone' /\ Named' /\ Attached'  BY <1>9, WindingPreserves DEF IInv, Orderly
<1>11. Found'  BY <1>1 DEF Found
<1>12. Sessions' = Sessions  BY <1>1 DEF Sessions
<1>13. NewestServed'
  <2> SUFFICES ASSUME NEW q \in Sessions, ~closed'[q] PROVE ws'[cur[q]] # "closing"
    BY <1>1, <1>12 DEF NewestServed
  <2>1. cur[q] \in Conns /\ of[cur[q]] = q  BY DEF Orderly, Family
  <2>2. ~closed[q] /\ q \notin P  BY <1>4 DEF Sessions
  <2>3. ws[cur[q]] # "closing"  BY <2>2 DEF Orderly, NewestServed
  <2> QED  BY <1>5, <1>6, <2>1, <2>2, <2>3
<1> QED  BY <1>10, <1>11, <1>13 DEF Orderly

LEMMA StutterOrderly ==
    ASSUME Orderly, UNCHANGED vars
    PROVE  Orderly'
BY DEF vars, sockets, proxies, registry, Orderly, Family, Alone, Named, Attached, Found,
       NewestServed, Sessions, Live, Tracked
-----------------------------------------------------------------------------
(* A client of session id connects after all its sockets were closed. *)

Joined(id, p) ==
    /\ n + 1 \in Conns /\ n' = n + 1
    /\ sid' = [sid EXCEPT ![n + 1] = id]
    /\ ws' = [ws EXCEPT ![n + 1] = "open"]
    /\ of' = [of EXCEPT ![n + 1] = p]
    /\ cur' = [cur EXCEPT ![p] = n + 1]
    /\ id = NoId \/ \A w \in Conns : sid[w] = id => ws[w] = "closed"
    /\ UNCHANGED <<closed, conns, down>>

LEMMA Fresh ==
    ASSUME IInv, Orderly, n + 1 \in Conns
    PROVE  /\ n + 1 \notin Sessions /\ \A p \in Sessions : p # n + 1 /\ cur[p] # n + 1
           /\ ws[n + 1] = "none" /\ of[n + 1] = Nobody /\ ~closed[n + 1] /\ ~conns[n + 1]
<1>1. ~(n + 1 <= n)  BY DEF IInv, Types
<1>2. ws[n + 1] = "none" /\ of[n + 1] = Nobody /\ ~closed[n + 1] /\ ~conns[n + 1]
  BY <1>1 DEF Orderly, Family
<1>3. n + 1 \notin Sessions  BY <1>2 DEF Sessions
<1> QED  BY <1>2, <1>3 DEF Orderly, Family, Sessions

LEMMA JoinedSockets ==
    ASSUME IInv, Orderly, NEW id \in SessionIds \cup {NoId}, NEW p \in Conns, Joined(id, p),
           (p \in Sessions /\ sid[p] = id /\ id # NoId) \/ p = n + 1
    PROVE  /\ Sessions' = Sessions \cup {p} /\ sid'[p] = id
           /\ \A q \in Sessions : sid'[q] = sid[q] /\ (q # p => cur'[q] = cur[q])
           /\ Family' /\ Alone'
<1>1. /\ n + 1 \notin Sessions /\ \A q \in Sessions : q # n + 1 /\ cur[q] # n + 1
      /\ ws[n + 1] = "none" /\ of[n + 1] = Nobody /\ ~closed[n + 1] /\ ~conns[n + 1]
  BY Fresh DEF Joined
<1>2. /\ n' = n + 1 /\ n \in Nat /\ n + 1 \in Conns
      /\ \A w \in Conns : w # n + 1 =>
            sid'[w] = sid[w] /\ ws'[w] = ws[w] /\ of'[w] = of[w]
      /\ sid'[n + 1] = id /\ ws'[n + 1] = "open" /\ of'[n + 1] = p
      /\ cur'[p] = n + 1 /\ \A q \in Conns : q # p => cur'[q] = cur[q]
      /\ UNCHANGED <<closed, conns, down>>
  BY DEF Joined, IInv, Types
<1>3. Sessions' = Sessions \cup {p}
  <2>1. ASSUME NEW q \in Conns PROVE of'[q] = q <=> of[q] = q \/ q = p
    <3>1. CASE q = n + 1  BY <1>1, <1>2, <3>1 DEF Sessions
    <3>2. CASE q # n + 1  BY <1>2, <3>2 DEF Sessions
    <3> QED  BY <3>1, <3>2
  <2> QED  BY <2>1 DEF Sessions
<1>4. sid'[p] = id /\ \A q \in Sessions : sid'[q] = sid[q] /\ (q # p => cur'[q] = cur[q])
  BY <1>1, <1>2 DEF Sessions
<1>5. Family'
  <2>1. ASSUME NEW w \in Conns, ~(w <= n')
        PROVE  ws'[w] = "none" /\ of'[w] = Nobody /\ ~closed'[w] /\ ~conns'[w]
    <3>1. w # n + 1 /\ ~(w <= n)  BY <1>2, <2>1
    <3> QED  BY <1>2, <3>1 DEF Orderly, Family
  <2>2. ASSUME NEW w \in Conns, w <= n'
        PROVE  /\ ws'[w] # "none" /\ of'[w] \in Sessions'
               /\ sid'[of'[w]] = sid'[w] /\ (sid'[w] = NoId => of'[w] = w)
    <3>1. CASE w = n + 1  BY <1>2, <1>3, <1>4, <3>1
    <3>2. CASE w # n + 1
      <4>1. w <= n  BY <1>2, <2>2, <3>2
      <4> QED  BY <1>2, <1>3, <1>4, <3>2, <4>1 DEF Orderly, Family
    <3> QED  BY <3>1, <3>2
  <2>3. \A q \in Conns : conns'[q] => q \in Sessions'  BY <1>2, <1>3 DEF Orderly, Family
  <2>4. ASSUME NEW q \in Sessions' PROVE cur'[q] \in Conns /\ of'[cur'[q]] = q
    <3>1. CASE q = p  BY <1>2, <3>1
    <3>2. CASE q # p
      <4>1. q \in Sessions /\ q \in Conns  BY <1>3, <3>2 DEF Sessions
      <4>2. cur[q] \in Conns /\ of[cur[q]] = q /\ cur[q] # n + 1
        BY <1>1, <4>1 DEF Orderly, Family
      <4> QED  BY <1>2, <3>2, <4>1, <4>2
    <3> QED  BY <3>1, <3>2
  <2> QED  BY <2>1, <2>2, <2>3, <2>4 DEF Family
<1>6. Alone'
  <2>1. \A w \in Conns : id # NoId /\ sid[w] = id => ws[w] = "closed"  BY DEF Joined
  <2>2. ASSUME NEW v \in Conns, NEW w \in Conns, Live(v)', Live(w)',
               sid'[v] = sid'[w], sid'[v] # NoId
        PROVE  v = w
    <3>1. CASE v = n + 1 \/ w = n + 1  BY <1>2, <2>1, <2>2, <3>1 DEF Live
    <3>2. CASE v # n + 1 /\ w # n + 1
      <4>1. Live(v) /\ Live(w) /\ sid[v] = sid[w] /\ sid[v] # NoId
        BY <1>2, <2>2, <3>2 DEF Live
      <4> QED  BY <4>1 DEF Orderly, Alone
    <3> QED  BY <3>1, <3>2
  <2>3. ASSUME NEW w \in Conns, Live(w)' PROVE w = cur'[of'[w]]
    <3>1. CASE w = n + 1  BY <1>2, <3>1
    <3>2. CASE w # n + 1
      <4>1. Live(w)  BY <1>2, <2>3, <3>2 DEF Live
      <4>2. of[w] \in Sessions /\ of[w] \in Conns /\ sid[of[w]] = sid[w] /\ w = cur[of[w]]
        BY <4>1, LiveSocket DEF IInv, Orderly, Alone
      <4>3. of[w] # p
        <5>1. CASE p = n + 1  BY <1>1, <4>2, <5>1
        <5>2. CASE sid[p] = id /\ id # NoId
          <6>1. ws[w] # "closed"  BY <4>1 DEF Live
          <6> QED  BY <2>1, <4>2, <5>2, <6>1
        <5> QED  BY <5>1, <5>2
      <4> QED  BY <1>2, <3>2, <4>2, <4>3
    <3> QED  BY <3>1, <3>2
  <2> QED  BY <2>2, <2>3 DEF Alone
<1> QED  BY <1>3, <1>4, <1>5, <1>6

\* Whatever was tracked under id is p, which is registered now.
Registered(id, p) ==
    /\ \A i \in SessionIds : i # id => active'[i] = active[i] /\ detached'[i] = detached[i]
    /\ id # NoId => /\ active'[id] = p /\ detached'[id] = Nobody
                    /\ active[id] \in {Nobody, p} /\ detached[id] \in {Nobody, p}

LEMMA JoinedOrderly ==
    ASSUME IInv, Orderly, NEW id \in SessionIds \cup {NoId}, NEW p \in Conns, Joined(id, p),
           (p \in Sessions /\ sid[p] = id /\ id # NoId) \/ p = n + 1,
           Registered(id, p)
    PROVE  Orderly'
<1>1. /\ Sessions' = Sessions \cup {p} /\ sid'[p] = id
      /\ \A q \in Sessions : sid'[q] = sid[q] /\ (q # p => cur'[q] = cur[q])
      /\ Family' /\ Alone'
  BY JoinedSockets
<1>2. /\ n + 1 \in Conns
      /\ \A w \in Conns : w # n + 1 =>
            sid'[w] = sid[w] /\ ws'[w] = ws[w] /\ of'[w] = of[w]
      /\ sid'[n + 1] = id /\ ws'[n + 1] = "open" /\ of'[n + 1] = p
      /\ cur'[p] = n + 1 /\ UNCHANGED <<closed, conns, down>>
  BY DEF Joined, IInv, Types
<1>3. \A q \in Sessions : q # n + 1 /\ cur[q] # n + 1  BY <1>2, Fresh
<1>4. \A q \in Sessions : q \in Conns /\ q # Nobody  BY DEF Sessions
<1>5. Named'
  <2> SUFFICES ASSUME NEW i \in SessionIds, NEW q, q = active'[i] \/ q = detached'[i], q # Nobody
               PROVE  q \in Sessions' /\ sid'[q] = i
    BY DEF Named
  <2>1. CASE i = id  BY <1>1, <2>1 DEF Registered
  <2>2. CASE i # id
    <3>1. q \in {active[i], detached[i]} \ {Nobody}  BY <2>2 DEF Registered
    <3>2. q \in Sessions /\ sid[q] = i  BY <3>1 DEF Orderly, Named
    <3> QED  BY <1>1, <3>2
  <2> QED  BY <2>1, <2>2
<1>6. Attached'
  <2> SUFFICES ASSUME NEW w \in Conns, Live(w)', sid'[w] # NoId
               PROVE  active'[sid'[w]] \in {Nobody, of'[w]}
    BY DEF Attached
  <2>1. CASE w = n + 1  BY <1>2, <2>1 DEF Registered
  <2>2. CASE w # n + 1
    <3>1. Live(w) /\ sid'[w] = sid[w] /\ of'[w] = of[w]  BY <1>2, <2>2 DEF Live
    <3>2. sid[w] # id  BY <2>2, <3>1 DEF Joined, Live
    <3>3. sid[w] \in SessionIds  BY <3>1 DEF IInv, Types
    <3>4. active[sid[w]] \in {Nobody, of[w]}  BY <3>1 DEF Orderly, Attached
    <3> QED  BY <3>1, <3>2, <3>3, <3>4 DEF Registered
  <2> QED  BY <2>1, <2>2
<1>7. ASSUME NEW q \in Sessions, sid[q] # NoId, Tracked(q)
      PROVE  q \in {active'[sid[q]], detached'[sid[q]]}
  <2>1. sid[q] \in SessionIds  BY <1>4, <1>7 DEF IInv, Types
  <2> QED  BY <1>4, <1>7, <2>1 DEF Registered, Tracked
<1>8. Found'
  <2> SUFFICES ASSUME ~down
               PROVE  /\ \A q \in Sessions' : sid'[q] # NoId /\ (~closed[q] \/ conns[q]) =>
                             q \in {active'[sid'[q]], detached'[sid'[q]]}
                      /\ \A v \in Conns : ws'[v] = "open" /\ sid'[v] # NoId =>
                             of'[v] \in {active'[sid'[of'[v]]], detached'[sid'[of'[v]]]}
    BY <1>2 DEF Found, Tracked
  <2>1. id # NoId => p \in {active'[sid'[p]], detached'[sid'[p]]}  BY <1>1 DEF Registered
  <2>2. ASSUME NEW q \in Sessions', sid'[q] # NoId, ~closed[q] \/ conns[q]
        PROVE  q \in {active'[sid'[q]], detached'[sid'[q]]}
    <3>1. CASE q = p  BY <1>1, <2>1, <2>2, <3>1
    <3>2. CASE q # p
      <4>1. q \in Sessions /\ sid'[q] = sid[q]  BY <1>1, <3>2
      <4>2. Tracked(q)  BY <2>2, <4>1 DEF Orderly, Found
      <4> QED  BY <1>7, <2>2, <4>1, <4>2
    <3> QED  BY <3>1, <3>2
  <2>3. ASSUME NEW v \in Conns, ws'[v] = "open", sid'[v] # NoId
        PROVE  of'[v] \in {active'[sid'[of'[v]]], detached'[sid'[of'[v]]]}
    <3>1. CASE v = n + 1  BY <1>2, <2>1, <2>3, <3>1
    <3>2. CASE v # n + 1
      <4>1. ws[v] = "open" /\ sid[v] # NoId /\ of'[v] = of[v]  BY <1>2, <2>3, <3>2
      <4>2. of[v] \in Sessions /\ sid[of[v]] = sid[v]
        BY <4>1, LiveSocket DEF Live, IInv, Orderly
      <4>3. Tracked(of[v])  BY <4>1 DEF Orderly, Found
      <4>4. sid'[of[v]] = sid[of[v]]  BY <1>1, <4>2
      <4> QED  BY <1>7, <4>1, <4>2, <4>3, <4>4
    <3> QED  BY <3>1, <3>2
  <2> QED  BY <2>2, <2>3
<1>9. NewestServed'
  <2> SUFFICES ASSUME NEW q \in Sessions', ~closed[q] PROVE ws'[cur'[q]] # "closing"
    BY <1>2 DEF NewestServed
  <2>1. CASE q = p  BY <1>2, <2>1
  <2>2. CASE q # p
    <3>1. q \in Sessions /\ cur'[q] = cur[q] /\ cur[q] # n + 1  BY <1>1, <1>3, <2>2
    <3>2. cur[q] \in Conns /\ ws[cur[q]] # "closing"
      BY <3>1 DEF Orderly, Family, NewestServed
    <3> QED  BY <1>2, <3>1, <3>2
  <2> QED  BY <2>1, <2>2
<1> QED  BY <1>1, <1>5, <1>6, <1>8, <1>9 DEF Orderly

LEMMA AcceptAlone ==
    ASSUME IInv, ~Overlap, NEW id \in SessionIds \cup {NoId}, Accept(id)
    PROVE  /\ n + 1 \in Conns /\ n' = n + 1 /\ sid' = [sid EXCEPT ![n + 1] = id]
           /\ id = NoId \/ \A w \in Conns : sid[w] = id => ws[w] = "closed"
BY DEF Accept, IInv, Types

\* A session's newest socket is closed already when another one replaces it.
LEMMA Rejoins ==
    ASSUME IInv, Orderly, ~Overlap, NEW id \in SessionIds, NEW p \in Sessions, sid[p] = id,
           Accept(id), ReattachWebSocket(p, n + 1), UNCHANGED <<proxies, down>>
    PROVE  Joined(id, p)
<1>1. /\ n + 1 \in Conns /\ n' = n + 1 /\ sid' = [sid EXCEPT ![n + 1] = id]
      /\ \A w \in Conns : sid[w] = id => ws[w] = "closed"
  BY AcceptAlone
<1>2. cur[p] \in Conns /\ sid[cur[p]] = id
  <2>1. cur[p] \in Conns /\ of[cur[p]] = p /\ p # Nobody  BY DEF Orderly, Family, Sessions
  <2>2. cur[p] <= n  BY <2>1 DEF Orderly, Family
  <2> QED  BY <2>1, <2>2 DEF Orderly, Family
<1>3. ws[cur[p]] = "closed"  BY <1>1, <1>2
<1>4. Closing(ws, {cur[p]}) = ws  BY <1>3 DEF Closing, IInv, Types
<1> QED  BY <1>1, <1>4 DEF ReattachWebSocket, Joined, proxies

LEMMA ResumeJoins ==
    ASSUME IInv, Orderly, ~Overlap, NEW id \in SessionIds, Resume(id)
    PROVE  /\ detached[id] \in Sessions /\ sid[detached[id]] = id
           /\ Joined(id, detached[id]) /\ Registered(id, detached[id])
<1>1. detached[id] \in Sessions /\ sid[detached[id]] = id  BY DEF Resume, Orderly, Named
<1>2. Joined(id, detached[id])  BY <1>1, Rejoins DEF Resume
<1>3. Registered(id, detached[id])
  BY DEF Resume, ReattachSession, Registered, IInv, Registry, NeverBoth, Map
<1> QED  BY <1>1, <1>2, <1>3

LEMMA TakeOverJoins ==
    ASSUME IInv, Orderly, ~Overlap, NEW id \in SessionIds, TakeOver(id)
    PROVE  /\ active[id] \in Sessions /\ sid[active[id]] = id
           /\ Joined(id, active[id]) /\ Registered(id, active[id])
<1>1. active[id] \in Sessions /\ sid[active[id]] = id  BY DEF TakeOver, Orderly, Named
<1>2. Joined(id, active[id])  BY <1>1, Rejoins DEF TakeOver
<1>3. Registered(id, active[id])  BY DEF TakeOver, registry, Registered
<1> QED  BY <1>1, <1>2, <1>3

LEMMA CreateJoins ==
    ASSUME IInv, Orderly, ~Overlap, NEW id \in SessionIds \cup {NoId}, Create(id)
    PROVE  Joined(id, n + 1) /\ Registered(id, n + 1)
<1>1. /\ n + 1 \in Conns /\ n' = n + 1 /\ sid' = [sid EXCEPT ![n + 1] = id]
      /\ id = NoId \/ \A w \in Conns : sid[w] = id => ws[w] = "closed"
  BY AcceptAlone DEF Create
<1>2. Joined(id, n + 1)  BY <1>1 DEF Create, Joined, proxies
<1>3. Registered(id, n + 1)
  BY SessionAssumption DEF Create, RegisterSession, registry, Registered, IInv, Registry, Map
<1> QED  BY <1>2, <1>3

LEMMA InitOrderly == Init => Orderly
<1> SUFFICES ASSUME Init PROVE Orderly  OBVIOUS
<1>1. Sessions = {}  BY DEF Init, Sessions
<1>2. Family /\ Alone  BY <1>1 DEF Init, Family, Alone, Live
<1>3. Named /\ Attached  BY DEF Init, Named, Attached, Live
<1>4. Found /\ NewestServed  BY <1>1 DEF Init, Found, NewestServed
<1> QED  BY <1>2, <1>3, <1>4 DEF Orderly

LEMMA NextOrderly ==
    ASSUME IInv, Orderly, ~Overlap, ~LateMedia, [Next]_vars
    PROVE  Orderly'
<1>1. ASSUME NEW id \in SessionIds, Resume(id) PROVE Orderly'
  BY <1>1, ResumeJoins, JoinedOrderly DEF Sessions
<1>2. ASSUME NEW id \in SessionIds, TakeOver(id) PROVE Orderly'
  BY <1>2, TakeOverJoins, JoinedOrderly DEF Sessions
<1>3. ASSUME NEW id \in SessionIds \cup {NoId}, Create(id) PROVE Orderly'
  <2>1. Joined(id, n + 1) /\ Registered(id, n + 1)  BY <1>3, CreateJoins
  <2>2. n + 1 \in Conns  BY <2>1 DEF Joined
  <2> QED  BY <2>1, <2>2, JoinedOrderly
<1>4. ASSUME NEW w \in Conns, WsClose(w) PROVE Orderly'
  BY <1>4, WsCloseDetaches, WsCloseEnds
<1>5. ASSUME NEW w \in Conns, WsError(w) PROVE Orderly'  BY <1>5, WsErrorOrderly
<1>6. ASSUME NEW w \in Conns, Media(w) PROVE Orderly'  BY <1>6, MediaOrderly
<1>7. ASSUME NEW p \in Conns, ConnectionClosed(p) PROVE Orderly'
  BY <1>7, ConnectionClosedOrderly
<1>8. ASSUME NEW p \in Conns, SessionError(p) PROVE Orderly'  BY <1>8, SessionErrorOrderly
<1>9. ASSUME NEW id \in SessionIds, CleanupSession(id) PROVE Orderly'
  BY <1>9, CleanupOrderly
<1>10. CASE Shutdown  BY <1>10, ShutdownOrderly
<1>11. CASE UNCHANGED vars  BY <1>11, StutterOrderly
<1> QED  BY <1>1, <1>2, <1>3, <1>4, <1>5, <1>6, <1>7, <1>8, <1>9, <1>10, <1>11 DEF Next

\* As long as a client closes one connection before it opens the next, and no
\* audio follows close(), a live session is found under its id and its newest
\* socket is never the one the server closes: whatever order errors, expiry,
\* SIGTERM and reconnections come in.
THEOREM SessionsReachableHolds ==
    ASSUME ~Overlap, ~LateMedia
    PROVE  Spec => []SessionsReachable
<1>1. Init => Orderly  BY InitOrderly
<1>2. IInv /\ Orderly /\ [Next]_vars => Orderly'  BY NextOrderly
<1>3. Orderly => SessionsReachable
  BY DEF Orderly, Found, Tracked, SessionsReachable, NoOrphan
<1> QED  BY <1>1, <1>2, <1>3, Invariance, PTL DEF Spec
-----------------------------------------------------------------------------
(* The refinement of SessionLifecycle. *)

phases == [p \in Spared |-> Phase(p)]
owners == [p \in Spared |-> IF of[p] = p THEN sid[p] ELSE NoId]

PhaseStep == Lifecycle!Next \/ UNCHANGED <<phases, owners>>

(* If no error ends a session in its grace period, it is not closed while a map holds it    *)
(* (Kept): it is closed with its entry, by its own socket, error or timer.  A detached one  *)
(* has no socket whose events could close it (Waiting).                                     *)
Kept == \A id \in SessionIds : \A p \in {active[id], detached[id]} \cap Spared : ~closed[p]
Waiting == \A id \in SessionIds : detached[id] # Nobody => \A w \in Conns : sid[w] = id => ~Live(w)
Clean == Kept /\ Waiting

\* The phases, where nothing that is closed is registered.
Plain(p) == IF of[p] # p THEN "unborn"
            ELSE IF closed[p] THEN "ended"
            ELSE IF Detached(p) THEN "detached"
            ELSE "attached"

LEMMA Plainly ==
    ASSUME Kept, Kept'
    PROVE  \A p \in Spared : Phase(p) = Plain(p) /\ Phase(p)' = Plain(p)'
<1> SUFFICES ASSUME NEW p \in Spared PROVE Phase(p) = Plain(p) /\ Phase(p)' = Plain(p)'  OBVIOUS
<1>2. Active(p) => ~closed[p]  BY DEF Kept, Active
<1>3. Active(p)' => ~closed'[p]  BY DEF Kept, Active
<1> QED  BY <1>2, <1>3 DEF Phase, Plain

LEMMA PhaseOf ==
    ASSUME Types, Named, Kept, Kept', NEW p \in Spared
    PROVE  /\ p \notin Sessions => Phase(p) = "unborn"
           /\ p \in Sessions /\ closed[p] => Phase(p) = "ended"
           /\ p \in Sessions /\ ~closed[p] /\ sid[p] \in SessionIds /\ detached[sid[p]] = p =>
                 Phase(p) = "detached"
           /\ p \in Sessions /\ ~closed[p] /\ (sid[p] = NoId \/ detached[sid[p]] # p) =>
                 Phase(p) = "attached"
<1>1. p \in Conns /\ p # Nobody  BY DEF Spared, Conns, Nobody
<1>2. p \in Sessions => \A id \in SessionIds : detached[id] = p => sid[p] = id
  BY <1>1 DEF Named
<1> QED  BY <1>1, <1>2, Plainly DEF Plain, Sessions, Detached

\* No map holds p after the step.
Forgotten(p) == \A id \in SessionIds : active'[id] # p /\ detached'[id] # p

LEMMA EndClean ==
    ASSUME IInv, Orderly, Clean, NEW p \in Sessions, Ended(p), p \in Spared => Forgotten(p)
    PROVE  Clean'
<1>1. \A id \in SessionIds : /\ active'[id] \in {active[id], Nobody}
                             /\ detached'[id] \in {detached[id], Nobody}
  BY DEF Ended
<1>2. Kept'
  <2> SUFFICES ASSUME NEW id \in SessionIds, NEW q \in {active'[id], detached'[id]} \cap Spared
               PROVE  ~closed'[q]
    BY DEF Kept
  <2>0. q \in Conns /\ q # Nobody  BY DEF Spared, Conns, Nobody
  <2>1. q \in {active[id], detached[id]} /\ q # p  BY <1>1, <2>0 DEF Forgotten
  <2>2. q \in Conns /\ ~closed[q]  BY <2>0, <2>1 DEF Clean, Kept
  <2> QED  BY <2>1, <2>2 DEF Ended, IInv, Types
<1>3. Waiting'  BY <1>1 DEF Clean, Waiting, Ended
<1> QED  BY <1>2, <1>3 DEF Clean

\* The entries of a session are under its own id, and gone when those are.
LEMMA Forgetting ==
    ASSUME Orderly, NEW p \in Sessions, NEW id \in SessionIds \cup {NoId}, sid[p] = id,
           \A i \in SessionIds : active'[i] \in {active[i], Nobody} /\ detached'[i] \in {detached[i], Nobody},
           id # NoId => active'[id] = Nobody /\ detached'[id] # p
    PROVE  Forgotten(p)
<1> SUFFICES ASSUME NEW i \in SessionIds PROVE active'[i] # p /\ detached'[i] # p
  BY DEF Forgotten
<1>1. p # Nobody  BY DEF Sessions, Conns, Nobody
<1>2. CASE i = id  BY <1>1, <1>2, SessionAssumption
<1>3. CASE i # id
  <2>1. active[i] # p /\ detached[i] # p  BY <1>1, <1>3 DEF Orderly, Named
  <2> QED  BY <1>1, <2>1
<1> QED  BY <1>2, <1>3

\* A session that its socket or its provider ends is in no other map than the one its
\* handler takes it out of.
LEMMA UnregisterForgets ==
    ASSUME IInv, Orderly, NEW p \in Sessions, NEW id \in SessionIds \cup {NoId}, sid[p] = id,
           UnregisterSession(id), id # NoId => detached[id] # p
    PROVE  Forgotten(p)
<1>1. CASE id = NoId  BY <1>1, Forgetting DEF UnregisterSession, registry
<1>2. CASE id # NoId
  <2>1. active' = [active EXCEPT ![id] = Nobody] /\ detached' = detached
    BY <1>2 DEF UnregisterSession
  <2>2. active \in Map /\ id \in SessionIds  BY <1>2 DEF IInv, Registry
  <2> QED  BY <1>2, <2>1, <2>2, Forgetting DEF Map
<1> QED  BY <1>1, <1>2

LEMMA JoinClean ==
    ASSUME IInv, Orderly, Clean, NEW id \in SessionIds \cup {NoId}, NEW p \in Conns, p \in Spared => ~closed[p],
           Joined(id, p), Registered(id, p)
    PROVE  Clean'
<1>1. closed' = closed  BY DEF Joined
<1>2. Kept'
  <2> SUFFICES ASSUME NEW i \in SessionIds, NEW q \in {active'[i], detached'[i]} \cap Spared
               PROVE  ~closed[q]
    BY <1>1 DEF Kept
  <2>0. q # Nobody  BY DEF Spared, Conns, Nobody
  <2>1. CASE i = id  BY <2>0, <2>1, SessionAssumption DEF Registered
  <2>2. CASE i # id  BY <2>2 DEF Registered, Clean, Kept
  <2> QED  BY <2>1, <2>2
<1>3. Waiting'
  <2> SUFFICES ASSUME NEW i \in SessionIds, detached'[i] # Nobody, NEW w \in Conns, sid'[w] = i
               PROVE  ~Live(w)'
    BY DEF Waiting
  <2>1. i # id /\ detached[i] # Nobody  BY SessionAssumption DEF Registered
  <2>2. w # n + 1 /\ sid[w] = i /\ ws'[w] = ws[w]  BY <2>1 DEF Joined, IInv, Types
  <2> QED  BY <2>1, <2>2 DEF Clean, Waiting, Live
<1> QED  BY <1>2, <1>3 DEF Clean

LEMMA DetachClean ==
    ASSUME IInv, Orderly, Clean, NEW w \in Conns, WsClose(w), sid[w] # NoId, ResumeEnabled
    PROVE  Clean'
<1> DEFINE p == of[w]
           st == Closing([ws EXCEPT ![w] = "closed"], {cur[p], p})
<1>1. /\ Live(w) /\ ws' = st /\ UNCHANGED <<sid, closed>>
      /\ DetachSession(sid[w], p) /\ active[sid[w]] \in {Nobody, p}
  BY WsCloseDetaches DEF WsClose, Live
<1>2. Letting(p, st) /\ st[w] = "closed"  BY <1>1, CloseSockets
<1> HIDE DEF st, p
<1>3. \A v \in Conns : Live(v)' => Live(v) /\ v # w
  BY <1>1, <1>2 DEF Letting, Live
<1>4. sid[w] \in SessionIds /\ active \in Map /\ detached \in Map  BY DEF IInv, Types, Registry
<1>5. \A id \in SessionIds : /\ active'[id] \in {active[id], Nobody}
                             /\ detached'[id] \in {active[id], detached[id], Nobody}
                             /\ id # sid[w] => detached'[id] = detached[id]
  <2>1. CASE active[sid[w]] = Nobody  BY <1>1, <2>1 DEF DetachSession, registry
  <2>2. CASE active[sid[w]] # Nobody
    <3>1. active' = [active EXCEPT ![sid[w]] = Nobody] /\ detached' = [detached EXCEPT ![sid[w]] = p]
      BY <1>1, <2>2 DEF DetachSession, MoveToDetached
    <3> QED  BY <1>1, <1>4, <2>2, <3>1 DEF Map
  <2> QED  BY <2>1, <2>2
<1>6. Kept'
  <2> SUFFICES ASSUME NEW id \in SessionIds, NEW q \in {active'[id], detached'[id]} \cap Spared
               PROVE  ~closed[q]
    BY <1>1 DEF Kept
  <2>1. q # Nobody  BY DEF Spared, Conns, Nobody
  <2> QED  BY <1>5, <2>1 DEF Clean, Kept
<1>7. Waiting'
  <2> SUFFICES ASSUME NEW i \in SessionIds, detached'[i] # Nobody, NEW v \in Conns, sid[v] = i, Live(v)'
               PROVE  FALSE
    BY <1>1 DEF Waiting
  <2>1. CASE i = sid[w]  BY <1>1, <1>3, <2>1 DEF Orderly, Alone
  <2>2. CASE i # sid[w]  BY <1>3, <1>5, <2>2 DEF Clean, Waiting
  <2> QED  BY <2>1, <2>2
<1> QED  BY <1>6, <1>7 DEF Clean

LEMMA NextClean ==
    ASSUME IInv, Orderly, Clean, ~Overlap, ~LateMedia, ~Sigterm, [Next]_vars
    PROVE  Clean'
<1>1. ASSUME NEW id \in SessionIds, Resume(id) PROVE Clean'
  <2>1. detached[id] # Nobody  BY <1>1 DEF Resume
  <2>2. detached[id] \in Spared => ~closed[detached[id]]  BY <2>1 DEF Clean, Kept
  <2> QED  BY <1>1, <2>2, ResumeJoins, JoinClean DEF Sessions
<1>2. ASSUME NEW id \in SessionIds, TakeOver(id) PROVE Clean'
  <2>1. active[id] # Nobody  BY <1>2 DEF TakeOver
  <2>2. active[id] \in Spared => ~closed[active[id]]  BY <2>1 DEF Clean, Kept
  <2> QED  BY <1>2, <2>2, TakeOverJoins, JoinClean DEF Sessions
<1>3. ASSUME NEW id \in SessionIds \cup {NoId}, Create(id) PROVE Clean'
  <2>1. Joined(id, n + 1) /\ Registered(id, n + 1)  BY <1>3, CreateJoins
  <2>2. n + 1 \in Conns  BY <2>1 DEF Joined
  <2>3. ~closed[n + 1]  BY <2>2, Fresh
  <2> QED  BY <2>1, <2>2, <2>3, JoinClean
<1>4. ASSUME NEW w \in Conns, Live(w)
      PROVE  /\ of[w] \in Sessions /\ sid[of[w]] = sid[w] /\ sid[w] \in SessionIds \cup {NoId}
             /\ sid[w] # NoId => detached[sid[w]] # of[w]
  <2>1. of[w] \in Sessions /\ sid[of[w]] = sid[w] /\ sid[w] \in SessionIds \cup {NoId}
    BY <1>4, LiveSocket DEF IInv, Types, Orderly
  <2>2. of[w] # Nobody  BY <2>1 DEF Sessions, Conns, Nobody
  <2> QED  BY <1>4, <2>1, <2>2 DEF Clean, Waiting
<1>5. ASSUME NEW w \in Conns, WsClose(w) PROVE Clean'
  <2>1. CASE sid[w] # NoId /\ ResumeEnabled  BY <1>5, <2>1, DetachClean
  <2>2. CASE ~(sid[w] # NoId /\ ResumeEnabled)
    <3>1. Live(w) /\ UnregisterSession(sid[w])  BY <1>5, <2>2 DEF WsClose, Live
    <3>2. of[w] \in Sessions /\ Ended(of[w])  BY <1>5, <2>2, WsCloseEnds
    <3>3. Forgotten(of[w])  BY <1>4, <3>1, UnregisterForgets
    <3> QED  BY <3>2, <3>3, EndClean
  <2> QED  BY <2>1, <2>2
<1>6. ASSUME NEW w \in Conns, WsError(w) PROVE Clean'
  <2>1. Live(w) /\ UnregisterSession(sid[w])  BY <1>6 DEF WsError, Live
  <2>2. of[w] \in Sessions /\ Ended(of[w])  BY <1>6, WsErrorOrderly
  <2>3. Forgotten(of[w])  BY <1>4, <2>1, UnregisterForgets
  <2> QED  BY <2>2, <2>3, EndClean
<1>7. ASSUME NEW p \in Conns, SessionError(p) PROVE Clean'
  <2>1. UnregisterSession(sid[p]) /\ (p \in Spared => ~Detached(p))  BY <1>7 DEF SessionError, Spared
  <2>2. p \in Sessions /\ Ended(p)  BY <1>7, SessionErrorOrderly
  <2>3. sid[p] \in SessionIds \cup {NoId}  BY DEF IInv, Types
  <2>4. p \in Spared /\ sid[p] # NoId => detached[sid[p]] # p  BY <2>1, <2>3 DEF Detached
  <2>5. p \in Spared => Forgotten(p)  BY <2>1, <2>2, <2>3, <2>4, UnregisterForgets
  <2> QED  BY <2>2, <2>5, EndClean
<1>8. ASSUME NEW id \in SessionIds, CleanupSession(id) PROVE Clean'
  <2>1. detached[id] \in Sessions /\ Ended(detached[id])  BY <1>8, CleanupOrderly
  <2>2. /\ detached[id] # Nobody /\ detached' = [detached EXCEPT ![id] = Nobody] /\ active' = active
    BY <1>8 DEF CleanupSession
  <2>3. active[id] = Nobody /\ sid[detached[id]] = id /\ detached \in Map
    BY <2>2 DEF IInv, Registry, NeverBoth, Orderly, Named
  <2>4. Forgotten(detached[id])  BY <2>1, <2>2, <2>3, Forgetting DEF Map
  <2> QED  BY <2>1, <2>4, EndClean
<1>9. ASSUME UNCHANGED <<sid, ws, closed, active, detached>> PROVE Clean'
  BY <1>9 DEF Clean, Kept, Waiting, Live
<1>10. ASSUME NEW w \in Conns, Media(w) PROVE Clean'
  BY <1>9, <1>10 DEF Media, sockets, registry
<1>11. ASSUME NEW p \in Conns, ConnectionClosed(p) PROVE Clean'
  BY <1>9, <1>11 DEF ConnectionClosed, sockets, registry
<1>12. ~Shutdown  BY DEF Shutdown
<1>13. CASE UNCHANGED vars  BY <1>9, <1>13 DEF vars, sockets, proxies, registry
<1> QED  BY <1>1, <1>2, <1>3, <1>5, <1>6, <1>7, <1>8, <1>10, <1>11, <1>12, <1>13 DEF Next

\* Steps by what they do to the phase of one session p.
Becomes(p, ph) == \A q \in Spared : Phase(q)' = IF q = p THEN ph ELSE Phase(q)
KeepsPhases == \A q \in Spared : Phase(q)' = Phase(q)
KeepsOwners == UNCHANGED <<of, sid>>

LEMMA KeptPhases ==
    ASSUME KeepsPhases, KeepsOwners
    PROVE  UNCHANGED <<phases, owners>>
BY DEF KeepsPhases, KeepsOwners, phases, owners

LEMMA BecomesPhase ==
    ASSUME NEW p \in Spared, NEW ph, Becomes(p, ph)
    PROVE  phases' = [phases EXCEPT ![p] = ph]
<1>1. phases' = [q \in Spared |-> IF q = p THEN ph ELSE Phase(q)]  BY DEF Becomes, phases
<1> QED  BY <1>1 DEF phases

LEMMA KeptOwners ==
    ASSUME KeepsOwners
    PROVE  owners' = owners
BY DEF KeepsOwners, owners

LEMMA EndStep ==
    ASSUME IInv, Orderly, Orderly', Kept, Kept', ~down, NEW p \in Sessions, Ended(p)
    PROVE  PhaseStep
<1>1. Sessions' = Sessions /\ p \in Conns /\ p # Nobody  BY DEF Ended, Sessions
<1>2. UNCHANGED <<of, sid>>  BY DEF Ended
<1>3. ASSUME NEW q \in Spared, q # p PROVE Phase(q)' = Phase(q)
  <2>0. q \in Conns /\ q # Nobody  BY DEF Spared, Conns, Nobody
  <2>1. closed'[q] = closed[q]  BY <1>3, <2>0 DEF Ended, IInv, Types
  <2>2. \A id \in SessionIds : detached'[id] = q <=> detached[id] = q
    BY <1>3, <2>0 DEF Ended
  <2> QED  BY <1>2, <2>1, <2>2, Plainly DEF Plain, Detached
<1>0. CASE p \notin Spared
  <2>1. KeepsPhases  BY <1>0, <1>3 DEF KeepsPhases
  <2> QED  BY <1>2, <2>1, KeptPhases DEF KeepsOwners, PhaseStep
<1> SUFFICES ASSUME p \in Spared PROVE PhaseStep  BY <1>0
<1>4. Phase(p)' = "ended"  BY <1>1, <1>2, Plainly DEF Plain, Detached, Ended, IInv, Types, Sessions
<1>5. CASE closed[p]
  <2>1. Phase(p) = "ended"  BY <1>5, Plainly DEF Plain, Detached, Sessions
  <2> QED  BY <1>2, <1>3, <1>4, <2>1, KeptPhases DEF KeepsPhases, KeepsOwners, PhaseStep
<1>6. CASE ~closed[p]
  <2>1. Phase(p) \in {"attached", "detached"}  BY <1>6, Plainly DEF Plain, Detached, Sessions
  <2>2. phases' = [phases EXCEPT ![p] = "ended"]
    BY <1>1, <1>3, <1>4, BecomesPhase DEF Becomes
  <2>3. owners' = owners  BY <1>2, KeptOwners DEF KeepsOwners
  <2>4. Lifecycle!End(p)
    BY <1>1, <2>1, <2>2, <2>3 DEF Lifecycle!End, Lifecycle!Live, phases, owners
  <2> QED  BY <1>1, <2>4 DEF Lifecycle!Next, PhaseStep
<1> QED  BY <1>5, <1>6

LEMMA DetachStep ==
    ASSUME IInv, Orderly, Orderly', Kept, Kept', NEW w \in Conns, Live(w), sid[w] # NoId, NEW p, p = of[w],
           UNCHANGED <<of, sid, closed, down>>, DetachSession(sid[w], p),
           active[sid[w]] \in {Nobody, p}
    PROVE  PhaseStep
<1>1. p \in Sessions /\ p \in Conns /\ p # Nobody /\ sid[p] = sid[w]
  BY LiveSocket DEF IInv, Orderly, Sessions
<1>2. sid[w] \in SessionIds /\ detached \in Map  BY DEF IInv, Types, Registry
<1>3. CASE active[sid[w]] = Nobody
  <2>1. detached' = detached  BY <1>3 DEF DetachSession, registry
  <2>2. KeepsPhases  BY <2>1, Plainly DEF KeepsPhases, Plain, Detached
  <2> QED  BY <2>2, KeptPhases DEF KeepsOwners, PhaseStep
<1>4. CASE active[sid[w]] # Nobody
  <2>1. detached' = [detached EXCEPT ![sid[w]] = p]  BY <1>4 DEF DetachSession, MoveToDetached
  <2>2. detached[sid[w]] = Nobody  BY <1>2, <1>4 DEF IInv, Registry, NeverBoth
  <2>3. detached'[sid[w]] = p /\ \A i \in SessionIds : i # sid[w] => detached'[i] = detached[i]
    BY <1>2, <2>1 DEF Map
  <2>4. ASSUME NEW q \in Spared, q # p PROVE Phase(q)' = Phase(q)
    <3>0. q # Nobody  BY DEF Spared, Conns, Nobody
    <3>1. \A id \in SessionIds : detached'[id] = q <=> detached[id] = q
      BY <1>1, <1>2, <2>2, <2>3, <2>4, <3>0
    <3> QED  BY <3>1, Plainly DEF Plain, Detached
  <2>0. CASE p \notin Spared
    <3>1. KeepsPhases  BY <2>0, <2>4 DEF KeepsPhases
    <3> QED  BY <3>1, KeptPhases DEF KeepsOwners, PhaseStep
  <2> SUFFICES ASSUME p \in Spared PROVE PhaseStep  BY <2>0
  <2>5. CASE closed[p]
    <3>1. Phase(p)' = Phase(p)  BY <1>1, <2>5, Plainly DEF Plain, Detached, Sessions
    <3>2. KeepsPhases  BY <2>4, <3>1 DEF KeepsPhases
    <3> QED  BY <3>2, KeptPhases DEF KeepsOwners, PhaseStep
  <2>6. CASE ~closed[p]
    <3>1. Phase(p)' = "detached"  BY <1>1, <1>2, <2>3, <2>6, Plainly DEF Plain, Detached, Sessions
    <3>2. Phase(p) = "attached"
      BY <1>1, <1>2, <2>2, <2>6, PhaseOf DEF IInv, Orderly
    <3>3. phases' = [phases EXCEPT ![p] = "detached"]
      BY <1>1, <2>4, <3>1, BecomesPhase DEF Becomes
    <3>4. owners' = owners  BY KeptOwners DEF KeepsOwners
    <3>5. owners[p] # NoId  BY <1>1 DEF owners, Sessions
    <3>6. Lifecycle!Detach(p)
      BY <1>1, <3>2, <3>3, <3>4, <3>5 DEF Lifecycle!Detach, phases, owners
    <3> QED  BY <1>1, <3>6 DEF Lifecycle!Next, PhaseStep
  <2> QED  BY <2>5, <2>6
<1> QED  BY <1>3, <1>4

LEMMA RejoinStep ==
    ASSUME IInv, Orderly, Orderly', Kept, Kept', IInv', NEW id \in SessionIds, NEW p \in Sessions, sid[p] = id,
           Joined(id, p), Registered(id, p)
    PROVE  PhaseStep
<1>1. /\ Sessions' = Sessions \cup {p} /\ sid'[p] = id
      /\ \A q \in Sessions : sid'[q] = sid[q] /\ (q # p => cur'[q] = cur[q])
  BY JoinedSockets DEF Sessions
<1>2. Sessions' = Sessions /\ p \in Conns /\ p # Nobody /\ closed' = closed
  BY <1>1 DEF Sessions, Joined
<1>3. owners' = owners  BY <1>1, <1>2 DEF owners, Sessions, Spared
<1>4. /\ \A i \in SessionIds : i # id => detached'[i] = detached[i]
      /\ detached'[id] = Nobody /\ detached[id] \in {Nobody, p}
  BY DEF Registered
<1>5. ASSUME NEW q \in Spared, q # p PROVE Phase(q)' = Phase(q)
  <2>0. q \in Conns /\ q # Nobody  BY DEF Spared, Conns, Nobody
  <2>1. \A i \in SessionIds : detached'[i] = q <=> detached[i] = q  BY <1>4, <1>5, <2>0
  <2>2. of'[q] = q <=> of[q] = q  BY <1>2, <2>0 DEF Sessions
  <2> QED  BY <1>2, <2>1, <2>2, Plainly DEF Plain, Detached
<1>0. CASE p \notin Spared
  <2>1. KeepsPhases  BY <1>0, <1>5 DEF KeepsPhases
  <2>2. phases' = phases  BY <2>1 DEF KeepsPhases, phases
  <2> QED  BY <1>3, <2>2 DEF PhaseStep
<1> SUFFICES ASSUME p \in Spared PROVE PhaseStep  BY <1>0
<1>6. of'[p] = p /\ of[p] = p  BY <1>2 DEF Sessions
<1>7. CASE closed[p]
  <2>1. Phase(p)' = Phase(p)  BY <1>2, <1>6, <1>7, Plainly DEF Plain, Detached
  <2>2. phases' = phases  BY <1>5, <2>1 DEF phases
  <2> QED  BY <1>3, <2>2 DEF PhaseStep
<1>8. CASE ~closed[p]
  <2>1. \A i \in SessionIds : detached'[i] # p
    <3>1. \A i \in SessionIds : i # id => detached[i] # p  BY <1>2 DEF Orderly, Named
    <3> QED  BY <1>2, <1>4, <3>1
  <2>2. Phase(p)' = "attached"  BY <1>2, <1>6, <1>8, <2>1, Plainly DEF Plain, Detached
  <2>3. phases' = [phases EXCEPT ![p] = "attached"]
    BY <1>2, <1>5, <2>2, BecomesPhase DEF Becomes
  <2>4. Phase(p) \in {"attached", "detached"}  BY <1>2, <1>6, <1>8, Plainly DEF Plain, Detached
  <2>5. CASE Phase(p) = "attached"
    <3>1. phases' = phases  BY <1>2, <2>3, <2>5 DEF phases
    <3> QED  BY <1>3, <3>1 DEF PhaseStep
  <2>6. CASE Phase(p) = "detached"
    <3>1. Lifecycle!Resume(p)
      BY <1>2, <1>3, <2>3, <2>6 DEF Lifecycle!Resume, phases, owners
    <3> QED  BY <1>2, <3>1 DEF Lifecycle!Next, PhaseStep
  <2> QED  BY <2>4, <2>5, <2>6
<1> QED  BY <1>7, <1>8

LEMMA OpenStep ==
    ASSUME IInv, Orderly, Orderly', Kept, Kept', IInv', ~down, NEW id \in SessionIds \cup {NoId},
           id # NoId => detached[id] = Nobody /\ active[id] = Nobody,
           NEW p, p = n + 1, Joined(id, p), Registered(id, p)
    PROVE  PhaseStep
<1>1. p \in Conns /\ p # Nobody /\ p \notin Sessions /\ ~closed[p] /\ closed' = closed
  BY Fresh DEF Joined
<1>2. /\ Sessions' = Sessions \cup {p} /\ sid'[p] = id
      /\ \A q \in Sessions : sid'[q] = sid[q]
  BY <1>1, JoinedSockets
<1>4. \A q \in Conns : (IF of'[q] = q THEN sid'[q] ELSE NoId) =
                       IF q = p THEN id ELSE IF of[q] = q THEN sid[q] ELSE NoId
  BY <1>1, <1>2 DEF Sessions
<1>5. \A i \in SessionIds : detached'[i] = detached[i]
  BY DEF Registered
<1>6. ASSUME NEW q \in Spared, q # p PROVE Phase(q)' = Phase(q)
  <2>1. q \in Conns  BY DEF Spared
  <2>2. of'[q] = q <=> of[q] = q  BY <1>2, <1>6, <2>1 DEF Sessions
  <2> QED  BY <1>1, <1>5, <2>2, Plainly DEF Plain, Detached
<1>0. CASE p \notin Spared
  <2>1. owners' = owners  BY <1>0, <1>4 DEF owners, Spared
  <2>2. phases' = phases  BY <1>0, <1>6 DEF phases
  <2> QED  BY <2>1, <2>2 DEF PhaseStep
<1> SUFFICES ASSUME p \in Spared PROVE PhaseStep  BY <1>0
<1>3. owners' = [owners EXCEPT ![p] = id]  BY <1>4 DEF owners, Spared
<1>7. \A i \in SessionIds : detached[i] # p
  <2>1. \A i \in SessionIds : detached[i] # Nobody => detached[i] \in Sessions
    BY DEF Orderly, Named
  <2> QED  BY <1>1, <2>1
<1>8. Phase(p)' = "attached" /\ Phase(p) = "unborn"
  BY <1>1, <1>2, <1>5, <1>7, Plainly DEF Plain, Detached, Sessions
<1>9. phases' = [phases EXCEPT ![p] = "attached"]
  BY <1>1, <1>6, <1>8, BecomesPhase DEF Becomes
<1>10. id # NoId => \A q \in Spared : owners[q] = id => Phase(q) \notin {"attached", "detached"}
  <2> SUFFICES ASSUME id # NoId, NEW q \in Spared, owners[q] = id
               PROVE  Phase(q) \notin {"attached", "detached"}
    OBVIOUS
  <2>1. q \in Sessions /\ sid[q] = id /\ q # Nobody  BY DEF owners, Sessions, Spared, Conns, Nobody
  <2>2. ~Tracked(q)  BY <2>1 DEF Tracked
  <2>3. closed[q]  BY <2>1, <2>2 DEF Orderly, Found
  <2> QED  BY <2>1, <2>3, PhaseOf DEF IInv, Orderly
<1>11. Lifecycle!Open(p, id)
  BY <1>1, <1>3, <1>8, <1>9, <1>10 DEF Lifecycle!Open, Lifecycle!Live, phases, owners
<1> QED  BY <1>1, <1>11 DEF Lifecycle!Next, PhaseStep

LEMMA NextRefines ==
    ASSUME IInv, Orderly, IInv', Orderly', Kept, Kept', ~Overlap, ~LateMedia, ~Sigterm, ~down,
           [Next]_vars
    PROVE  PhaseStep /\ ~down'
<1>1. ASSUME NEW id \in SessionIds, Resume(id) PROVE PhaseStep /\ ~down'
  BY <1>1, ResumeJoins, RejoinStep DEF Resume
<1>2. ASSUME NEW id \in SessionIds, TakeOver(id) PROVE PhaseStep /\ ~down'
  BY <1>2, TakeOverJoins, RejoinStep DEF TakeOver
<1>3. ASSUME NEW id \in SessionIds \cup {NoId}, Create(id) PROVE PhaseStep /\ ~down'
  BY <1>3, CreateJoins, OpenStep DEF Create
<1>4. ASSUME NEW w \in Conns, WsClose(w) PROVE PhaseStep /\ ~down'
  <2>1. Live(w) /\ ~down'  BY <1>4 DEF WsClose, Live
  <2>2. CASE sid[w] # NoId /\ ResumeEnabled
    BY <1>4, <2>1, <2>2, WsCloseDetaches, DetachStep
  <2>3. CASE ~(sid[w] # NoId /\ ResumeEnabled)
    BY <1>4, <2>1, <2>3, WsCloseEnds, EndStep
  <2> QED  BY <2>1, <2>2, <2>3
<1>5. ASSUME NEW w \in Conns, WsError(w) PROVE PhaseStep /\ ~down'
  BY <1>5, WsErrorOrderly, EndStep DEF WsError
<1>6. ASSUME UNCHANGED <<of, sid, closed, active, detached, down>> PROVE PhaseStep /\ ~down'
  <2>1. KeepsPhases /\ KeepsOwners  BY <1>6, Plainly DEF KeepsPhases, KeepsOwners, Plain, Detached
  <2> QED  BY <1>6, <2>1, KeptPhases DEF PhaseStep
<1>7. ASSUME NEW w \in Conns, Media(w) PROVE PhaseStep /\ ~down'  BY <1>6, <1>7, MediaOrderly
<1>8. ASSUME NEW p \in Conns, ConnectionClosed(p) PROVE PhaseStep /\ ~down'
  BY <1>6, <1>8, ConnectionClosedOrderly
<1>9. ASSUME NEW p \in Conns, SessionError(p) PROVE PhaseStep /\ ~down'
  BY <1>9, SessionErrorOrderly, EndStep DEF SessionError
<1>10. ASSUME NEW id \in SessionIds, CleanupSession(id) PROVE PhaseStep /\ ~down'
  BY <1>10, CleanupOrderly, EndStep DEF CleanupSession
<1>11. ~Shutdown  BY DEF Shutdown
<1>12. CASE UNCHANGED vars  BY <1>6, <1>12 DEF vars, sockets, proxies, registry
<1> QED  BY <1>1, <1>2, <1>3, <1>4, <1>5, <1>7, <1>8, <1>9, <1>10, <1>11, <1>12 DEF Next

\* Step by step, the server does with its maps, sockets, errors and timers what
\* SessionLifecycle allows: one live session per id, detached when its client's
\* connection is lost, resumed or ended after that, and never revived: a session that was
\* closed is served to nobody.  This holds of each session that no error ends in its grace
\* period, whatever happens to the others; the handler of such an error leaves the closed
\* session to be resumed.
THEOREM LifecycleStepsHold ==
    ASSUME ~Overlap, ~LateMedia, ~Sigterm
    PROVE  Spec => LifecycleSteps
<1>1. Init => Lifecycle!Init /\ ~down /\ Orderly /\ Clean
  <2> SUFFICES ASSUME Init PROVE Lifecycle!Init /\ ~down /\ Orderly /\ Clean  OBVIOUS
  <2>1. Clean  BY DEF Init, Clean, Kept, Waiting, Spared, Conns, Nobody
  <2>2. \A p \in Spared : of[p] # p  BY DEF Init, Spared, Conns, Nobody
  <2>3. \A p \in Spared : Phase(p) = "unborn"  BY <2>2 DEF Phase
  <2> QED  BY <2>1, <2>2, <2>3, InitOrderly DEF Init, Lifecycle!Init
<1>2. IInv /\ Orderly /\ [Next]_vars => Orderly'  BY NextOrderly
<1>3. IInv /\ Orderly /\ Clean /\ [Next]_vars => Clean'  BY NextClean
<1>4. /\ IInv /\ Orderly /\ Clean /\ IInv' /\ Orderly' /\ Clean' /\ ~down /\ [Next]_vars
      => [Lifecycle!Next]_<<phases, owners>> /\ ~down'
  BY NextRefines DEF Clean, PhaseStep
<1> QED  BY <1>1, <1>2, <1>3, <1>4, Invariance, PTL DEF Spec, LifecycleSteps, Lifecycle!Steps, phases, owners
=============================================================================
