------------------------- MODULE TranslatorProxy_proofs -------------------------
(***************************************************************************)
(* Proofs about TranslatorProxy, for any bridges, sources and languages, any *)
(* spellings and batch size.                                                *)
(***************************************************************************)
EXTENDS TranslatorProxy, TLAPS, FiniteSetTheorems, WellFoundedInduction

USE ProxyAssumption

\* Registered is inductive once it is known what the variables it speaks of hold.
Kinds ==
    /\ connections \subseteq Connection
    /\ bridge \in [Proxies -> {"none", "open", "closing", "closed"}]
    /\ devLanguages \in [Proxies -> SUBSET DevLanguages]

IInv == Kinds /\ Registered

LEMMA InitIInv == Init => IInv
BY DEF Init, IInv, Kinds, Registered

\* ensureConnection: every key gets one connection, and none that has one gets another.
LEMMA OpenedKeys ==
    ASSUME NEW p \in Proxies, NEW wanted \in SUBSET Requests, NEW kept, kept \subseteq Connection,
           \A c, d \in kept : Key(c) = Key(d) => c = d,
           NEW new \in Opened(p, wanted, kept)
    PROVE  /\ new \subseteq Connection
           /\ \A c \in new : c[1] = p
           /\ \A c, d \in kept \cup new : Key(c) = Key(d) => c = d
<1> DEFINE missing == Missing(p, wanted, kept)
<1>1. new \subseteq missing
      /\ \A k \in {Key(c) : c \in missing} : \E c \in new : {d \in new : Key(d) = k} = {c}
      BY DEF Opened
<1>2. \A c \in missing : c \in {p} \X wanted \X (0..1) /\ Key(c) \notin {Key(d) : d \in kept}
      BY DEF Missing
<1> HIDE DEF missing
<1>3. \A c \in new : c \in {p} \X wanted \X (0..1)  BY <1>1, <1>2
<1>4. \A c \in new : c \in Connection /\ c[1] = p  BY <1>3 DEF Connection
<1>5. ASSUME NEW c \in new, NEW d \in new, Key(c) = Key(d)  PROVE c = d
  <2>1. Key(c) \in {Key(x) : x \in missing}  BY <1>1
  <2>2. PICK e \in new : {x \in new : Key(x) = Key(c)} = {e}  BY <1>1, <2>1
  <2>3. c \in {e} /\ d \in {e}  BY <1>5, <2>2
  <2> QED  BY <2>3
<1>6. ASSUME NEW c \in kept, NEW d \in new  PROVE Key(c) # Key(d)  BY <1>1, <1>2
<1> QED  BY <1>4, <1>5, <1>6
-----------------------------------------------------------------------------
\* What is closed leaves the maps and the living alike; what is opened joins both, at a
\* bridge that is heard.
LEMMA Reconciled ==
    ASSUME IInv, NEW p \in Proxies, bridge[p] \in {"open", "closing"}, NEW wanted \in SUBSET Requests,
           NEW gone, NEW new \in Opened(p, wanted, connections \ gone), UNCHANGED bridge,
           live' = (live \ gone) \cup new, connections' = (connections \ gone) \cup new
    PROVE  connections' \subseteq Connection /\ Registered'
<1>1. connections \ gone \subseteq Connection
      /\ \A c, d \in connections \ gone : Key(c) = Key(d) => c = d
      BY DEF IInv, Kinds, Registered
<1>2. /\ new \subseteq Connection /\ \A c \in new : c[1] = p
      /\ \A c, d \in (connections \ gone) \cup new : Key(c) = Key(d) => c = d
      BY <1>1, OpenedKeys
<1>3. live = connections /\ \A c \in live : bridge[c[1]] \in {"open", "closing"}
      BY DEF IInv, Registered
<1>4. connections' = live'  BY <1>3
<1>5. \A c, d \in connections' : Key(c) = Key(d) => c = d  BY <1>2
<1>6. \A c \in live' : bridge'[c[1]] \in {"open", "closing"}  BY <1>2, <1>3
<1> QED  BY <1>1, <1>2, <1>4, <1>5, <1>6 DEF Registered, Key

\* Connections go, from the maps and the living alike.
LEMMA Removed ==
    ASSUME IInv, NEW gone, live' = live \ gone, connections' = connections \ gone,
           \A c \in connections \ gone : bridge'[c[1]] \in {"open", "closing"}
    PROVE  connections' \subseteq Connection /\ Registered'
<1>1. connections = live /\ \A c, d \in connections : Key(c) = Key(d) => c = d
      BY DEF IInv, Registered
<1>2. \A c, d \in connections' : Key(c) = Key(d) => c = d  BY <1>1
<1> QED  BY <1>1, <1>2 DEF IInv, Kinds, Registered, Key
-----------------------------------------------------------------------------
LEMMA SourcesStep ==
    ASSUME IInv, NEW p \in Proxies, HandleSources(p)
    PROVE  IInv'
<1>1. PICK wanted \in SUBSET Requests :
        \E new \in Opened(p, wanted, connections \ NotRequested(wanted, p)) :
           /\ live' = (live \ NotRequested(wanted, p)) \cup new
           /\ connections' = (connections \ NotRequested(wanted, p)) \cup new
      BY DEF HandleSources
<1>2. UNCHANGED <<bridge, devLanguages>> /\ bridge[p] \in {"open", "closing"}  BY DEF HandleSources, Heard
<1>3. connections' \subseteq Connection /\ Registered'  BY <1>1, <1>2, Reconciled
<1> QED  BY <1>2, <1>3 DEF IInv, Kinds

LEMMA MediaStep ==
    ASSUME IInv, NEW p \in Proxies, NEW s \in Sources, HandleMediaEvent(p, s)
    PROVE  IInv'
<1> DEFINE dev == {s} \X devLanguages[p] \X {CHOOSE x \in Spellings : TRUE}
<1>1. PICK new \in Opened(p, dev, connections) : live' = live \cup new /\ connections' = connections \cup new
      BY DEF HandleMediaEvent
<1>2. UNCHANGED <<bridge, devLanguages>> /\ bridge[p] \in {"open", "closing"}
      BY DEF HandleMediaEvent, Heard
<1>3. dev \subseteq Requests
  <2>1. devLanguages[p] \subseteq Languages  BY DEF IInv, Kinds
  <2>2. (CHOOSE x \in Spellings : TRUE) \in Spellings  OBVIOUS
  <2> QED  BY <2>1, <2>2 DEF Requests
<1> HIDE DEF dev
<1>4. connections \ {} = connections /\ live \ {} = live  OBVIOUS
<1>5. connections' \subseteq Connection /\ Registered'  BY <1>1, <1>2, <1>3, <1>4, Reconciled
<1> QED  BY <1>2, <1>5 DEF IInv, Kinds

\* A connection that fails takes out itself: no other has its key.
LEMMA FailsStep ==
    ASSUME IInv, NEW c \in Connection, Fails(c)
    PROVE  IInv'
<1>1. c \in live /\ live' = live \ {c} /\ connections' = OnClosed(c) /\ UNCHANGED <<bridge, devLanguages>>
      BY DEF Fails
<1>2. connections' = connections \ {c}  BY <1>1 DEF OnClosed, IInv, Registered
<1>3. \A d \in connections \ {c} : bridge'[d[1]] \in {"open", "closing"}  BY <1>1 DEF IInv, Registered
<1>4. connections' \subseteq Connection /\ Registered'  BY <1>1, <1>2, <1>3, Removed
<1> QED  BY <1>1, <1>4 DEF IInv, Kinds

LEMMA StopStep ==
    ASSUME IInv, NEW p \in Proxies, NEW l \in DevLanguages, HandleStopTranslation(p, l)
    PROVE  IInv'
<1> DEFINE gone == {c \in Own(p) : c[2][2] = l}
<1>1. /\ live' = live \ gone /\ connections' = connections \ gone /\ UNCHANGED bridge
      /\ devLanguages' = [devLanguages EXCEPT ![p] = @ \ {l}]
      BY DEF HandleStopTranslation
<1> HIDE DEF gone
<1>2. \A c \in connections \ gone : bridge'[c[1]] \in {"open", "closing"}  BY <1>1 DEF IInv, Registered
<1>3. connections' \subseteq Connection /\ Registered'  BY <1>1, <1>2, Removed
<1> QED  BY <1>1, <1>3 DEF IInv, Kinds

LEMMA BridgeClosesStep ==
    ASSUME IInv, NEW p \in Proxies, BridgeCloses(p)
    PROVE  IInv'
<1>1. /\ live' = live \ Own(p) /\ connections' = connections \ Own(p) /\ UNCHANGED devLanguages
      /\ bridge' = [bridge EXCEPT ![p] = "closed"]
      BY DEF BridgeCloses
<1>2. ASSUME NEW c \in connections \ Own(p)  PROVE bridge'[c[1]] \in {"open", "closing"}
  <2>1. c[1] # p /\ c[1] \in Proxies  BY DEF Own, IInv, Kinds, Connection
  <2> QED  BY <1>1, <2>1 DEF IInv, Kinds, Registered
<1>3. connections' \subseteq Connection /\ Registered'  BY <1>1, <1>2, Removed
<1> QED  BY <1>1, <1>3 DEF IInv, Kinds

LEMMA ConnectStep ==
    ASSUME IInv, NEW p \in Proxies, Connect(p)
    PROVE  IInv'
<1>1. bridge[p] = "none" /\ bridge' = [bridge EXCEPT ![p] = "open"] /\ UNCHANGED <<connections, live>>
      BY DEF Connect
<1>2. devLanguages' \in [Proxies -> SUBSET DevLanguages]  BY DEF Connect, IInv, Kinds
<1>3. \A c \in connections : c[1] \in Proxies  BY DEF IInv, Kinds, Connection
<1> QED  BY <1>1, <1>2, <1>3 DEF IInv, Kinds, Registered, Key

LEMMA SigtermStep == IInv /\ Sigterm => IInv'
<1> SUFFICES ASSUME IInv, Sigterm PROVE IInv'  OBVIOUS
<1>1. /\ live' = live \ connections /\ connections' = {} /\ UNCHANGED devLanguages
      /\ bridge' = [p \in Proxies |-> AfterClose(bridge[p])]
      BY DEF Sigterm
<1>2. live' = {}  BY <1>1 DEF IInv, Registered
<1> QED  BY <1>1, <1>2 DEF IInv, Kinds, Registered, AfterClose

LEMMA IInvStep == IInv /\ [Next]_vars => IInv'
<1> SUFFICES ASSUME IInv, [Next]_vars PROVE IInv'  OBVIOUS
<1>1. CASE UNCHANGED <<bridge, connections, live, devLanguages>>
      BY <1>1 DEF IInv, Kinds, Registered, Key
<1>2. ASSUME NEW p \in Proxies, Connect(p) \/ HandleSources(p) \/ BridgeCloses(p)  PROVE IInv'
      BY <1>2, ConnectStep, SourcesStep, BridgeClosesStep
<1>3. ASSUME NEW p \in Proxies, NEW l \in DevLanguages, HandleStartTranslation(p, l)  PROVE IInv'
  <2>1. UNCHANGED <<bridge, connections, live>>
        /\ devLanguages' = [devLanguages EXCEPT ![p] = @ \cup {l}]
        BY <1>3 DEF HandleStartTranslation
  <2> QED  BY <2>1 DEF IInv, Kinds, Registered, Key
<1>4. ASSUME NEW p \in Proxies, NEW l \in DevLanguages, HandleStopTranslation(p, l)  PROVE IInv'
      BY <1>4, StopStep
<1>5. ASSUME NEW p \in Proxies, NEW s \in Sources, HandleMediaEvent(p, s)  PROVE IInv'
      BY <1>5, MediaStep
<1>6. ASSUME NEW c \in Connection, Flushes(c) \/ ReportTimer(c)  PROVE IInv'
      BY <1>1, <1>6 DEF Flushes, ReportTimer
<1>7. ASSUME NEW c \in Connection, Fails(c)  PROVE IInv'  BY <1>7, FailsStep
<1>8. ASSUME NEW post \in reporter.posts, PostEnds(post)  PROVE IInv'  BY <1>1, <1>8 DEF PostEnds
<1>9. CASE FlushTimer  BY <1>1, <1>9 DEF FlushTimer
<1>10. CASE Sigterm  BY <1>10, SigtermStep
<1>11. CASE ServerCloses \/ Exit  BY <1>1, <1>11 DEF ServerCloses, Exit
<1>13. ASSUME NEW t \in Transcribers, TranscriberConnects(t) \/ TranscriberCloses(t)  PROVE IInv'
      BY <1>1, <1>13 DEF TranscriberConnects, TranscriberCloses
<1>12. CASE UNCHANGED vars  BY <1>1, <1>12 DEF vars
<1> QED  BY <1>2, <1>3, <1>4, <1>5, <1>6, <1>7, <1>8, <1>9, <1>10, <1>11, <1>12,
            <1>13 DEF Next
-----------------------------------------------------------------------------
\* TranslatorProxy's maps and its running connections agree through handleSources, the dev
\* path, failures, bridge closes and SIGTERM: none runs that a close would not find.
THEOREM RegisteredHolds == Spec => []Registered
<1>1. IInv => Registered  BY DEF IInv
<1> QED  BY <1>1, InitIInv, IInvStep, PTL DEF Spec
-----------------------------------------------------------------------------
(* The units of audio.                                                        *)

\* Unit n is at place x of kind k, when U is not reported yet, rep is the reporter, and
\* B and L are billed and lost.
At(k, x, n, U, rep, B, L) ==
    \/ k = "connection" /\ x \in Connection /\ n \in U[x]
    \/ k = "buffer" /\ x \in rep.buffer /\ n \in x.units
    \/ k = "post" /\ x \in rep.posts /\ n \in x.units
    \/ k = "billed" /\ x \in B /\ x[2] = n
    \/ k = "lost" /\ x \in L /\ x[2] = n

One(n, U, rep, B, L) == \E k, x :
    /\ At(k, x, n, U, rep, B, L)
    /\ \A j, y : At(j, y, n, U, rep, B, L) => j = k /\ y = x

Event(N) == [token : Proxies, units : SUBSET (1..N)]
Post(N) == [token : Proxies, units : SUBSET (1..N), atExit : BOOLEAN]
Reporter(N) == [buffer : SUBSET Event(N), posts : SUBSET Post(N), timer : BOOLEAN]

\* Units 1 to N are in one place each, and no other is anywhere.
Ledger(U, rep, B, L, N) ==
    /\ N \in Nat
    /\ U \in [Connection -> SUBSET (1..N)]
    /\ rep \in Reporter(N)
    /\ B \subseteq Proxies \X (1..N) /\ L \subseteq Proxies \X (1..N)
    /\ \A n \in 1..N : One(n, U, rep, B, L)

LEMMA OneIs ==
    ASSUME NEW n, NEW U, NEW rep, NEW B, NEW L, NEW k, NEW x, At(k, x, n, U, rep, B, L),
           ASSUME NEW j, NEW y, At(j, y, n, U, rep, B, L) PROVE j = k /\ y = x
    PROVE  One(n, U, rep, B, L)
BY DEF One

Batch(rep, t) == UNION {e.units : e \in {e \in rep.buffer : e.token = t}}

\* The post that event e becomes a part of.
Merged(rep, e, atExit) == [token |-> e.token, units |-> Batch(rep, e.token), atExit |-> atExit]

LEMMA Flushed ==
    ASSUME NEW rep, NEW atExit, NEW b
    PROVE  /\ b \in rep.posts => b \in Flush(rep, atExit).posts
           /\ b \in rep.buffer => Merged(rep, b, atExit) \in Flush(rep, atExit).posts
<1>1. Flush(rep, atExit) =
        [buffer |-> {}, timer |-> FALSE,
         posts |-> rep.posts \cup
            {[token |-> t, units |-> Batch(rep, t), atExit |-> atExit] : t \in {e.token : e \in rep.buffer}}]
  BY DEF Flush, Batch
<1>2. Flush(rep, atExit).posts = rep.posts \cup
            {[token |-> t, units |-> Batch(rep, t), atExit |-> atExit] : t \in {e.token : e \in rep.buffer}}
  BY <1>1
<1>3. b \in rep.buffer => Merged(rep, b, atExit) \in Flush(rep, atExit).posts
  BY <1>2 DEF Merged
<1> QED  BY <1>2, <1>3

LEMMA FlushedFrom ==
    ASSUME NEW rep, NEW atExit, NEW b \in Flush(rep, atExit).posts, b \notin rep.posts
    PROVE  \E e \in rep.buffer : b = Merged(rep, e, atExit)
BY DEF Flush, Batch, Merged

LEMMA FlushKeeps ==
    ASSUME NEW U, NEW rep, NEW B, NEW L, NEW N, Ledger(U, rep, B, L, N), NEW atExit \in BOOLEAN
    PROVE  Ledger(U, Flush(rep, atExit), B, L, N)
<1> DEFINE f == Flush(rep, atExit)
           of(e) == Merged(rep, e, atExit)
<1>1. /\ f.buffer = {} /\ f.timer = FALSE
      /\ \A b \in f.posts : b \in rep.posts \/ \E e \in rep.buffer : b = of(e)
      /\ \A b \in rep.posts : b \in f.posts
      /\ \A e \in rep.buffer : of(e) \in f.posts
  <2>1. f.buffer = {} /\ f.timer = FALSE  BY DEF Flush
  <2>2. ASSUME NEW b \in f.posts, b \notin rep.posts PROVE \E e \in rep.buffer : b = of(e)
    BY <2>2, FlushedFrom
  <2>3. ASSUME NEW b \in rep.posts PROVE b \in f.posts  BY Flushed
  <2>4. ASSUME NEW e \in rep.buffer PROVE of(e) \in f.posts  BY Flushed
  <2> QED  BY <2>1, <2>2, <2>3, <2>4
<1>2. rep \in Reporter(N) /\ rep.buffer \subseteq Event(N) /\ rep.posts \subseteq Post(N)
  BY DEF Ledger, Reporter
<1>3. \A e \in rep.buffer : of(e) \in Post(N)
  <2> TAKE e \in rep.buffer
  <2>1. Batch(rep, e.token) \subseteq 1..N  BY <1>2 DEF Batch, Event
  <2>2. e.token \in Proxies  BY <1>2 DEF Event
  <2> QED  BY <2>1, <2>2 DEF Post, Merged
<1>4. \A e \in rep.buffer : \A n : n \in of(e).units <=> \E d \in rep.buffer : d.token = e.token /\ n \in d.units
  BY DEF Batch, Merged
<1>4a. \A e, d : d.token = e.token => of(d) = of(e)  BY DEF Merged
<1>5. f \in Reporter(N)
  <2>1. f.posts \subseteq Post(N)  BY <1>1, <1>2, <1>3
  <2>2. f = [buffer |-> f.buffer, timer |-> f.timer, posts |-> f.posts]  BY DEF Flush
  <2> HIDE DEF f
  <2> QED  BY <1>1, <2>1, <2>2 DEF Reporter
<1> HIDE DEF f, of
<1>6. ASSUME NEW n \in 1..N PROVE One(n, U, f, B, L)
  <2>1. PICK k, x : /\ At(k, x, n, U, rep, B, L)
                    /\ \A j, y : At(j, y, n, U, rep, B, L) => j = k /\ y = x
    BY DEF Ledger, One
  <2>2. CASE k = "buffer"
    <3>1. x \in rep.buffer /\ n \in x.units  BY <2>1, <2>2 DEF At
    <3>2. At("post", of(x), n, U, f, B, L)  BY <1>1, <1>4, <3>1 DEF At
    <3>3. ASSUME NEW j, NEW y, At(j, y, n, U, f, B, L) PROVE j = "post" /\ y = of(x)
      <4>1. ~At(j, y, n, U, rep, B, L) \/ (j = "buffer" /\ y = x)  BY <2>1, <2>2
      <4>2. j = "post" /\ y \in f.posts /\ n \in y.units  BY <1>1, <3>3, <4>1 DEF At
      <4>3. PICK e \in rep.buffer : y = of(e)  BY <1>1, <4>1, <4>2 DEF At
      <4>4. PICK d \in rep.buffer : d.token = e.token /\ n \in d.units  BY <1>4, <4>2, <4>3
      <4>5. d = x  BY <2>1, <4>4 DEF At
      <4> QED  BY <1>4a, <4>2, <4>3, <4>4, <4>5
    <3> QED  BY <3>2, <3>3, OneIs
  <2>3. CASE k # "buffer"
    <3>1. \A d \in rep.buffer : n \notin d.units  BY <2>1, <2>3 DEF At
    <3>2. \A e \in rep.buffer : n \notin of(e).units  BY <1>4, <3>1
    <3>3. At(k, x, n, U, f, B, L)  BY <1>1, <2>1, <2>3 DEF At
    <3>4. ASSUME NEW j, NEW y, At(j, y, n, U, f, B, L) PROVE At(j, y, n, U, rep, B, L)
      BY <1>1, <3>2, <3>4 DEF At
    <3> QED  BY <2>1, <3>3, <3>4 DEF One
  <2> QED  BY <2>2, <2>3
<1> QED  BY <1>5, <1>6 DEF Ledger, f

\* One more event in the buffer: the units of connection c.
LEMMA BufferKeeps ==
    ASSUME NEW U, NEW rep, NEW B, NEW L, NEW N, Ledger(U, rep, B, L, N), NEW c \in Connection,
           U[c] # {}, NEW timer \in BOOLEAN,
           NEW e, e = [token |-> c[1], units |-> U[c]],
           NEW V, V = [U EXCEPT ![c] = {}],
           NEW r, r = [rep EXCEPT !.buffer = rep.buffer \cup {e}, !.timer = timer]
    PROVE  Ledger(V, r, B, L, N)
<1>1. rep \in Reporter(N) /\ U \in [Connection -> SUBSET (1..N)]  BY DEF Ledger
<1>2. e \in Event(N) /\ e.units = U[c]  BY <1>1 DEF Event, Connection
<1>3. r \in Reporter(N) /\ r.buffer = rep.buffer \cup {e} /\ r.posts = rep.posts
  BY <1>1, <1>2 DEF Reporter
<1>4. V \in [Connection -> SUBSET (1..N)] /\ V[c] = {} /\ \A d \in Connection : d # c => V[d] = U[d]
  BY <1>1
<1>5. ASSUME NEW n \in 1..N PROVE One(n, V, r, B, L)
  <2>1. PICK k, x : /\ At(k, x, n, U, rep, B, L)
                    /\ \A j, y : At(j, y, n, U, rep, B, L) => j = k /\ y = x
    BY DEF Ledger, One
  <2>2. CASE n \in U[c]
    <3>1. k = "connection" /\ x = c  BY <2>1, <2>2 DEF At
    <3>2. At("buffer", e, n, V, r, B, L)  BY <1>2, <1>3, <2>2 DEF At
    <3>3. ASSUME NEW j, NEW y, At(j, y, n, V, r, B, L) PROVE j = "buffer" /\ y = e
      <4>1. At(j, y, n, U, rep, B, L) => j = "connection" /\ y = c  BY <2>1, <3>1
      <4>2. CASE j = "connection"  BY <1>4, <3>3, <4>1, <4>2 DEF At
      <4>3. CASE j = "buffer"  BY <1>3, <3>3, <4>1, <4>3 DEF At
      <4>4. CASE j \notin {"connection", "buffer"}  BY <1>3, <3>3, <4>1, <4>4 DEF At
      <4> QED  BY <4>2, <4>3, <4>4
    <3> QED  BY <3>2, <3>3, OneIs
  <2>3. CASE n \notin U[c]
    <3>1. At(k, x, n, V, r, B, L)  BY <1>3, <1>4, <2>1, <2>3 DEF At
    <3>2. ASSUME NEW j, NEW y, At(j, y, n, V, r, B, L) PROVE At(j, y, n, U, rep, B, L)
      BY <1>2, <1>3, <1>4, <2>3, <3>2 DEF At
    <3> QED  BY <2>1, <3>1, <3>2 DEF One
  <2> QED  BY <2>2, <2>3
<1> QED  BY <1>3, <1>4, <1>5 DEF Ledger

LEMMA PushKeeps ==
    ASSUME NEW U, NEW rep, NEW B, NEW L, NEW N, Ledger(U, rep, B, L, N), NEW c \in Connection
    PROVE  Ledger([U EXCEPT ![c] = {}], Push([token |-> c[1], units |-> U[c]], rep), B, L, N)
<1>1. PICK e : e = [token |-> c[1], units |-> U[c]]  OBVIOUS
<1>2. PICK V : V = [U EXCEPT ![c] = {}]  OBVIOUS
<1>3. U \in [Connection -> SUBSET (1..N)] /\ rep \in Reporter(N) /\ e.units = U[c]  BY <1>1 DEF Ledger
<1>4. CASE U[c] = {}
  <2>1. V = U  BY <1>2, <1>3, <1>4
  <2>2. Push(e, rep) = rep  BY <1>3, <1>4 DEF Push
  <2> QED  BY <1>1, <1>2, <2>1, <2>2
<1>5. CASE U[c] # {}
  <2>1. PICK full : full = (Cardinality(rep.buffer \cup {e}) >= FlushMaxEvents)  OBVIOUS
  <2>2. CASE full
    <3>1. PICK r : r = [rep EXCEPT !.buffer = rep.buffer \cup {e}, !.timer = rep.timer]  OBVIOUS
    <3>2. rep.timer \in BOOLEAN  BY <1>3 DEF Reporter
    <3>3. Ledger(V, r, B, L, N)  BY <1>1, <1>2, <1>5, <3>1, <3>2, BufferKeeps
    <3>4. r = [rep EXCEPT !.buffer = rep.buffer \cup {e}]  BY <1>3, <3>1 DEF Reporter
    <3>5. Push(e, rep) = Flush(r, FALSE)  BY <1>3, <1>5, <2>1, <2>2, <3>4 DEF Push
    <3> QED  BY <1>1, <1>2, <3>3, <3>5, FlushKeeps
  <2>3. CASE ~full
    <3>1. PICK r : r = [rep EXCEPT !.buffer = rep.buffer \cup {e}, !.timer = TRUE]  OBVIOUS
    <3>3. Ledger(V, r, B, L, N)  BY <1>1, <1>2, <1>5, <3>1, BufferKeeps
    <3>5. Push(e, rep) = r  BY <1>3, <1>5, <2>1, <2>3, <3>1 DEF Push
    <3> QED  BY <1>1, <1>2, <3>3, <3>5
  <2> QED  BY <2>2, <2>3
<1> QED  BY <1>4, <1>5

\* None of the units S waits in the buffer; no post is the one that SIGTERM waits for.
Without(S, rep) == \A e \in rep.buffer : e.units \cap S = {}
NoneAtExit(rep) == \A b \in rep.posts : ~b.atExit

\* None of the units S is in a post that nobody waits for.
Awaited(S, rep) == \A b \in rep.posts : b.atExit \/ b.units \cap S = {}

LEMMA FlushLeaves ==
    ASSUME NEW rep
    PROVE  /\ NoneAtExit(rep) => NoneAtExit(Flush(rep, FALSE))
           /\ \A S, atExit : Without(S, Flush(rep, atExit))
           /\ \A S : Awaited(S, rep) => Awaited(S, Flush(rep, TRUE))
           /\ \A S : Awaited(S, rep) /\ Without(S, rep) => Awaited(S, Flush(rep, FALSE))
<1>1. ASSUME NoneAtExit(rep), NEW b \in Flush(rep, FALSE).posts PROVE ~b.atExit
  <2>1. CASE b \in rep.posts  BY <1>1, <2>1 DEF NoneAtExit
  <2>2. CASE b \notin rep.posts
    <3>1. PICK e \in rep.buffer : b = Merged(rep, e, FALSE)  BY <2>2, FlushedFrom
    <3> QED  BY <3>1 DEF Merged
  <2> QED  BY <2>1, <2>2
<1>2. \A atExit : Flush(rep, atExit).buffer = {}  BY DEF Flush
<1>3. ASSUME NEW S, Awaited(S, rep), NEW b \in Flush(rep, TRUE).posts PROVE b.atExit \/ b.units \cap S = {}
  <2>1. CASE b \in rep.posts  BY <1>3, <2>1 DEF Awaited
  <2>2. CASE b \notin rep.posts
    <3>1. PICK e \in rep.buffer : b = Merged(rep, e, TRUE)  BY <2>2, FlushedFrom
    <3> QED  BY <3>1 DEF Merged
  <2> QED  BY <2>1, <2>2
<1>4. ASSUME NEW S, Awaited(S, rep), Without(S, rep), NEW b \in Flush(rep, FALSE).posts
      PROVE  b.atExit \/ b.units \cap S = {}
  <2>1. CASE b \in rep.posts  BY <1>4, <2>1 DEF Awaited
  <2>2. CASE b \notin rep.posts
    <3>1. PICK e \in rep.buffer : b = Merged(rep, e, FALSE)  BY <2>2, FlushedFrom
    <3> QED  BY <1>4, <3>1 DEF Merged, Batch, Without
  <2> QED  BY <2>1, <2>2
<1> QED  BY <1>1, <1>2, <1>3, <1>4 DEF NoneAtExit, Without, Awaited

LEMMA PushLeaves ==
    ASSUME NEW N, NEW rep \in Reporter(N), NEW e, NEW S
    PROVE  /\ NoneAtExit(rep) => NoneAtExit(Push(e, rep))
           /\ Without(S, rep) /\ e.units \cap S = {} => Without(S, Push(e, rep))
           /\ Awaited(S, rep) /\ Without(S, rep) /\ e.units \cap S = {} => Awaited(S, Push(e, rep))
<1>1. CASE e.units = {}
  <2>1. Push(e, rep) = rep  BY <1>1 DEF Push
  <2> QED  BY <2>1
<1>2. CASE e.units # {} /\ Cardinality(rep.buffer \cup {e}) >= FlushMaxEvents
  <2>1. PICK r : r = [rep EXCEPT !.buffer = rep.buffer \cup {e}]  OBVIOUS
  <2>2. Push(e, rep) = Flush(r, FALSE)  BY <1>2, <2>1 DEF Push
  <2>3. r.posts = rep.posts /\ r.buffer = rep.buffer \cup {e}  BY <2>1 DEF Reporter
  <2>4. NoneAtExit(rep) => NoneAtExit(r)  BY <2>3 DEF NoneAtExit
  <2>5. /\ Awaited(S, rep) => Awaited(S, r)
        /\ Without(S, rep) /\ e.units \cap S = {} => Without(S, r)
    BY <2>3 DEF Awaited, Without
  <2> QED  BY <2>2, <2>4, <2>5, FlushLeaves
<1>3. CASE e.units # {} /\ ~(Cardinality(rep.buffer \cup {e}) >= FlushMaxEvents)
  <2>1. PICK r : r = [rep EXCEPT !.buffer = rep.buffer \cup {e}, !.timer = TRUE]  OBVIOUS
  <2>2. Push(e, rep) = r  BY <1>3, <2>1 DEF Push
  <2>3. r.posts = rep.posts /\ r.buffer = rep.buffer \cup {e}  BY <2>1 DEF Reporter
  <2> QED  BY <2>2, <2>3 DEF NoneAtExit, Without, Awaited
<1> QED  BY <1>1, <1>2, <1>3

LEMMA EventsFinite ==
    ASSUME NEW N \in Nat
    PROVE  IsFiniteSet(Event(N))
<1> DEFINE D == Proxies \X (SUBSET (1..N))
           f == [x \in D |-> [token |-> x[1], units |-> x[2]]]
<1>1. IsFiniteSet(D)
  <2>1. IsFiniteSet(1..N)  BY FS_Interval
  <2>2. IsFiniteSet(SUBSET (1..N))  BY <2>1, FS_SUBSET
  <2>3. IsFiniteSet(Proxies)  OBVIOUS
  <2> QED  BY <2>2, <2>3, FS_Product
<1>2. f \in [D -> Event(N)]  BY DEF Event
<1>3. ASSUME NEW e \in Event(N) PROVE \E x \in D : f[x] = e
  <2>1. <<e.token, e.units>> \in D /\ f[<<e.token, e.units>>] = e  BY DEF Event
  <2> QED  BY <2>1
<1> HIDE DEF f, D
<1>4. f \in Surjection(D, Event(N))  BY <1>2, <1>3 DEF Surjection
<1> QED  BY <1>1, <1>4, FS_Surjection

\* The batch has room for one event more.
LEMMA PushFits ==
    ASSUME NEW N \in Nat, NEW rep \in Reporter(N), NEW e, Cardinality(rep.buffer) + 1 < FlushMaxEvents
    PROVE  /\ Push(e, rep).posts = rep.posts
           /\ Cardinality(rep.buffer) \in Nat
           /\ Cardinality(Push(e, rep).buffer) \in Nat
           /\ Cardinality(Push(e, rep).buffer) <= Cardinality(rep.buffer) + 1
<1>1. IsFiniteSet(rep.buffer) /\ Cardinality(rep.buffer) \in Nat
  BY EventsFinite, FS_Subset, FS_CardinalityType DEF Reporter
<1>2. CASE e.units = {}
  <2>1. Push(e, rep) = rep  BY <1>2 DEF Push
  <2> QED  BY <1>1, <2>1
<1>3. CASE e.units # {}
  <2>1. /\ Cardinality(rep.buffer \cup {e}) \in Nat
        /\ Cardinality(rep.buffer \cup {e}) <= Cardinality(rep.buffer) + 1
    <3>1. PICK b : b = rep.buffer  OBVIOUS
    <3>2. PICK n \in Nat : n = Cardinality(b)  BY <1>1, <3>1
    <3>3. CASE e \in b
      <4>1. b \cup {e} = b  BY <3>3
      <4>2. Cardinality(b \cup {e}) = n  BY <3>2, <4>1
      <4> QED  BY <3>1, <3>2, <4>2
    <3>4. CASE e \notin b
      <4>1. Cardinality(b \cup {e}) = n + 1  BY <1>1, <3>1, <3>2, <3>4, FS_AddElement
      <4> QED  BY <3>1, <3>2, <4>1
    <3> QED  BY <3>3, <3>4
  <2>2. ~(Cardinality(rep.buffer \cup {e}) >= FlushMaxEvents)  BY <1>1, <2>1
  <2>3. PICK r : r = [rep EXCEPT !.buffer = rep.buffer \cup {e}, !.timer = TRUE]  OBVIOUS
  <2>4. Push(e, rep) = r  BY <1>3, <2>2, <2>3 DEF Push
  <2>5. r.posts = rep.posts /\ r.buffer = rep.buffer \cup {e}  BY <2>3 DEF Reporter
  <2> QED  BY <1>1, <2>1, <2>4, <2>5
<1> QED  BY <1>2, <1>3
-----------------------------------------------------------------------------
(* Several connections report one after another.  ReportAll is defined by     *)
(* recursion on the set of them: that there is such a function, and what      *)
(* holds of it, is shown for the smallest set for which it would fail.        *)

\* A set of naturals has a least element.
LEMMA LeastNat ==
    ASSUME NEW S, S \subseteq Nat, S # {}
    PROVE  \E x \in S : \A y \in S : x <= y
<1>1. IsWellFoundedOn(OpToRel(<, Nat), Nat)  BY NatLessThanWellFounded
<1>2. PICK x \in S : \A y \in S : ~(<<y, x>> \in OpToRel(<, Nat))  BY <1>1, WFMin
<1>3. \A y \in S : ~(y < x)  BY <1>2 DEF OpToRel
<1> QED  BY <1>3

Chosen(s) == CHOOSE x \in s : TRUE

LEMMA Smaller ==
    ASSUME NEW s, IsFiniteSet(s), s # {}
    PROVE  /\ Chosen(s) \in s /\ IsFiniteSet(s \ {Chosen(s)}) /\ Cardinality(s) \in Nat
           /\ Cardinality(s \ {Chosen(s)}) \in Nat
           /\ Cardinality(s \ {Chosen(s)}) = Cardinality(s) - 1
<1>1. Chosen(s) \in s  BY DEF Chosen
<1> QED  BY <1>1, FS_RemoveElement, FS_CardinalityType

\* f[s] is the reporter after those of s, for the s in D.
After(f, D, rep) ==
    f = [s \in D |-> IF s = {} THEN rep ELSE ReportUsageDelta(Chosen(s), f[s \ {Chosen(s)}])]

UpTo(cs, n) == {s \in SUBSET cs : Cardinality(s) <= n}

LEMMA AfterExists ==
    ASSUME NEW cs, IsFiniteSet(cs), NEW rep
    PROVE  \E f : After(f, SUBSET cs, rep)
<1> DEFINE Fails1 == {n \in Nat : ~\E f : After(f, UpTo(cs, n), rep)}
<1>0. \A s \in SUBSET cs : IsFiniteSet(s) /\ Cardinality(s) \in Nat
  BY FS_Subset, FS_CardinalityType
<1>1. Fails1 = {}
  <2> SUFFICES ASSUME Fails1 # {} PROVE FALSE  OBVIOUS
  <2>1. PICK n \in Fails1 : \A m \in Fails1 : n <= m
    <3>1. Fails1 \subseteq Nat  OBVIOUS
    <3> HIDE DEF Fails1
    <3> QED  BY <3>1, LeastNat
  <2>2. n \in Nat /\ ~\E f : After(f, UpTo(cs, n), rep)  OBVIOUS
  <2>3. CASE n = 0
    <3> DEFINE f == [s \in UpTo(cs, 0) |-> rep]
    <3>1. \A s \in UpTo(cs, 0) : s = {}
      <4> TAKE s \in UpTo(cs, 0)
      <4>1. IsFiniteSet(s) /\ Cardinality(s) = 0  BY <1>0 DEF UpTo
      <4> QED  BY <4>1, FS_EmptySet
    <3>2. After(f, UpTo(cs, 0), rep)  BY <3>1 DEF After
    <3> QED  BY <2>2, <2>3, <3>2
  <2>4. CASE n # 0
    <3>1. n - 1 \in Nat /\ ~(n <= n - 1)  BY <2>2, <2>4
    <3>2. PICK f : After(f, UpTo(cs, n - 1), rep)  BY <2>1, <3>1
    <3> DEFINE g == [s \in UpTo(cs, n) |->
                        IF s = {} THEN rep ELSE ReportUsageDelta(Chosen(s), f[s \ {Chosen(s)}])]
    <3>3. \A s \in UpTo(cs, n) : s # {} => s \ {Chosen(s)} \in UpTo(cs, n - 1)
      <4> TAKE s \in UpTo(cs, n)
      <4> HAVE s # {}
      <4>1. s \subseteq cs /\ IsFiniteSet(s) /\ Cardinality(s) <= n  BY <1>0 DEF UpTo
      <4>2. Cardinality(s \ {Chosen(s)}) = Cardinality(s) - 1 /\ Cardinality(s) \in Nat
        BY <4>1, Smaller
      <4> QED  BY <2>2, <4>1, <4>2 DEF UpTo
    <3>4. \A s \in UpTo(cs, n - 1) : s \in UpTo(cs, n)
      <4> TAKE s \in UpTo(cs, n - 1)
      <4>1. s \in SUBSET cs /\ Cardinality(s) <= n - 1 /\ Cardinality(s) \in Nat  BY <1>0 DEF UpTo
      <4> QED  BY <2>2, <4>1 DEF UpTo
    <3>5. \A s \in UpTo(cs, n - 1) : g[s] = f[s]  BY <3>2, <3>4 DEF After
    <3>6. \A s \in UpTo(cs, n) :
            g[s] = IF s = {} THEN rep ELSE ReportUsageDelta(Chosen(s), g[s \ {Chosen(s)}])
      <4> TAKE s \in UpTo(cs, n)
      <4>1. CASE s = {}  BY <4>1
      <4>2. CASE s # {}
        <5>1. g[s] = ReportUsageDelta(Chosen(s), f[s \ {Chosen(s)}])  BY <4>2
        <5>2. g[s \ {Chosen(s)}] = f[s \ {Chosen(s)}]  BY <3>3, <3>5, <4>2
        <5> HIDE DEF g
        <5> QED  BY <4>2, <5>1, <5>2
      <4> QED  BY <4>1, <4>2
    <3>7. g = [s \in UpTo(cs, n) |-> g[s]]  OBVIOUS
    <3> HIDE DEF g
    <3>8. After(g, UpTo(cs, n), rep)  BY <3>6, <3>7 DEF After
    <3> QED  BY <2>2, <3>8
  <2> QED  BY <2>3, <2>4
<1>2. Cardinality(cs) \in Nat  BY FS_CardinalityType
<1>3. UpTo(cs, Cardinality(cs)) = SUBSET cs
  <2>1. ASSUME NEW s \in SUBSET cs PROVE Cardinality(s) <= Cardinality(cs)  BY FS_Subset
  <2> QED  BY <2>1 DEF UpTo
<1>4. \E f : After(f, UpTo(cs, Cardinality(cs)), rep)  BY <1>1, <1>2
<1> QED  BY <1>3, <1>4

LEMMA ReportAllAfter ==
    ASSUME NEW cs, IsFiniteSet(cs), NEW rep
    PROVE  \E f : After(f, SUBSET cs, rep) /\ ReportAll(cs, rep) = f[cs]
<1> DEFINE after == CHOOSE f : f = [s \in SUBSET cs |->
                        IF s = {} THEN rep ELSE ReportUsageDelta(Chosen(s), f[s \ {Chosen(s)}])]
<1>0. PICK h : After(h, SUBSET cs, rep)  BY AfterExists
<1>1. after = [s \in SUBSET cs |->
                 IF s = {} THEN rep ELSE ReportUsageDelta(Chosen(s), after[s \ {Chosen(s)}])]
  BY <1>0 DEF After
<1>2. ReportAll(cs, rep) = after[cs]  BY DEF ReportAll, Chosen
<1> HIDE DEF after
<1>3. After(after, SUBSET cs, rep)  BY <1>1 DEF After
<1> QED  BY <1>2, <1>3

\* The batch has room for the delta of each of s.
Fits(rep, s) == Cardinality(rep.buffer) + Cardinality(Reporting(s)) < FlushMaxEvents

Cleared(s) == [c \in Connection |-> IF c \in s THEN {} ELSE unreported[c]]

LEMMA ReportAllKeeps ==
    ASSUME NEW cs, IsFiniteSet(cs), cs \subseteq Connection,
           NEW rep, NEW N, Ledger(unreported, rep, billed, lost, N)
    PROVE  /\ Ledger(Cleared(cs), ReportAll(cs, rep), billed, lost, N)
           /\ NoneAtExit(rep) => NoneAtExit(ReportAll(cs, rep))
           /\ \A S : (Without(S, rep) /\ \A c \in cs : unreported[c] \cap S = {})
                         => /\ Without(S, ReportAll(cs, rep))
                            /\ Awaited(S, rep) => Awaited(S, ReportAll(cs, rep))
           /\ Fits(rep, cs) => ReportAll(cs, rep).posts = rep.posts
<1>1. PICK f : After(f, SUBSET cs, rep) /\ ReportAll(cs, rep) = f[cs]  BY ReportAllAfter
<1> DEFINE P(s) == /\ Ledger(Cleared(s), f[s], billed, lost, N)
                   /\ NoneAtExit(rep) => NoneAtExit(f[s])
                   /\ \A S : (Without(S, rep) /\ \A c \in s : unreported[c] \cap S = {})
                                 => Without(S, f[s]) /\ (Awaited(S, rep) => Awaited(S, f[s]))
                   /\ Fits(rep, s)
                        => /\ f[s].posts = rep.posts
                           /\ Cardinality(f[s].buffer)
                                 <= Cardinality(rep.buffer) + Cardinality(Reporting(s))
           Bad == {n \in Nat : \E s \in SUBSET cs : Cardinality(s) = n /\ ~P(s)}
<1>2. \A s \in SUBSET cs : IsFiniteSet(s) /\ Cardinality(s) \in Nat  BY FS_Subset, FS_CardinalityType
<1>3. ASSUME NEW s \in SUBSET cs PROVE f[s] = IF s = {} THEN rep ELSE ReportUsageDelta(Chosen(s), f[s \ {Chosen(s)}])
  BY <1>1 DEF After
<1>4. P({})
  <2>1. f[{}] = rep  BY <1>3
  <2>2. unreported \in [Connection -> SUBSET (1..N)]  BY DEF Ledger
  <2>3. Cleared({}) = unreported  BY <2>2 DEF Cleared
  <2>4. Cardinality(Reporting({})) = 0  BY FS_EmptySet DEF Reporting
  <2>5. Cardinality(rep.buffer) \in Nat
    BY EventsFinite, FS_Subset, FS_CardinalityType DEF Ledger, Reporter
  <2>6. Cardinality(rep.buffer) <= Cardinality(rep.buffer) + Cardinality(Reporting({}))  BY <2>4, <2>5
  <2> QED  BY <2>1, <2>3, <2>6
<1>5. ASSUME NEW s \in SUBSET cs, s # {}, P(s \ {Chosen(s)}) PROVE P(s)
  <2> DEFINE t == s \ {Chosen(s)}
  <2>1. Chosen(s) \in s /\ Chosen(s) \in Connection  BY <1>2, <1>5, Smaller
  <2>2. PICK c \in Connection : c = Chosen(s)  BY <2>1
  <2>3. c \in s /\ c \notin t /\ s = t \cup {c} /\ t \subseteq s  BY <2>1, <2>2
  <2>4. PICK r : r = f[t]  OBVIOUS
  <2>5. f[s] = Push([token |-> c[1], units |-> unreported[c]], r)
    BY <1>3, <1>5, <2>2, <2>4 DEF ReportUsageDelta
  <2>6. /\ Ledger(Cleared(t), r, billed, lost, N)
        /\ NoneAtExit(rep) => NoneAtExit(r)
        /\ \A S : (Without(S, rep) /\ \A d \in t : unreported[d] \cap S = {})
                      => Without(S, r) /\ (Awaited(S, rep) => Awaited(S, r))
        /\ Fits(rep, t)
             => /\ r.posts = rep.posts
                /\ Cardinality(r.buffer) <= Cardinality(rep.buffer) + Cardinality(Reporting(t))
    BY <1>5, <2>4
  <2> HIDE DEF t
  <2>7. Cleared(t)[c] = unreported[c]  BY <2>3 DEF Cleared
  <2>8. Cleared(s) = [Cleared(t) EXCEPT ![c] = {}]  BY <2>3 DEF Cleared
  <2>9. Ledger(Cleared(s), f[s], billed, lost, N)
    <3>1. PICK V : V = Cleared(t)  OBVIOUS
    <3>2. Ledger([V EXCEPT ![c] = {}], Push([token |-> c[1], units |-> V[c]], r), billed, lost, N)
      BY <2>6, <3>1, PushKeeps
    <3> QED  BY <2>5, <2>7, <2>8, <3>1, <3>2
  <2>10. r \in Reporter(N)  BY <2>6 DEF Ledger
  <2>11. PICK e : e = [token |-> c[1], units |-> unreported[c]]  OBVIOUS
  <2>12. NoneAtExit(rep) => NoneAtExit(f[s])  BY <2>5, <2>6, <2>10, <2>11, PushLeaves
  <2>13. ASSUME NEW S, Without(S, rep), \A d \in s : unreported[d] \cap S = {}
         PROVE  Without(S, f[s]) /\ (Awaited(S, rep) => Awaited(S, f[s]))
    <3>1. Without(S, r) /\ (Awaited(S, rep) => Awaited(S, r))  BY <2>3, <2>6, <2>13
    <3>2. e.units \cap S = {}  BY <2>3, <2>11, <2>13
    <3> QED  BY <2>5, <2>10, <2>11, <3>1, <3>2, PushLeaves
  <2>14. ASSUME Fits(rep, s)
         PROVE  /\ f[s].posts = rep.posts
                /\ Cardinality(f[s].buffer) <= Cardinality(rep.buffer) + Cardinality(Reporting(s))
    <3>1. /\ IsFiniteSet(Reporting(s)) /\ Cardinality(Reporting(s)) \in Nat
          /\ IsFiniteSet(Reporting(t)) /\ Cardinality(Reporting(t)) \in Nat
          /\ Cardinality(Reporting(t)) <= Cardinality(Reporting(s))
      <4>1. IsFiniteSet(s) /\ Reporting(s) \subseteq s /\ Reporting(t) \subseteq Reporting(s)
        BY <1>2, <2>3 DEF Reporting
      <4> QED  BY <4>1, FS_Subset, FS_CardinalityType
    <3>2. Cardinality(rep.buffer) \in Nat /\ Cardinality(r.buffer) \in Nat /\ N \in Nat
      BY <2>10, EventsFinite, FS_Subset, FS_CardinalityType DEF Ledger, Reporter
    <3>3. Fits(rep, t)  BY <2>14, <3>1, <3>2 DEF Fits
    <3>4. /\ r.posts = rep.posts
          /\ Cardinality(r.buffer) <= Cardinality(rep.buffer) + Cardinality(Reporting(t))
      BY <2>6, <3>3
    <3>5. CASE unreported[c] = {}
      <4>1. f[s] = r  BY <2>5, <3>5 DEF Push
      <4> QED  BY <3>1, <3>2, <3>4, <4>1
    <3>6. CASE unreported[c] # {}
      <4>1. Reporting(s) = Reporting(t) \cup {c} /\ c \notin Reporting(t)  BY <2>3, <3>6 DEF Reporting
      <4>2. Cardinality(Reporting(s)) = Cardinality(Reporting(t)) + 1  BY <3>1, <4>1, FS_AddElement
      <4>3. Cardinality(r.buffer) + 1 < FlushMaxEvents  BY <2>14, <3>1, <3>2, <3>4, <4>2 DEF Fits
      <4>4. /\ f[s].posts = r.posts /\ Cardinality(f[s].buffer) \in Nat
            /\ Cardinality(f[s].buffer) <= Cardinality(r.buffer) + 1
        BY <2>5, <2>10, <3>2, <4>3, PushFits
      <4> QED  BY <3>1, <3>2, <3>4, <4>2, <4>4
    <3> QED  BY <3>5, <3>6
  <2> QED  BY <2>9, <2>12, <2>13, <2>14
<1> HIDE DEF P
<1>6. Bad = {}
  <2> SUFFICES ASSUME Bad # {} PROVE FALSE  OBVIOUS
  <2>1. PICK n \in Bad : \A m \in Bad : n <= m
    <3>1. Bad \subseteq Nat  OBVIOUS
    <3> HIDE DEF Bad
    <3> QED  BY <3>1, LeastNat
  <2>2. PICK s \in SUBSET cs : Cardinality(s) = n /\ ~P(s)  OBVIOUS
  <2>3. s # {}  BY <1>4, <2>2
  <2>4. /\ Cardinality(s \ {Chosen(s)}) \in Nat
        /\ Cardinality(s \ {Chosen(s)}) = Cardinality(s) - 1
    BY <1>2, <2>3, Smaller
  <2>5. ~P(s \ {Chosen(s)})  BY <1>5, <2>2, <2>3
  <2>6. Cardinality(s \ {Chosen(s)}) \in Bad  BY <2>4, <2>5
  <2>7. n <= n - 1  BY <2>1, <2>2, <2>4, <2>6
  <2> QED  BY <2>7, <2>1
<1>7. P(cs)  BY <1>2, <1>6
<1> QED  BY <1>1, <1>7 DEF P

LEMMA Triples ==
    ASSUME NEW A, NEW B, NEW C, IsFiniteSet(A), IsFiniteSet(B), IsFiniteSet(C)
    PROVE  IsFiniteSet(A \X B \X C)
<1> DEFINE D == (A \X B) \X C
           f == [x \in D |-> <<x[1][1], x[1][2], x[2]>>]
<1>1. IsFiniteSet(D)
  <2>1. IsFiniteSet(A \X B)  BY FS_Product
  <2> QED  BY <2>1, FS_Product
<1>2. ASSUME NEW a \in A, NEW b \in B, NEW c \in C PROVE \E x \in D : f[x] = <<a, b, c>>
  <2>1. <<<<a, b>>, c>> \in D /\ f[<<<<a, b>>, c>>] = <<a, b, c>>  OBVIOUS
  <2> QED  BY <2>1
<1>3. f \in [D -> A \X B \X C]  OBVIOUS
<1> HIDE DEF f, D
<1>4. ASSUME NEW t \in A \X B \X C PROVE \E x \in D : f[x] = t
  <2>1. PICK a \in A, b \in B, c \in C : t = <<a, b, c>>  OBVIOUS
  <2> QED  BY <1>2, <2>1
<1>5. f \in Surjection(D, A \X B \X C)  BY <1>3, <1>4 DEF Surjection
<1> QED  BY <1>1, <1>5, FS_Surjection

LEMMA FinitelyMany ==
    ASSUME NEW cs, cs \subseteq Connection
    PROVE  IsFiniteSet(cs)
<1>1. IsFiniteSet(Proxies) /\ IsFiniteSet(Sources) /\ IsFiniteSet(Languages) /\ IsFiniteSet(Spellings)
  OBVIOUS
<1>2. IsFiniteSet(Requests)  BY <1>1, Triples DEF Requests
<1>3. IsFiniteSet(0..1)
  <2>1. PICK n \in Int : n = 1  OBVIOUS
  <2>2. IsFiniteSet(0..n)  BY FS_Interval
  <2> QED  BY <2>1, <2>2
<1>4. IsFiniteSet(Connection)  BY <1>1, <1>2, <1>3, Triples DEF Connection
<1> QED  BY <1>4, FS_Subset
-----------------------------------------------------------------------------
Early == (1..units) \ late

\* The units that the SIGTERM handler is to see through.
Owed == Early \ underway

\* The units are booked; once SIGTERM has come, none of those before it waits for a
\* report, and, if the last deltas fitted the batch, those owed are in posts it waits for;
\* once its drain is over, no such post is left.
Booked ==
    /\ Ledger(unreported, reporter, billed, lost, units)
    /\ \A c \in Connection \ live : unreported[c] = {}
    /\ phase # "up" => Without(Early, reporter) /\ \A c \in Connection : unreported[c] \cap Early = {}
    /\ phase # "up" /\ fits => Awaited(Owed, reporter)
    /\ phase \in {"closing", "exited"} => NoneAtExit(reporter)

LEMMA InitBooked == Init => Booked
<1> SUFFICES ASSUME Init PROVE Booked  OBVIOUS
<1>1. /\ unreported = [c \in Connection |-> {}] /\ reporter = [buffer |-> {}, posts |-> {}, timer |-> FALSE]
      /\ billed = {} /\ lost = {} /\ units = 0 /\ phase = "up"
  BY DEF Init
<1>2. 1..0 = {}  OBVIOUS
<1>3. reporter \in Reporter(0)  BY <1>1 DEF Reporter
<1>4. unreported \in [Connection -> SUBSET (1..0)]  BY <1>1
<1>5. Ledger(unreported, reporter, billed, lost, units)  BY <1>1, <1>2, <1>3, <1>4 DEF Ledger
<1> QED  BY <1>1, <1>5 DEF Booked

\* Some connections report and close.
LEMMA CloseBooked ==
    ASSUME Booked, NEW cs, cs \subseteq Connection, Reported(cs),
           reporter' \in {CloseAll(cs), Flush(CloseAll(cs), FALSE)},
           UNCHANGED <<phase, units, late, underway, fits, billed, lost>>,
           \A c \in Connection \ live' : c \in cs \/ c \notin live
    PROVE  Booked'
<1> DEFINE rep == CloseAll(cs)
<1>1. unreported' = Cleared(cs)  BY DEF Reported, Cleared
<1>2. /\ Ledger(Cleared(cs), rep, billed, lost, units)
      /\ NoneAtExit(reporter) => NoneAtExit(rep)
      /\ \A S : (Without(S, reporter) /\ \A c \in cs : unreported[c] \cap S = {})
                    => Without(S, rep) /\ (Awaited(S, reporter) => Awaited(S, rep))
  BY FinitelyMany, ReportAllKeeps DEF CloseAll, Booked
<1> HIDE DEF rep
<1>3. reporter' = rep \/ reporter' = Flush(rep, FALSE)  BY DEF rep
<1>4. Ledger(unreported', reporter', billed', lost', units')
  <2>1. Ledger(Cleared(cs), Flush(rep, FALSE), billed, lost, units)  BY <1>2, FlushKeeps
  <2> QED  BY <1>1, <1>2, <1>3, <2>1
<1>5. NoneAtExit(reporter) => NoneAtExit(reporter')  BY <1>2, <1>3, FlushLeaves
<1>6. ASSUME phase # "up"
      PROVE  Without(Early, reporter') /\ \A c \in Connection : unreported'[c] \cap Early = {}
  <2>1. Without(Early, reporter) /\ \A c \in Connection : unreported[c] \cap Early = {}
    BY <1>6 DEF Booked
  <2>2. Without(Early, rep)  BY <1>2, <2>1
  <2>3. Without(Early, reporter')  BY <1>3, <2>2, FlushLeaves
  <2> QED  BY <1>1, <2>1, <2>3 DEF Cleared
<1>7. \A c \in Connection \ live' : unreported'[c] = {}  BY <1>1 DEF Booked, Cleared
<1>8. Early' = Early /\ Owed' = Owed  BY DEF Early, Owed
<1>9. ASSUME phase # "up", fits PROVE Awaited(Owed, reporter')
  <2>1. /\ Without(Owed, reporter) /\ Awaited(Owed, reporter)
        /\ \A c \in Connection : unreported[c] \cap Owed = {}
    BY <1>9 DEF Booked, Without, Owed
  <2>2. Without(Owed, rep) /\ Awaited(Owed, rep)  BY <1>2, <2>1
  <2> QED  BY <1>3, <2>2, FlushLeaves
<1> QED  BY <1>4, <1>5, <1>6, <1>7, <1>8, <1>9 DEF Booked, Without, NoneAtExit, Awaited

\* One of them reports, and may close.
LEMMA ReportBooked ==
    ASSUME Booked, NEW c \in Connection, Reported({c}), reporter' = ReportUsageDelta(c, reporter),
           UNCHANGED <<phase, units, late, underway, fits, billed, lost>>, live \ {c} \subseteq live'
    PROVE  Booked'
<1>1. /\ Ledger(unreported, reporter, billed, lost, units)
      /\ unreported \in [Connection -> SUBSET (1..units)] /\ reporter \in Reporter(units)
  BY DEF Booked, Ledger
<1>2. unreported' = [unreported EXCEPT ![c] = {}]  BY <1>1 DEF Reported
<1>3. Ledger(unreported', reporter', billed, lost, units)
  BY <1>1, <1>2, PushKeeps DEF ReportUsageDelta
<1>4. PICK e : e = [token |-> c[1], units |-> unreported[c]]  OBVIOUS
<1>5. reporter' = Push(e, reporter) /\ e.units = unreported[c]  BY <1>4 DEF ReportUsageDelta
<1>6. NoneAtExit(reporter) => NoneAtExit(reporter')  BY <1>1, <1>5, PushLeaves
<1>7. ASSUME phase # "up"
      PROVE  Without(Early, reporter') /\ \A d \in Connection : unreported'[d] \cap Early = {}
  <2>1. Without(Early, reporter) /\ \A d \in Connection : unreported[d] \cap Early = {}
    BY <1>7 DEF Booked
  <2>2. Without(Early, reporter')  BY <1>1, <1>5, <2>1, PushLeaves
  <2> QED  BY <1>1, <1>2, <2>1, <2>2
<1>8. \A d \in Connection \ live' : unreported'[d] = {}  BY <1>1, <1>2 DEF Booked
<1>9. Early' = Early /\ Owed' = Owed  BY DEF Early, Owed
<1>10. ASSUME phase # "up", fits PROVE Awaited(Owed, reporter')
  <2>1. /\ Without(Owed, reporter) /\ Awaited(Owed, reporter) /\ unreported[c] \cap Owed = {}
    BY <1>10 DEF Booked, Without, Owed
  <2> QED  BY <1>1, <1>5, <2>1, PushLeaves
<1> QED  BY <1>3, <1>6, <1>7, <1>8, <1>9, <1>10 DEF Booked, Without, NoneAtExit, Awaited

\* A connection appends one more unit.
LEMMA AppendBooked ==
    ASSUME Booked, NEW c \in Connection, Appends(c), c \in live', live \subseteq live',
           UNCHANGED <<phase, reporter, billed, lost, underway, fits>>
    PROVE  Booked'
<1> DEFINE n == units + 1
<1>1. /\ units' = n /\ unreported' = [unreported EXCEPT ![c] = @ \cup {n}]
      /\ late' = IF phase = "up" THEN late ELSE late \cup {n}
  BY DEF Appends
<1>2. /\ units \in Nat /\ unreported \in [Connection -> SUBSET (1..units)]
      /\ reporter \in Reporter(units) /\ billed \subseteq Proxies \X (1..units)
      /\ lost \subseteq Proxies \X (1..units)
  BY DEF Booked, Ledger
<1> HIDE DEF n
<1>3. n \in Nat /\ n \notin 1..units /\ 1..n = 1..units \cup {n}  BY <1>2 DEF n
<1>4. /\ unreported' \in [Connection -> SUBSET (1..n)]
      /\ billed \subseteq Proxies \X (1..n) /\ lost \subseteq Proxies \X (1..n)
  BY <1>1, <1>2, <1>3
<1>5. reporter \in Reporter(n)
  <2>1. Event(units) \subseteq Event(n) /\ Post(units) \subseteq Post(n)  BY <1>3 DEF Event, Post
  <2> QED  BY <1>2, <2>1 DEF Reporter
<1>6. /\ reporter.buffer \subseteq Event(units) /\ reporter.posts \subseteq Post(units)
  BY <1>2 DEF Reporter
<1>7. unreported'[c] = unreported[c] \cup {n} /\ \A d \in Connection : d # c => unreported'[d] = unreported[d]
  BY <1>1, <1>2
<1>8. ASSUME NEW m \in 1..n PROVE One(m, unreported', reporter, billed, lost)
  <2>1. CASE m = n
    <3>1. At("connection", c, m, unreported', reporter, billed, lost)  BY <1>7, <2>1 DEF At
    <3>2. ASSUME NEW j, NEW y, At(j, y, m, unreported', reporter, billed, lost)
          PROVE  j = "connection" /\ y = c
      <4>1. j = "connection" => y = c  BY <1>2, <1>3, <1>7, <2>1, <3>2 DEF At
      <4>2. j # "buffer"
        <5>1. j = "buffer" => y \in Event(units) /\ n \in y.units  BY <1>6, <2>1, <3>2 DEF At
        <5> QED  BY <1>3, <5>1 DEF Event
      <4>3. j # "post"
        <5>1. j = "post" => y \in Post(units) /\ n \in y.units  BY <1>6, <2>1, <3>2 DEF At
        <5> QED  BY <1>3, <5>1 DEF Post
      <4>4. j # "billed" /\ j # "lost"
        <5>1. j \in {"billed", "lost"} => y \in Proxies \X (1..units) /\ y[2] = n
          BY <1>2, <2>1, <3>2 DEF At
        <5> QED  BY <1>3, <5>1
      <4> QED  BY <3>2, <4>1, <4>2, <4>3, <4>4 DEF At
    <3> QED  BY <3>1, <3>2, OneIs
  <2>2. CASE m \in 1..units
    <3>1. PICK k, x : /\ At(k, x, m, unreported, reporter, billed, lost)
                      /\ \A j, y : At(j, y, m, unreported, reporter, billed, lost) => j = k /\ y = x
      BY <2>2 DEF Booked, Ledger, One
    <3>2. m # n  BY <1>3, <2>2
    <3>3. At(k, x, m, unreported', reporter, billed, lost)  BY <1>7, <3>1, <3>2 DEF At
    <3>4. ASSUME NEW j, NEW y, At(j, y, m, unreported', reporter, billed, lost)
          PROVE  At(j, y, m, unreported, reporter, billed, lost)
      BY <1>7, <3>2, <3>4 DEF At
    <3> QED  BY <3>1, <3>3, <3>4 DEF One
  <2> QED  BY <1>3, <2>1, <2>2
<1>9. Ledger(unreported', reporter', billed', lost', units')  BY <1>1, <1>3, <1>4, <1>5, <1>8 DEF Ledger
<1>10. \A d \in Connection \ live' : unreported'[d] = {}  BY <1>7 DEF Booked
<1>11. ASSUME phase # "up"
       PROVE  Without(Early', reporter) /\ \A d \in Connection : unreported'[d] \cap Early' = {}
  <2>1. Early' = Early
    <3>1. Early' = (1..n) \ (late \cup {n})  BY <1>1, <1>11 DEF Early
    <3> QED  BY <1>3, <3>1 DEF Early
  <2>2. n \notin Early  BY <1>3 DEF Early
  <2> QED  BY <1>7, <1>11, <2>1, <2>2 DEF Booked
<1>12. ASSUME phase # "up" PROVE Owed' = Owed
  <2>1. (1..n) \ (late \cup {n}) = (1..units) \ late  BY <1>3
  <2> QED  BY <1>1, <1>12, <2>1 DEF Early, Owed
<1> QED  BY <1>9, <1>10, <1>11, <1>12 DEF Booked, Without, NoneAtExit, Awaited

\* A post ends, and its units are through.
LEMMA PostBooked ==
    ASSUME Booked, NEW post \in reporter.posts, PostEnds(post)
    PROVE  Booked'
<1> DEFINE new == {post.token} \X post.units
<1>1. /\ reporter' = [reporter EXCEPT !.posts = @ \ {post}]
      /\ UNCHANGED <<phase, live, unreported, units, late, underway, fits>>
      /\ \/ billed' = billed \cup new /\ lost' = lost
         \/ lost' = lost \cup new /\ billed' = billed
  BY DEF PostEnds, audio, aside
<1>2. /\ units \in Nat /\ unreported \in [Connection -> SUBSET (1..units)]
      /\ reporter \in Reporter(units) /\ billed \subseteq Proxies \X (1..units)
      /\ lost \subseteq Proxies \X (1..units) /\ post \in Post(units)
  BY DEF Booked, Ledger, Reporter
<1>3. /\ reporter' \in Reporter(units) /\ reporter'.buffer = reporter.buffer
      /\ reporter'.posts = reporter.posts \ {post}
  BY <1>1, <1>2 DEF Reporter
<1>4. new \subseteq Proxies \X (1..units) /\ \A y \in new : y = <<post.token, y[2]>> /\ y[2] \in post.units
  BY <1>2 DEF Post
<1>5. \A n \in post.units : <<post.token, n>> \in new  OBVIOUS
<1> HIDE DEF new
<1>6. ASSUME NEW n \in 1..units PROVE One(n, unreported, reporter', billed', lost')
  <2>1. PICK k, x : /\ At(k, x, n, unreported, reporter, billed, lost)
                    /\ \A j, y : At(j, y, n, unreported, reporter, billed, lost) => j = k /\ y = x
    BY DEF Booked, Ledger, One
  <2>2. CASE n \in post.units
    <3>1. k = "post" /\ x = post  BY <2>1, <2>2 DEF At
    <3>2. PICK z : z = <<post.token, n>>  OBVIOUS
    <3>3. z \in new /\ z[2] = n  BY <1>5, <2>2, <3>2
    <3>4. \A j, y : At(j, y, n, unreported, reporter, billed, lost) => j = "post" /\ y = post
      BY <2>1, <3>1
    <3>5. CASE billed' = billed \cup new /\ lost' = lost
      <4>1. At("billed", z, n, unreported, reporter', billed', lost')  BY <3>3, <3>5 DEF At
      <4>2. ASSUME NEW j, NEW y, At(j, y, n, unreported, reporter', billed', lost')
            PROVE  j = "billed" /\ y = z
        <5>1. ~At(j, y, n, unreported, reporter, billed, lost)  BY <1>3, <3>4, <3>5, <4>2 DEF At
        <5>2. j = "billed" /\ y \in new /\ y[2] = n  BY <1>3, <3>5, <4>2, <5>1 DEF At
        <5> QED  BY <1>4, <3>2, <5>2
      <4> QED  BY <4>1, <4>2, OneIs
    <3>6. CASE lost' = lost \cup new /\ billed' = billed
      <4>1. At("lost", z, n, unreported, reporter', billed', lost')  BY <3>3, <3>6 DEF At
      <4>2. ASSUME NEW j, NEW y, At(j, y, n, unreported, reporter', billed', lost')
            PROVE  j = "lost" /\ y = z
        <5>1. ~At(j, y, n, unreported, reporter, billed, lost)  BY <1>3, <3>4, <3>6, <4>2 DEF At
        <5>2. j = "lost" /\ y \in new /\ y[2] = n  BY <1>3, <3>6, <4>2, <5>1 DEF At
        <5> QED  BY <1>4, <3>2, <5>2
      <4> QED  BY <4>1, <4>2, OneIs
    <3> QED  BY <1>1, <3>5, <3>6
  <2>3. CASE n \notin post.units
    <3>1. \A y \in new : y[2] # n  BY <1>4, <2>3
    <3>2. At(k, x, n, unreported, reporter', billed', lost')  BY <1>1, <1>3, <2>1, <2>3 DEF At
    <3>3. ASSUME NEW j, NEW y, At(j, y, n, unreported, reporter', billed', lost')
          PROVE  At(j, y, n, unreported, reporter, billed, lost)
      BY <1>1, <1>3, <3>1, <3>3 DEF At
    <3> QED  BY <2>1, <3>2, <3>3 DEF One
  <2> QED  BY <2>2, <2>3
<1>7. Ledger(unreported', reporter', billed', lost', units')
  <2>1. billed' \subseteq Proxies \X (1..units) /\ lost' \subseteq Proxies \X (1..units)
    BY <1>1, <1>2, <1>4
  <2> QED  BY <1>1, <1>2, <1>3, <1>6, <2>1 DEF Ledger
<1>8. Early' = Early /\ Owed' = Owed  BY <1>1 DEF Early, Owed
<1> QED  BY <1>1, <1>3, <1>7, <1>8 DEF Booked, Without, NoneAtExit, Awaited

\* What changes no unit's place.
LEMMA SameBooked ==
    ASSUME Booked, UNCHANGED <<audio, reporter, outcome, underway, fits>>, live \subseteq live', phase' = phase
    PROVE  Booked'
<1>1. UNCHANGED <<unreported, units, late, billed, lost>>  BY DEF audio, outcome
<1>2. Early' = Early /\ Owed' = Owed  BY <1>1 DEF Early, Owed
<1> QED  BY <1>1, <1>2 DEF Booked, Without, NoneAtExit, Awaited

\* SIGTERM: every connection reports, and the buffer is drained.
LEMMA SigtermBooked ==
    ASSUME IInv, Booked, Sigterm
    PROVE  Booked'
<1>1. /\ phase' = "draining" /\ reporter' = Flush(CloseAll(connections), TRUE) /\ Reported(connections)
      /\ live' = live \ connections /\ UNCHANGED <<units, late, billed, lost>>
      /\ underway' = UNION {post.units : post \in reporter.posts} /\ fits' = Fits(reporter, connections)
  BY DEF Sigterm, Drain, outcome, Fits
<1>2. connections \subseteq Connection /\ connections = live  BY DEF IInv, Kinds, Registered
<1>3. unreported' = Cleared(connections)  BY <1>1 DEF Reported, Cleared
<1>4. Ledger(Cleared(connections), CloseAll(connections), billed, lost, units)
  BY <1>2, FinitelyMany, ReportAllKeeps DEF CloseAll, Booked
<1>5. Ledger(unreported', reporter', billed', lost', units')  BY <1>1, <1>3, <1>4, FlushKeeps
<1>6. \A c \in Connection : unreported'[c] = {}  BY <1>2, <1>3 DEF Booked, Cleared
<1>7. Without(Early', reporter')
  <2>1. PICK S : S = Early'  OBVIOUS
  <2>2. Without(S, Flush(CloseAll(connections), TRUE))  BY FlushLeaves
  <2> QED  BY <1>1, <2>1, <2>2 DEF Without
<1>8. ASSUME fits' PROVE Awaited(Owed', reporter')
  <2>1. CloseAll(connections).posts = reporter.posts
    BY <1>1, <1>2, <1>8, FinitelyMany, ReportAllKeeps DEF CloseAll, Booked
  <2>2. \A b \in reporter.posts : b.units \subseteq underway'  BY <1>1
  <2>3. Awaited(Owed', CloseAll(connections))  BY <2>1, <2>2 DEF Awaited, Owed
  <2>4. PICK S : S = Owed'  OBVIOUS
  <2>5. Awaited(S, Flush(CloseAll(connections), TRUE))  BY <2>3, <2>4, FlushLeaves DEF Awaited
  <2> QED  BY <1>1, <2>4, <2>5 DEF Awaited
<1> QED  BY <1>1, <1>5, <1>6, <1>7, <1>8 DEF Booked, Without, Awaited

LEMMA BookedStep == IInv /\ Booked /\ [Next]_vars => Booked'
<1> SUFFICES ASSUME IInv, Booked, [Next]_vars PROVE Booked'  OBVIOUS
<1>1. CASE UNCHANGED <<audio, reporter, outcome, underway, fits>> /\ live \subseteq live' /\ phase' = phase
  BY <1>1, SameBooked
<1>2. connections \subseteq Connection /\ \A p : Own(p) \subseteq connections
  BY DEF IInv, Kinds, Own
<1>3. ASSUME NEW p \in Proxies, Connect(p) PROVE Booked'  BY <1>1, <1>3 DEF Connect
<1>4. ASSUME NEW p \in Proxies, HandleSources(p) PROVE Booked'
  <2>1. PICK wanted \in SUBSET Requests :
          /\ reporter' = CloseAll(NotRequested(wanted, p)) /\ Reported(NotRequested(wanted, p))
          /\ \E new \in Opened(p, wanted, connections \ NotRequested(wanted, p)) :
                live' = (live \ NotRequested(wanted, p)) \cup new
    BY <1>4 DEF HandleSources
  <2>2. NotRequested(wanted, p) \subseteq Connection  BY <1>2 DEF NotRequested
  <2>3. UNCHANGED <<phase, units, late, underway, fits, billed, lost>>  BY <1>4 DEF HandleSources, outcome, aside
  <2>4. \A c \in Connection \ live' : c \in NotRequested(wanted, p) \/ c \notin live  BY <2>1
  <2> QED  BY <2>1, <2>2, <2>3, <2>4, CloseBooked
<1>5. ASSUME NEW p \in Proxies, BridgeCloses(p) PROVE Booked'
  <2>1. /\ reporter' \in {CloseAll(Own(p)), Flush(CloseAll(Own(p)), FALSE)} /\ Reported(Own(p))
        /\ live' = live \ Own(p) /\ UNCHANGED <<phase, units, late, underway, fits, billed, lost>>
    BY <1>5 DEF BridgeCloses, outcome, aside
  <2>2. \A c \in Connection \ live' : c \in Own(p) \/ c \notin live  BY <2>1
  <2>3. Own(p) \subseteq Connection  BY <1>2
  <2> QED  BY <2>1, <2>2, <2>3, CloseBooked
<1>6. ASSUME NEW p \in Proxies, NEW l \in DevLanguages, HandleStartTranslation(p, l) PROVE Booked'
  BY <1>1, <1>6 DEF HandleStartTranslation, aside
<1>7. ASSUME NEW p \in Proxies, NEW l \in DevLanguages, HandleStopTranslation(p, l) PROVE Booked'
  <2>1. PICK gone : gone = {c \in Own(p) : c[2][2] = l}  OBVIOUS
  <2>2. /\ reporter' = CloseAll(gone) /\ Reported(gone) /\ live' = live \ gone
        /\ UNCHANGED <<phase, units, late, underway, fits, billed, lost>>
    BY <1>7, <2>1 DEF HandleStopTranslation, outcome, aside
  <2>3. gone \subseteq Connection /\ \A c \in Connection \ live' : c \in gone \/ c \notin live
    BY <1>2, <2>1, <2>2
  <2> QED  BY <2>2, <2>3, CloseBooked
<1>8. ASSUME NEW p \in Proxies, NEW s \in Sources, HandleMediaEvent(p, s) PROVE Booked'
  <2>1. live \subseteq live' /\ UNCHANGED <<phase, reporter, outcome, underway, fits>>
    BY <1>8 DEF HandleMediaEvent, aside
  <2>2. CASE UNCHANGED audio  BY <1>1, <2>1, <2>2
  <2>3. CASE ~UNCHANGED audio
    <3>1. PICK c \in connections' : c \in live' /\ Appends(c)  BY <1>8, <2>3 DEF HandleMediaEvent
    <3>2. connections' \subseteq Connection  BY <1>8, MediaStep DEF IInv, Kinds
    <3> QED  BY <2>1, <3>1, <3>2, AppendBooked DEF outcome, aside
  <2> QED  BY <2>2, <2>3
<1>9. ASSUME NEW c \in Connection, Flushes(c) PROVE Booked'
  BY <1>9, AppendBooked DEF Flushes, outcome, aside
<1>10. ASSUME NEW c \in Connection, ReportTimer(c) PROVE Booked'
  BY <1>10, ReportBooked DEF ReportTimer, outcome, aside
<1>11. ASSUME NEW c \in Connection, Fails(c) PROVE Booked'
  BY <1>11, ReportBooked DEF Fails, outcome, aside
<1>12. ASSUME NEW post \in reporter.posts, PostEnds(post) PROVE Booked'  BY <1>12, PostBooked
<1>13. CASE FlushTimer
  <2>1. reporter' = Flush(reporter, FALSE) /\ UNCHANGED <<phase, live, unreported, units, late, billed, lost>>
        /\ UNCHANGED <<underway, fits>>
    BY <1>13 DEF FlushTimer, audio, outcome, aside
  <2>2. Ledger(unreported', reporter', billed', lost', units')  BY <2>1, FlushKeeps DEF Booked
  <2>3. NoneAtExit(reporter) => NoneAtExit(reporter')  BY <2>1, FlushLeaves
  <2>4. Without(Early, reporter') /\ Early' = Early  BY <2>1, FlushLeaves DEF Early
  <2>5. Owed' = Owed  BY <2>1 DEF Early, Owed
  <2>6. phase # "up" /\ fits => Awaited(Owed, reporter')
    BY <2>1, FlushLeaves DEF Booked, Without, Owed
  <2> QED  BY <2>1, <2>2, <2>3, <2>4, <2>5, <2>6 DEF Booked, Without, NoneAtExit, Awaited
<1>14. CASE Sigterm  BY <1>14, SigtermBooked
<1>15. CASE ServerCloses
  <2>1. /\ phase = "draining" /\ \A post \in reporter.posts : ~post.atExit
        /\ UNCHANGED <<live, unreported, units, late, reporter, billed, lost, underway, fits>>
    BY <1>15 DEF ServerCloses, audio, outcome, aside
  <2>2. Early' = Early /\ Owed' = Owed  BY <2>1 DEF Early, Owed
  <2> QED  BY <2>1, <2>2 DEF Booked, Without, NoneAtExit, Awaited
<1>16. CASE Exit
  <2>1. phase = "closing" /\ UNCHANGED <<live, unreported, units, late, reporter, billed, lost, underway, fits>>
    BY <1>16 DEF Exit, audio, outcome, aside
  <2>2. Early' = Early /\ Owed' = Owed  BY <2>1 DEF Early, Owed
  <2> QED  BY <2>1, <2>2 DEF Booked, Without, NoneAtExit, Awaited
<1>18. ASSUME NEW x \in Transcribers, TranscriberConnects(x) \/ TranscriberCloses(x) PROVE Booked'
  BY <1>1, <1>18 DEF TranscriberConnects, TranscriberCloses
<1>17. CASE UNCHANGED vars  BY <1>1, <1>17 DEF vars, aside
<1> QED  BY <1>3, <1>4, <1>5, <1>6, <1>7, <1>8, <1>9, <1>10, <1>11, <1>12, <1>13, <1>14, <1>15, <1>16,
            <1>17, <1>18 DEF Next

-----------------------------------------------------------------------------
(* Accounted and DrainedAtExit, from the ledger. *)
Where(k, y) == IF k \in {"connection", "buffer", "post"} THEN <<k, y>> ELSE <<k, y[1]>>
TokenOf(k, y) == IF k \in {"buffer", "post"} THEN y.token ELSE y[1]

\* What Places says of a unit, At says of it.
LEMMA PlaceIs ==
    ASSUME IInv, NEW p \in Proxies, NEW n, NEW x \in Places(p, n)
    PROVE  \E k, y : /\ At(k, y, n, unreported, reporter, billed, lost)
                     /\ x = Where(k, y) /\ p = TokenOf(k, y)
<1>1. CASE x \in Unreported(p, n)
  <2>1. PICK c \in live : c[1] = p /\ n \in unreported[c] /\ x = <<"connection", c>>
    BY <1>1 DEF Unreported
  <2>2. c \in Connection  BY DEF IInv, Kinds, Registered
  <2> QED  BY <2>1, <2>2 DEF At, Where, TokenOf
<1>2. CASE x \in Buffered(p, n)
  <2>1. PICK e \in reporter.buffer : e.token = p /\ n \in e.units /\ x = <<"buffer", e>>
    BY <1>2 DEF Buffered
  <2> QED  BY <2>1 DEF At, Where, TokenOf
<1>3. CASE x \in Posted(p, n)
  <2>1. PICK b \in reporter.posts : b.token = p /\ n \in b.units /\ x = <<"post", b>>
    BY <1>3 DEF Posted
  <2> QED  BY <2>1 DEF At, Where, TokenOf
<1>4. CASE x \in Done(p, n)
  <2>1. PICK y : y = <<p, n>>  OBVIOUS
  <2>2. \/ y \in billed /\ x = <<"billed", p>>
        \/ y \in lost /\ x = <<"lost", p>>
    BY <1>4, <2>1 DEF Done
  <2> QED  BY <2>1, <2>2 DEF At, Where, TokenOf
<1> QED  BY <1>1, <1>2, <1>3, <1>4 DEF Places

\* What At says of a unit, Places says of it.
LEMMA PlacedAt ==
    ASSUME Booked, NEW n, NEW k, NEW y, At(k, y, n, unreported, reporter, billed, lost)
    PROVE  TokenOf(k, y) \in Proxies /\ Where(k, y) \in Places(TokenOf(k, y), n)
<1>1. /\ unreported \in [Connection -> SUBSET (1..units)] /\ reporter \in Reporter(units)
      /\ billed \subseteq Proxies \X (1..units) /\ lost \subseteq Proxies \X (1..units)
  BY DEF Booked, Ledger
<1>2. CASE k = "connection" /\ y \in Connection /\ n \in unreported[y]
  <2>1. y \in live  BY <1>2 DEF Booked
  <2>2. y[1] \in Proxies /\ TokenOf(k, y) = y[1] /\ Where(k, y) = <<"connection", y>>
    BY <1>2 DEF Connection, TokenOf, Where
  <2>3. <<"connection", y>> \in Unreported(y[1], n)  BY <1>2, <2>1 DEF Unreported
  <2> QED  BY <2>2, <2>3 DEF Places
<1>3. CASE k = "buffer" /\ y \in reporter.buffer /\ n \in y.units
  <2>1. y \in Event(units)  BY <1>1, <1>3 DEF Reporter
  <2>2. y.token \in Proxies /\ TokenOf(k, y) = y.token /\ Where(k, y) = <<"buffer", y>>
    BY <1>3, <2>1 DEF Event, TokenOf, Where
  <2>3. <<"buffer", y>> \in Buffered(y.token, n)  BY <1>3 DEF Buffered
  <2> QED  BY <2>2, <2>3 DEF Places
<1>4. CASE k = "post" /\ y \in reporter.posts /\ n \in y.units
  <2>1. y \in Post(units)  BY <1>1, <1>4 DEF Reporter
  <2>2. y.token \in Proxies /\ TokenOf(k, y) = y.token /\ Where(k, y) = <<"post", y>>
    BY <1>4, <2>1 DEF Post, TokenOf, Where
  <2>3. <<"post", y>> \in Posted(y.token, n)  BY <1>4 DEF Posted
  <2> QED  BY <2>2, <2>3 DEF Places
<1>5. CASE k = "billed" /\ y \in billed /\ y[2] = n
  <2>1. y[1] \in Proxies /\ y = <<y[1], n>> /\ TokenOf(k, y) = y[1] /\ Where(k, y) = <<"billed", y[1]>>
    BY <1>1, <1>5 DEF TokenOf, Where
  <2>2. PICK p : p = y[1]  OBVIOUS
  <2>3. y \in billed \cap {<<p, n>>}  BY <1>5, <2>1, <2>2
  <2>4. <<"billed", p>> \in Done(p, n)  BY <2>3 DEF Done
  <2> QED  BY <2>1, <2>2, <2>4 DEF Places
<1>6. CASE k = "lost" /\ y \in lost /\ y[2] = n
  <2>1. y[1] \in Proxies /\ y = <<y[1], n>> /\ TokenOf(k, y) = y[1] /\ Where(k, y) = <<"lost", y[1]>>
    BY <1>1, <1>6 DEF TokenOf, Where
  <2>2. PICK p : p = y[1]  OBVIOUS
  <2>3. y \in lost \cap {<<p, n>>}  BY <1>6, <2>1, <2>2
  <2>4. <<"lost", p>> \in Done(p, n)  BY <2>3 DEF Done
  <2> QED  BY <2>1, <2>2, <2>4 DEF Places
<1> QED  BY <1>2, <1>3, <1>4, <1>5, <1>6 DEF At

LEMMA BookedAccounted == IInv /\ Booked => Accounted
<1> SUFFICES ASSUME IInv, Booked, NEW n \in 1..units
             PROVE  /\ \E p \in Proxies : Places(p, n) # {}
                    /\ \A p, q \in Proxies : \A x \in Places(p, n), y \in Places(q, n) : p = q /\ x = y
  BY DEF Accounted
<1>1. PICK k, z : /\ At(k, z, n, unreported, reporter, billed, lost)
                  /\ \A j, y : At(j, y, n, unreported, reporter, billed, lost) => j = k /\ y = z
  BY DEF Booked, Ledger, One
<1>2. TokenOf(k, z) \in Proxies /\ Places(TokenOf(k, z), n) # {}  BY <1>1, PlacedAt
<1>3. ASSUME NEW p \in Proxies, NEW x \in Places(p, n)
      PROVE  p = TokenOf(k, z) /\ x = Where(k, z)
  <2>1. PICK j, y : /\ At(j, y, n, unreported, reporter, billed, lost)
                    /\ x = Where(j, y) /\ p = TokenOf(j, y)
    BY PlaceIs
  <2> QED  BY <1>1, <2>1
<1> QED  BY <1>2, <1>3

LEMMA BookedDrained == Booked => DrainedAtExit
<1> SUFFICES ASSUME Booked, phase \in {"closing", "exited"}, NEW n \in (1..units) \ (late \cup underway)
             PROVE  \E p \in Proxies : Done(p, n) # {} \/ (~fits /\ Posted(p, n) # {})
  BY DEF DrainedAtExit
<1>1. /\ Without(Early, reporter) /\ \A c \in Connection : unreported[c] \cap Early = {}
      /\ fits => Awaited(Owed, reporter)
      /\ NoneAtExit(reporter) /\ n \in Early /\ n \in Owed
  BY DEF Booked, Early, Owed
<1>2. PICK k, y : At(k, y, n, unreported, reporter, billed, lost)  BY DEF Booked, Ledger, One
<1>3. k # "connection" /\ k # "buffer"  BY <1>1, <1>2 DEF At, Without
<1>4. TokenOf(k, y) \in Proxies /\ Where(k, y) \in Places(TokenOf(k, y), n)  BY <1>2, PlacedAt
<1>5. CASE k = "post"
  <2>1. y \in reporter.posts /\ n \in y.units /\ ~y.atExit  BY <1>1, <1>2, <1>5 DEF At, NoneAtExit
  <2>2. ~fits  BY <1>1, <2>1 DEF Awaited
  <2>3. TokenOf(k, y) = y.token  BY <1>5 DEF TokenOf
  <2>4. <<"post", y>> \in Posted(y.token, n)  BY <2>1 DEF Posted
  <2> QED  BY <1>4, <2>2, <2>3, <2>4
<1>6. CASE k # "post"
  <2>1. k \in {"billed", "lost"}  BY <1>2, <1>3, <1>6 DEF At
  <2>2. Where(k, y)[1] = k  BY <2>1 DEF Where
  <2>3. Where(k, y) \in Done(TokenOf(k, y), n)
    BY <1>4, <2>1, <2>2 DEF Places, Unreported, Buffered, Posted
  <2> QED  BY <1>4, <2>3
<1> QED  BY <1>5, <1>6

LEMMA BookedAlways == Spec => [](IInv /\ Booked)
<1> QED  BY InitIInv, IInvStep, InitBooked, BookedStep, PTL DEF Spec

\* The reporter's accounts add up for any number of sessions, any batch size and any failure
\* of a connection, a bridge or a post: what translators append is reported, batched and
\* posted once each, under the token of its own bridge.
THEOREM AccountedHolds == Spec => []Accounted
<1> QED  BY BookedAlways, BookedAccounted, PTL

\* The SIGTERM handler closes every session and awaits the posts of its drain: once it has,
\* everything appended before is through, except what was under way when SIGTERM came and,
\* only if the last deltas overflowed the batch, the posts of that overflow.
THEOREM DrainedAtExitHolds == Spec => []DrainedAtExit
<1> QED  BY BookedAlways, BookedDrained, PTL
=============================================================================
