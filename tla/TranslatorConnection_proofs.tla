---------------------- MODULE TranslatorConnection_proofs ----------------------
(***************************************************************************)
(* Proofs about TranslatorConnection, for any caps of the two queues, any    *)
(* longest concealment and any corrupt frames.                              *)
(***************************************************************************)
EXTENDS TranslatorConnection, TLAPS, NaturalsInduction, WellFoundedInduction

USE TranslatorAssumption
-----------------------------------------------------------------------------
(* Pieces of audio. *)
LEMMA LeastOf ==
    ASSUME NEW S, S \subseteq Nat, S # {}
    PROVE  \E x \in S : \A y \in S : x <= y
<1>1. IsWellFoundedOn(OpToRel(<, Nat), Nat)  BY NatLessThanWellFounded
<1>2. PICK x \in S : \A y \in S : ~(<<y, x>> \in OpToRel(<, Nat))  BY <1>1, WFMin
<1>3. \A y \in S : ~(y < x)  BY <1>2 DEF OpToRel
<1> QED  BY <1>3

\* Induction from 0 to n: a set that holds 0, and i if it holds i - 1, holds them all.
LEMMA Climb ==
    ASSUME NEW n \in Nat, NEW S, 0 \in S, \A i \in 1..n : i - 1 \in S => i \in S
    PROVE  \A i \in 0..n : i \in S
<1> DEFINE Missing == {i \in 0..n : i \notin S}
<1> SUFFICES ASSUME Missing # {} PROVE FALSE  OBVIOUS
<1>1. PICK k \in Missing : \A y \in Missing : k <= y
  <2>1. Missing \subseteq Nat  OBVIOUS
  <2> HIDE DEF Missing
  <2> QED  BY <2>1, LeastOf
<1>2. k \in 1..n /\ k - 1 \in 0..n /\ k - 1 \notin Missing  BY <1>1
<1> QED  BY <1>1, <1>2

\* The PCM so far, before each of the pieces is joined, and before each is buffered.
JoinedSoFar(f, pieces, n) ==
    f = [i \in 0..n |-> IF i = 0 THEN <<>> ELSE f[i - 1] \o pieces[i]]
BufferedSoFar(f, pending, pieces, n) ==
    f = [i \in 0..n |-> IF i = 0 THEN pending ELSE Buffer(f[i - 1], pieces[i])]

LEMMA JoinedBy ==
    ASSUME NEW pieces, Len(pieces) \in Nat
    PROVE  \E f : JoinedSoFar(f, pieces, Len(pieces)) /\ Joined(pieces) = f[Len(pieces)]
<1> DEFINE n == Len(pieces)
           S == {k \in 0..n : \E f : JoinedSoFar(f, pieces, k)}
<1>1. 0 \in S
  <2>1. PICK f : f = [i \in 0..0 |-> <<>>]  OBVIOUS
  <2>2. \A i \in 0..0 : i = 0  OBVIOUS
  <2>3. JoinedSoFar(f, pieces, 0)  BY <2>1, <2>2 DEF JoinedSoFar
  <2> QED  BY <2>3
<1>2. ASSUME NEW k \in 1..n, k - 1 \in S PROVE k \in S
  <2>1. PICK f : f = [i \in 0..(k - 1) |-> IF i = 0 THEN <<>> ELSE f[i - 1] \o pieces[i]]
    BY <1>2 DEF JoinedSoFar
  <2>2. PICK g : g = [i \in 0..k |-> IF i = k THEN f[k - 1] \o pieces[k] ELSE f[i]]  OBVIOUS
  <2>3. ASSUME NEW i \in 0..k PROVE g[i] = IF i = 0 THEN <<>> ELSE g[i - 1] \o pieces[i]
    <3>1. CASE i = k
      <4>1. k # 0 /\ k - 1 \in 0..k /\ k - 1 # k  OBVIOUS
      <4>2. g[k - 1] = f[k - 1]  BY <2>2, <4>1
      <4>3. g[k] = f[k - 1] \o pieces[k]  BY <2>2
      <4> QED  BY <3>1, <4>1, <4>2, <4>3
    <3>2. CASE i # k
      <4>1. i \in 0..(k - 1) /\ g[i] = f[i]  BY <2>2, <3>2
      <4>2. i # 0 => i - 1 \in 0..(k - 1) /\ i - 1 # k /\ g[i - 1] = f[i - 1]  BY <2>2, <4>1
      <4> QED  BY <2>1, <4>1, <4>2
    <3> QED  BY <3>1, <3>2
  <2>4. g = [i \in 0..k |-> g[i]]  BY <2>2
  <2>5. JoinedSoFar(g, pieces, k)  BY <2>3, <2>4 DEF JoinedSoFar
  <2> QED  BY <2>5
<1>3. n \in S
  <2>1. n \in Nat /\ n \in 0..n  OBVIOUS
  <2> HIDE DEF S, n
  <2> QED  BY <1>1, <1>2, <2>1, Climb
<1> DEFINE u == CHOOSE f : f = [i \in 0..Len(pieces) |-> IF i = 0 THEN <<>> ELSE f[i - 1] \o pieces[i]]
<1>4. JoinedSoFar(u, pieces, n)  BY <1>3 DEF JoinedSoFar
<1>5. Joined(pieces) = u[n]  BY DEF Joined
<1> QED  BY <1>4, <1>5

LEMMA BufferedBy ==
    ASSUME NEW pending, NEW pieces, Len(pieces) \in Nat
    PROVE  \E f : BufferedSoFar(f, pending, pieces, Len(pieces))
                  /\ BufferEach(pending, pieces) = f[Len(pieces)]
<1> DEFINE n == Len(pieces)
           S == {k \in 0..n : \E f : BufferedSoFar(f, pending, pieces, k)}
<1>1. 0 \in S
  <2>1. PICK f : f = [i \in 0..0 |-> pending]  OBVIOUS
  <2>2. \A i \in 0..0 : i = 0  OBVIOUS
  <2>3. BufferedSoFar(f, pending, pieces, 0)  BY <2>1, <2>2 DEF BufferedSoFar
  <2> QED  BY <2>3
<1>2. ASSUME NEW k \in 1..n, k - 1 \in S PROVE k \in S
  <2>1. PICK f : f = [i \in 0..(k - 1) |-> IF i = 0 THEN pending ELSE Buffer(f[i - 1], pieces[i])]
    BY <1>2 DEF BufferedSoFar
  <2>2. PICK g : g = [i \in 0..k |-> IF i = k THEN Buffer(f[k - 1], pieces[k]) ELSE f[i]]  OBVIOUS
  <2>3. ASSUME NEW i \in 0..k PROVE g[i] = IF i = 0 THEN pending ELSE Buffer(g[i - 1], pieces[i])
    <3>1. CASE i = k
      <4>1. k # 0 /\ k - 1 \in 0..k /\ k - 1 # k  OBVIOUS
      <4>2. g[k - 1] = f[k - 1]  BY <2>2, <4>1
      <4>3. g[k] = Buffer(f[k - 1], pieces[k])  BY <2>2
      <4> QED  BY <3>1, <4>1, <4>2, <4>3
    <3>2. CASE i # k
      <4>1. i \in 0..(k - 1) /\ g[i] = f[i]  BY <2>2, <3>2
      <4>2. i # 0 => i - 1 \in 0..(k - 1) /\ i - 1 # k /\ g[i - 1] = f[i - 1]  BY <2>2, <4>1
      <4> QED  BY <2>1, <4>1, <4>2
    <3> QED  BY <3>1, <3>2
  <2>4. g = [i \in 0..k |-> g[i]]  BY <2>2
  <2>5. BufferedSoFar(g, pending, pieces, k)  BY <2>3, <2>4 DEF BufferedSoFar
  <2> QED  BY <2>5
<1>3. n \in S
  <2>1. n \in Nat /\ n \in 0..n  OBVIOUS
  <2> HIDE DEF S, n
  <2> QED  BY <1>1, <1>2, <2>1, Climb
<1> DEFINE u == CHOOSE f : f = [i \in 0..Len(pieces) |-> IF i = 0 THEN pending ELSE Buffer(f[i - 1], pieces[i])]
<1>4. BufferedSoFar(u, pending, pieces, n)  BY <1>3 DEF BufferedSoFar
<1>5. BufferEach(pending, pieces) = u[n]  BY DEF BufferEach
<1> QED  BY <1>4, <1>5

\* The chunks of s are in order, each once, after lo and up to hi.
Fresh(s, lo, hi) ==
    /\ s \in Seq(Nat)
    /\ \A i \in DOMAIN s : s[i] # Silence => lo < s[i] /\ s[i] <= hi
    /\ \A i, j \in DOMAIN s : i < j /\ s[i] # Silence /\ s[j] # Silence => s[i] < s[j]

LEMMA FreshWider ==
    ASSUME NEW s, NEW lo \in Nat, NEW hi \in Nat, NEW a \in 0..lo, NEW b \in Nat, hi <= b, Fresh(s, lo, hi)
    PROVE  Fresh(s, a, b)
BY DEF Fresh

LEMMA FreshConcat ==
    ASSUME NEW s, NEW t, NEW lo \in Nat, NEW mid \in Nat, NEW hi \in Nat, lo <= mid, mid <= hi,
           Fresh(s, lo, mid), Fresh(t, mid, hi)
    PROVE  /\ Fresh(s \o t, lo, hi)
           /\ ChunksOf(s \o t) = ChunksOf(s) \cup ChunksOf(t)
           /\ Len(s \o t) = Len(s) + Len(t)
<1>1. s \in Seq(Nat) /\ t \in Seq(Nat)  BY DEF Fresh
<1> DEFINE c == s \o t
<1>2. /\ c \in Seq(Nat) /\ Len(c) = Len(s) + Len(t)
      /\ \A i \in 1..Len(s) : c[i] = s[i]
      /\ \A i \in (Len(s) + 1)..Len(c) : c[i] = t[i - Len(s)] /\ i - Len(s) \in 1..Len(t)
      /\ \A i \in 1..Len(t) : c[i + Len(s)] = t[i]
  <2>1. c \in Seq(Nat) /\ Len(c) = Len(s) + Len(t)  BY <1>1
  <2>2. ASSUME NEW i \in 1..Len(s) PROVE c[i] = s[i]  BY <1>1
  <2>3. ASSUME NEW i \in (Len(s) + 1)..Len(c) PROVE c[i] = t[i - Len(s)] /\ i - Len(s) \in 1..Len(t)
    BY <1>1, <2>1
  <2>4. ASSUME NEW i \in 1..Len(t) PROVE c[i + Len(s)] = t[i]  BY <1>1
  <2> HIDE DEF c
  <2> QED  BY <2>1, <2>2, <2>3, <2>4
<1>2a. \A i \in DOMAIN c : (Len(s) < i => c[i] = t[i - Len(s)] /\ i - Len(s) \in DOMAIN t)
                            /\ (i <= Len(s) => c[i] = s[i] /\ i \in DOMAIN s)
  BY <1>1, <1>2
<1>3. DOMAIN s = 1..Len(s) /\ DOMAIN t = 1..Len(t) /\ DOMAIN c = 1..Len(c) /\ Len(s) \in Nat /\ Len(t) \in Nat
  BY <1>1, <1>2
<1> HIDE DEF c
<1>4. ASSUME NEW i \in DOMAIN c, c[i] # Silence PROVE lo < c[i] /\ c[i] <= hi
  <2>1. CASE i <= Len(s)  BY <1>1, <1>2, <1>3, <1>4, <2>1 DEF Fresh
  <2>2. CASE i > Len(s)
    <3>1. c[i] = t[i - Len(s)] /\ i - Len(s) \in DOMAIN t  BY <1>2a, <2>2
    <3>2. t[i - Len(s)] \in Nat  BY <1>1, <3>1
    <3> QED  BY <1>4, <3>1, <3>2 DEF Fresh
  <2> QED  BY <1>3, <2>1, <2>2
<1>5. ASSUME NEW i \in DOMAIN c, NEW j \in DOMAIN c, i < j, c[i] # Silence, c[j] # Silence
      PROVE  c[i] < c[j]
  <2>1. CASE j <= Len(s)
    <3>1. c[i] = s[i] /\ i \in DOMAIN s /\ c[j] = s[j] /\ j \in DOMAIN s  BY <1>2a, <1>3, <1>5, <2>1
    <3> QED  BY <1>5, <3>1 DEF Fresh
  <2>2. CASE i > Len(s)
    <3>1. c[i] = t[i - Len(s)] /\ i - Len(s) \in DOMAIN t  BY <1>2a, <2>2
    <3>2. c[j] = t[j - Len(s)] /\ j - Len(s) \in DOMAIN t  BY <1>2a, <1>3, <1>5, <2>2
    <3>3. i - Len(s) < j - Len(s)  BY <1>3, <1>5
    <3> QED  BY <1>5, <3>1, <3>2, <3>3 DEF Fresh
  <2>3. CASE i <= Len(s) /\ j > Len(s)
    <3>1. c[i] = s[i] /\ i \in DOMAIN s /\ s[i] \in Nat  BY <1>1, <1>2a, <2>3
    <3>2. c[j] = t[j - Len(s)] /\ j - Len(s) \in DOMAIN t /\ t[j - Len(s)] \in Nat
      BY <1>1, <1>2a, <2>3
    <3>3. s[i] <= mid  BY <1>5, <3>1 DEF Fresh
    <3>4. mid < t[j - Len(s)]  BY <1>5, <3>2 DEF Fresh
    <3> QED  BY <3>1, <3>2, <3>3, <3>4
  <2> QED  BY <1>3, <2>1, <2>2, <2>3
<1>6. Fresh(c, lo, hi)  BY <1>2, <1>4, <1>5 DEF Fresh
<1>7. ChunksOf(c) = ChunksOf(s) \cup ChunksOf(t)
  <2>1. ASSUME NEW x \in ChunksOf(c) PROVE x \in ChunksOf(s) \cup ChunksOf(t)
    <3>1. PICK i \in DOMAIN c : x = c[i] /\ x # Silence  BY DEF ChunksOf
    <3>2. CASE i <= Len(s)  BY <1>2a, <3>1, <3>2 DEF ChunksOf
    <3>3. CASE i > Len(s)  BY <1>2a, <3>1, <3>3 DEF ChunksOf
    <3> QED  BY <1>3, <3>1, <3>2, <3>3
  <2>2. ASSUME NEW x \in ChunksOf(s) PROVE x \in ChunksOf(c)
    <3>1. PICK i \in DOMAIN s : x = s[i] /\ x # Silence  BY DEF ChunksOf
    <3>2. i \in DOMAIN c /\ c[i] = x  BY <1>2, <1>3, <3>1
    <3> QED  BY <3>1, <3>2 DEF ChunksOf
  <2>3. ASSUME NEW x \in ChunksOf(t) PROVE x \in ChunksOf(c)
    <3>1. PICK i \in DOMAIN t : x = t[i] /\ x # Silence  BY DEF ChunksOf
    <3>2. i + Len(s) \in DOMAIN c /\ c[i + Len(s)] = x  BY <1>2, <1>3, <3>1
    <3> QED  BY <3>1, <3>2 DEF ChunksOf
  <2> QED  BY <2>1, <2>2, <2>3
<1> QED  BY <1>2, <1>6, <1>7 DEF c

\* The pieces are in order: the i-th is after t[i - 1] and up to t[i].
InTurn(pieces, t) ==
    /\ pieces \in Seq(Seq(Nat)) /\ t \in [0..Len(pieces) -> Nat]
    /\ \A i \in 1..Len(pieces) : t[i - 1] <= t[i] /\ Fresh(pieces[i], t[i - 1], t[i])

\* Joined, they are in order, hold the chunks of each, and are not longer than w allows.
LEMMA JoinedInTurn ==
    ASSUME NEW pieces, NEW t, InTurn(pieces, t), NEW w \in [0..Len(pieces) -> Nat],
           \A i \in 1..Len(pieces) : w[i - 1] + Len(pieces[i]) <= w[i]
    PROVE  LET n == Len(pieces) IN
           /\ Fresh(Joined(pieces), t[0], t[n]) /\ t[0] <= t[n]
           /\ \A x : x \in ChunksOf(Joined(pieces)) <=> \E i \in 1..n : x \in ChunksOf(pieces[i])
           /\ Len(Joined(pieces)) <= w[n]
<1> DEFINE n == Len(pieces)
<1>1. n \in Nat /\ t \in [0..n -> Nat] /\ \A i \in 1..n : pieces[i] \in Seq(Nat)  BY DEF InTurn
<1>2. PICK f : JoinedSoFar(f, pieces, n) /\ Joined(pieces) = f[n]  BY <1>1, JoinedBy
<1>3. f[0] = <<>> /\ \A i \in 1..n : f[i] = f[i - 1] \o pieces[i]
  <2>1. f = [i \in 0..n |-> IF i = 0 THEN <<>> ELSE f[i - 1] \o pieces[i]]  BY <1>2 DEF JoinedSoFar
  <2>2. n \in Nat  BY <1>1
  <2> HIDE DEF n
  <2>3. ASSUME NEW i \in 1..n PROVE f[i] = f[i - 1] \o pieces[i]
    <3>1. i \in 0..n /\ i # 0  BY <2>2
    <3> QED  BY <2>1, <3>1
  <2>4. 0 \in 0..n  BY <2>2
  <2>5. f[0] = <<>>  BY <2>1, <2>4
  <2> QED  BY <2>3, <2>5
<1> HIDE DEF n
<1> DEFINE Good(i) ==
        /\ Fresh(f[i], t[0], t[i]) /\ t[0] <= t[i]
        /\ \A x : x \in ChunksOf(f[i]) <=> \E j \in 1..i : x \in ChunksOf(pieces[j])
        /\ Len(f[i]) <= w[i]
    S == {i \in 0..n : Good(i)}
<1>4. 0 \in S
  <2>1. Fresh(<<>>, t[0], t[0])  BY DEF Fresh
  <2>2. ChunksOf(<<>>) = {} /\ 1..0 = {}  BY DEF ChunksOf
  <2>3. Len(<<>>) <= w[0]  BY <1>1 DEF n
  <2> QED  BY <1>1, <1>3, <2>1, <2>2, <2>3
<1>5. ASSUME NEW i \in 1..n, i - 1 \in S PROVE i \in S
  <2>1. Good(i - 1) /\ i - 1 \in 0..n /\ i \in 0..n  BY <1>1, <1>5
  <2>2. t[0] \in Nat /\ t[i - 1] \in Nat /\ t[i] \in Nat /\ w[i - 1] \in Nat /\ w[i] \in Nat
    <3>1. w \in [0..n -> Nat]  BY DEF n
    <3>2. 0 \in 0..n  BY <1>1
    <3> QED  BY <1>1, <2>1, <3>1, <3>2
  <2>3. t[i - 1] <= t[i] /\ Fresh(pieces[i], t[i - 1], t[i]) /\ w[i - 1] + Len(pieces[i]) <= w[i]
    BY DEF InTurn, n
  <2>4. /\ Fresh(f[i - 1] \o pieces[i], t[0], t[i])
        /\ ChunksOf(f[i - 1] \o pieces[i]) = ChunksOf(f[i - 1]) \cup ChunksOf(pieces[i])
        /\ Len(f[i - 1] \o pieces[i]) = Len(f[i - 1]) + Len(pieces[i])
    BY <2>1, <2>2, <2>3, FreshConcat
  <2>5. \A j : j \in 1..i <=> j \in 1..(i - 1) \/ j = i  BY <1>1
  <2>6. \A x : x \in ChunksOf(f[i]) <=> \E j \in 1..i : x \in ChunksOf(pieces[j])
    BY <1>3, <2>1, <2>4, <2>5
  <2>7. Len(f[i]) <= w[i]
    <3>1. Len(f[i - 1]) \in Nat /\ Len(pieces[i]) \in Nat  BY <2>1, <2>3 DEF Fresh
    <3>2. f[i] = f[i - 1] \o pieces[i]  BY <1>3
    <3>3. Len(f[i]) = Len(f[i - 1]) + Len(pieces[i])  BY <2>4, <3>2
    <3>4. Len(f[i - 1]) <= w[i - 1]  BY <2>1
    <3>5. w[i - 1] + Len(pieces[i]) <= w[i]  BY <2>3
    <3>6. PICK a, b, c, d : a = Len(f[i - 1]) /\ b = Len(pieces[i]) /\ c = w[i - 1] /\ d = w[i]  OBVIOUS
    <3>7. a \in Nat /\ b \in Nat /\ c \in Nat /\ d \in Nat /\ a <= c /\ c + b <= d
      BY <2>2, <3>1, <3>4, <3>5, <3>6
    <3>8. a + b <= d  BY <3>7
    <3> QED  BY <3>3, <3>6, <3>8
  <2>8. Fresh(f[i], t[0], t[i]) /\ t[0] <= t[i]
    <3>1. f[i] = f[i - 1] \o pieces[i]  BY <1>3
    <3>2. t[0] <= t[i - 1]  BY <2>1
    <3> QED  BY <2>2, <2>3, <2>4, <3>1, <3>2
  <2> QED  BY <2>1, <2>6, <2>7, <2>8
<1>6. n \in S
  <2>1. n \in Nat /\ n \in 0..n  BY <1>1
  <2> HIDE DEF S
  <2> QED  BY <1>4, <1>5, <2>1, Climb
<1> QED  BY <1>2, <1>6 DEF n

\* Buffered one after another, what is left of them is in order and within the cap.
LEMMA BufferedInTurn ==
    ASSUME NEW pieces, NEW t, InTurn(pieces, t), NEW lo \in Nat, lo <= t[0],
           NEW pending, Fresh(pending, lo, t[0]), Len(pending) <= MaxPendingAudio,
           \A i \in 1..Len(pieces) : Len(pieces[i]) <= MaxPendingAudio
    PROVE  LET n == Len(pieces)
               all == BufferEach(pending, pieces) IN
           /\ Fresh(all, lo, t[n]) /\ Len(all) <= MaxPendingAudio
           /\ \A x \in ChunksOf(all) : x \in ChunksOf(pending) \/ \E i \in 1..n : x \in ChunksOf(pieces[i])
<1> DEFINE n == Len(pieces)
<1>1. n \in Nat /\ t \in [0..n -> Nat] /\ \A i \in 1..n : pieces[i] \in Seq(Nat)  BY DEF InTurn
<1>2. PICK f : BufferedSoFar(f, pending, pieces, n) /\ BufferEach(pending, pieces) = f[n]  BY <1>1, BufferedBy
<1>3. f[0] = pending /\ \A i \in 1..n : f[i] = Buffer(f[i - 1], pieces[i])
  <2>1. f = [i \in 0..n |-> IF i = 0 THEN pending ELSE Buffer(f[i - 1], pieces[i])]
    BY <1>2 DEF BufferedSoFar
  <2>2. n \in Nat  BY <1>1
  <2> HIDE DEF n
  <2>3. ASSUME NEW i \in 1..n PROVE f[i] = Buffer(f[i - 1], pieces[i])
    <3>1. i \in 0..n /\ i # 0  BY <2>2
    <3> QED  BY <2>1, <3>1
  <2>4. 0 \in 0..n  BY <2>2
  <2>5. f[0] = pending  BY <2>1, <2>4
  <2> QED  BY <2>3, <2>5
<1> HIDE DEF n
<1> DEFINE Good(i) ==
        /\ Fresh(f[i], lo, t[i]) /\ Len(f[i]) <= MaxPendingAudio /\ t[0] <= t[i]
        /\ \A x \in ChunksOf(f[i]) : x \in ChunksOf(pending) \/ \E j \in 1..i : x \in ChunksOf(pieces[j])
    S == {i \in 0..n : Good(i)}
<1>4. 0 \in S  BY <1>1, <1>3
<1>5. ASSUME NEW i \in 1..n, i - 1 \in S PROVE i \in S
  <2>1. Good(i - 1) /\ i - 1 \in 0..n /\ i \in 0..n  BY <1>1, <1>5
  <2>2. t[0] \in Nat /\ t[i - 1] \in Nat /\ t[i] \in Nat  BY <1>1, <2>1
  <2>3. /\ t[i - 1] <= t[i] /\ Fresh(pieces[i], t[i - 1], t[i])
        /\ Len(pieces[i]) <= MaxPendingAudio
    BY DEF InTurn, n
  <2>4. lo <= t[i - 1] /\ t[0] <= t[i]  BY <2>1, <2>2, <2>3
  <2>5. /\ Fresh(f[i - 1] \o pieces[i], lo, t[i])
        /\ ChunksOf(f[i - 1] \o pieces[i]) = ChunksOf(f[i - 1]) \cup ChunksOf(pieces[i])
        /\ Len(f[i - 1] \o pieces[i]) = Len(f[i - 1]) + Len(pieces[i])
    BY <2>1, <2>2, <2>3, <2>4, FreshConcat
  <2>6. Fresh(pieces[i], lo, t[i])
    <3>1. lo \in 0..t[i - 1]  BY <2>2, <2>4
    <3> QED  BY <2>2, <2>3, <3>1, FreshWider
  <2>7. \A j : j \in 1..i <=> j \in 1..(i - 1) \/ j = i  BY <1>1
  <2>8. CASE f[i] = f[i - 1] \o pieces[i] /\ Len(f[i - 1]) + Len(pieces[i]) <= MaxPendingAudio
    BY <2>1, <2>4, <2>5, <2>7, <2>8
  <2>9. CASE f[i] = pieces[i]  BY <2>1, <2>3, <2>4, <2>6, <2>7, <2>9
  <2> QED  BY <1>3, <2>8, <2>9 DEF Buffer
<1>6. n \in S
  <2>1. n \in Nat /\ n \in 0..n  BY <1>1
  <2> HIDE DEF S
  <2> QED  BY <1>4, <1>5, <2>1, Climb
<1> QED  BY <1>2, <1>6 DEF n
-----------------------------------------------------------------------------
(* The input half. *)

\* What is appended and what waits, in order; what is billed; where the frames are.
Kinds ==
    /\ lastChunkNo \in Nat /\ isClosed \in BOOLEAN
    /\ sentSamples \in Nat /\ reportedSamples \in Nat /\ billed \in Nat

InOrder ==
    /\ \E mid \in 0..lastChunkNo : Fresh(appended, 0, mid) /\ Fresh(pendingAudioData, mid, lastChunkNo)
    /\ Fresh(pendingOpusFrames, 0, lastChunkNo) /\ pendingOpusFrames \in Seq(Nat \ {Silence})
    /\ Len(pendingOpusFrames) <= MaxPendingFrames /\ Len(pendingAudioData) <= MaxPendingAudio

\* Which status goes with which: nothing is decoded before the decoder is ready, nothing
\* waits for a socket that is open, and after doClose no socket opens any more.
Stages ==
    /\ ~isClosed => /\ connectionStatus \in {"pending", "connected"}
                    /\ decoderStatus \in {"pending", "ready"} /\ (loading <=> decoderStatus = "pending")
    /\ ~isClosed /\ decoderStatus = "pending" => appended = <<>> /\ pendingAudioData = <<>>
    /\ ~isClosed /\ decoderStatus = "ready" => pendingOpusFrames = <<>>
    /\ ~isClosed /\ connectionStatus = "connected" => pendingAudioData = <<>>
    /\ isClosed => connectionStatus = "closed" /\ socket \notin {"connecting", "open"}

Money == BilledAsSent /\ billed = reportedSamples

IInv == Kinds /\ InOrder /\ Stages /\ Money /\ NothingElseLost

Most == MaxPendingFrames + MaxPendingAudio + 1

\* What a step hands on, and that it does nothing on a closed connection.
Hands ==
    /\ lastChunkNo' \in Nat /\ lastChunkNo <= lastChunkNo'
    /\ \E s \in Seq(Nat) : appended' = appended \o s /\ Len(s) <= Most
    /\ isClosed => UNCHANGED <<isClosed, appended, billed, told>>

Passed == lost \cup ChunksOf(appended) \cup ChunksOf(pendingAudioData)

LEMMA NothingFresh ==
    ASSUME NEW lo, NEW hi
    PROVE  Fresh(<<>>, lo, hi) /\ ChunksOf(<<>>) = {}
BY DEF Fresh, ChunksOf

\* sendOrEnqueueDecodedAudio keeps the order, the cap and the accounts.
LEMMA SentOrQueued ==
    ASSUME ~isClosed, sentSamples \in Nat, NEW pieces, NEW t, InTurn(pieces, t), SendOrEnqueue(pieces),
           NEW w \in [0..Len(pieces) -> Nat],
           \A i \in 1..Len(pieces) :
              w[i - 1] + Len(pieces[i]) <= w[i] /\ Len(pieces[i]) <= MaxPendingAudio,
           NEW mid \in Nat, mid <= t[0], Fresh(appended, 0, mid), Fresh(pendingAudioData, mid, t[0]),
           Len(pendingAudioData) <= MaxPendingAudio, connectionStatus = "connected" => pendingAudioData = <<>>
    PROVE  LET n == Len(pieces) IN
           /\ \E m \in 0..t[n] : Fresh(appended', 0, m) /\ Fresh(pendingAudioData', m, t[n])
           /\ Len(pendingAudioData') <= MaxPendingAudio
           /\ connectionStatus = "connected" => pendingAudioData' = <<>>
           /\ \E s \in Seq(Nat) : /\ appended' = appended \o s /\ Len(s) <= w[n]
                                  /\ sentSamples' = sentSamples + Len(s)
           /\ \A x : x \in Passed' <=> x \in Passed \/ \E i \in 1..n : x \in ChunksOf(pieces[i])
<1> DEFINE n == Len(pieces)
           all == Joined(pieces)
<1>1. /\ Fresh(all, t[0], t[n]) /\ t[0] <= t[n] /\ Len(all) <= w[n]
      /\ \A x : x \in ChunksOf(all) <=> \E i \in 1..n : x \in ChunksOf(pieces[i])
  BY JoinedInTurn
<1>2. n \in Nat /\ t[0] \in Nat /\ t[n] \in Nat /\ w[n] \in Nat
  <2>1. n \in Nat /\ t \in [0..n -> Nat]  BY DEF InTurn
  <2>2. w \in [0..n -> Nat]  OBVIOUS
  <2> HIDE DEF n
  <2> QED  BY <2>1, <2>2
<1>3. /\ Fresh(BufferEach(pendingAudioData, pieces), mid, t[n])
      /\ Len(BufferEach(pendingAudioData, pieces)) <= MaxPendingAudio
      /\ \A x \in ChunksOf(BufferEach(pendingAudioData, pieces)) :
            x \in ChunksOf(pendingAudioData) \/ x \in ChunksOf(all)
  BY <1>1, BufferedInTurn
<1> HIDE DEF n, all
<1>4. appended \in Seq(Nat) /\ pendingAudioData \in Seq(Nat) /\ all \in Seq(Nat)  BY <1>1 DEF Fresh
<1>5. CASE connectionStatus = "connected" /\ SendAudioToOpenAI(all) /\ UNCHANGED pendingAudioData
  <2>1. pendingAudioData = <<>> /\ pendingAudioData' = <<>>  BY <1>5
  <2>2. PICK ok \in BOOLEAN :
          /\ appended' = IF ok THEN appended \o all ELSE appended
          /\ sentSamples' = sentSamples + IF ok THEN Len(all) ELSE 0
          /\ lost' = lost \cup IF ok THEN {} ELSE ChunksOf(all)
    BY <1>5 DEF SendAudioToOpenAI, Billable
  <2>3. CASE ok
    <3>1. mid \in 0..t[0] /\ 0 \in 0..0  BY <1>2
    <3>2. Fresh(appended, 0, t[0])  BY <1>2, <3>1, FreshWider
    <3>3. Fresh(appended \o all, 0, t[n]) /\ ChunksOf(appended \o all) = ChunksOf(appended) \cup ChunksOf(all)
      BY <1>1, <1>2, <3>2, FreshConcat
    <3>4. appended' = appended \o all /\ sentSamples' = sentSamples + Len(all) /\ lost' = lost
      BY <2>2, <2>3
    <3>5. t[n] \in 0..t[n]  BY <1>2
    <3>6. \A x : x \in Passed' <=> x \in Passed \/ x \in ChunksOf(all)
      BY <2>1, <3>3, <3>4 DEF Passed
    <3> QED  BY <1>1, <1>4, <2>1, <3>3, <3>4, <3>5, <3>6, NothingFresh DEF n
  <2>4. CASE ~ok
    <3>1. appended' = appended /\ sentSamples' = sentSamples + 0 /\ lost' = lost \cup ChunksOf(all)
      BY <2>2, <2>4
    <3>2. mid \in 0..t[n]  BY <1>1, <1>2
    <3>3. <<>> \in Seq(Nat) /\ appended' = appended \o <<>> /\ Len(<<>>) = 0 /\ Len(<<>>) <= w[n]
      BY <1>2, <1>4, <3>1
    <3>4. \A x : x \in Passed' <=> x \in Passed \/ x \in ChunksOf(all)
      BY <2>1, <3>1 DEF Passed
    <3> QED  BY <1>1, <2>1, <3>1, <3>2, <3>3, <3>4, NothingFresh DEF n
  <2> QED  BY <2>3, <2>4
<1>6. CASE /\ connectionStatus = "pending" /\ UNCHANGED <<appended, sentSamples>>
           /\ pendingAudioData' = BufferEach(pendingAudioData, pieces)
           /\ lost' = lost \cup ((ChunksOf(pendingAudioData) \cup ChunksOf(all)) \ ChunksOf(pendingAudioData'))
  <2>1. mid \in 0..t[n]  BY <1>1, <1>2
  <2>2. Fresh(appended', 0, mid) /\ Fresh(pendingAudioData', mid, t[n])  BY <1>3, <1>6
  <2>3. <<>> \in Seq(Nat) /\ appended' = appended \o <<>> /\ Len(<<>>) = 0 /\ Len(<<>>) <= w[n]
    BY <1>2, <1>4, <1>6
  <2>4. sentSamples' = sentSamples + Len(<<>>)  BY <1>6, <2>3
  <2>5. \A x : x \in Passed' <=> x \in Passed \/ x \in ChunksOf(all)
    <3>1. \A x : x \in ChunksOf(pendingAudioData') => x \in ChunksOf(pendingAudioData) \/ x \in ChunksOf(all)
      BY <1>3, <1>6
    <3>2. ChunksOf(appended)' = ChunksOf(appended)  BY <1>6 DEF ChunksOf
    <3> QED  BY <1>6, <3>1, <3>2 DEF Passed
  <2> QED  BY <1>1, <1>3, <1>6, <2>1, <2>2, <2>3, <2>4, <2>5 DEF n
<1> QED  BY <1>5, <1>6 DEF SendOrEnqueue, all

\* What an action makes of what went before, for the closed connection as for the open one.
Outcome == IInv' /\ Hands

LEMMA InitIInv == Init => IInv
<1> SUFFICES ASSUME Init PROVE IInv  OBVIOUS
<1>1. /\ lastChunkNo = 0 /\ ~isClosed /\ isClosed \in BOOLEAN /\ sentSamples = 0 /\ reportedSamples = 0
      /\ billed = 0 /\ appended = <<>> /\ pendingOpusFrames = <<>> /\ pendingAudioData = <<>>
      /\ accepted = {} /\ lost = {} /\ connectionStatus = "pending" /\ decoderStatus = "pending"
      /\ loading = TRUE /\ socket = "none"
  BY DEF Init, NoChunk
<1>2. Kinds  BY <1>1 DEF Kinds
<1>3. 0 \in 0..lastChunkNo /\ <<>> \in Seq(Nat \ {Silence}) /\ Len(<<>>) = 0  BY <1>1
<1>4. InOrder  BY <1>1, <1>3, NothingFresh DEF InOrder
<1>5. Stages  BY <1>1 DEF Stages
<1>6. Money  BY <1>1 DEF Money, BilledAsSent
<1>7. NothingElseLost  BY <1>1 DEF NothingElseLost, ChunksOf
<1> QED  BY <1>2, <1>4, <1>5, <1>6, <1>7 DEF IInv

LEMMA NothingHanded ==
    ASSUME IInv
    PROVE  /\ <<>> \in Seq(Nat) /\ appended = appended \o <<>> /\ Len(<<>>) <= Most /\ appended \in Seq(Nat)
           /\ lastChunkNo \in Nat /\ lastChunkNo <= lastChunkNo
<1>1. appended \in Seq(Nat)  BY DEF IInv, InOrder, Fresh
<1> QED  BY <1>1 DEF IInv, Kinds, Most

\* doClose, from an event or by the owner.
LEMMA DoCloseStep ==
    ASSUME IInv, NEW calls, NEW notify, NEW st, DoClose(calls, notify, st)
    PROVE  Outcome
<1>1. /\ ~isClosed /\ isClosed' = TRUE /\ connectionStatus' = "closed"
      /\ billed' = billed + (sentSamples - reportedSamples) /\ reportedSamples' = sentSamples
      /\ UNCHANGED <<sentSamples, lastChunkNo, accepted, pendingOpusFrames, pendingAudioData, appended, lost>>
      /\ socket' \notin {"connecting", "open"}
  BY DEF DoClose, ReportUsageDelta, input, queues
<1>2. /\ sentSamples \in Nat /\ sentSamples = Len(appended) /\ billed = reportedSamples /\ billed \in Nat
  BY DEF IInv, Kinds, Money, BilledAsSent
<1>3. Kinds'  BY <1>1, <1>2 DEF IInv, Kinds
<1>4. InOrder'  BY <1>1 DEF IInv, InOrder
<1>5. Stages'  BY <1>1 DEF Stages
<1>6. Money'  BY <1>1, <1>2 DEF Money, BilledAsSent
<1>7. NothingElseLost'  BY <1>1 DEF NothingElseLost
<1>8. Hands  BY <1>1, NothingHanded DEF Hands
<1> QED  BY <1>3, <1>4, <1>5, <1>6, <1>7, <1>8 DEF IInv, Outcome

\* What changes no audio: the statuses are still in order.
LEMMA SameStep ==
    ASSUME IInv, UNCHANGED <<input, isClosed, queues, usage, appended, told, lost, corrupt>>, Stages'
    PROVE  Outcome
<1>1. UNCHANGED <<lastChunkNo, accepted, isClosed, pendingOpusFrames, pendingAudioData, sentSamples,
                  reportedSamples, billed, appended, told, lost, corrupt>>
  BY DEF input, queues, usage
<1>2. Kinds' /\ InOrder' /\ Money' /\ NothingElseLost'
  BY <1>1 DEF IInv, Kinds, InOrder, Money, BilledAsSent, NothingElseLost, ChunksOf
<1>3. Hands  BY <1>1, NothingHanded DEF Hands
<1> QED  BY <1>2, <1>3 DEF IInv, Outcome

LEMMA AlreadyClosedStep ==
    ASSUME IInv, NEW st, st \notin {"connecting", "open"}, AlreadyClosed(st)
    PROVE  Outcome
<1>1. Stages'  BY DEF AlreadyClosed, IInv, Stages
<1> QED  BY <1>1, SameStep DEF AlreadyClosed

\* The socket opens, and what waited is appended.
LEMMA SocketOpensStep ==
    ASSUME IInv, SocketOpens
    PROVE  Outcome
<1>1. /\ ~isClosed /\ isClosed' = isClosed /\ socket' = "open" /\ connectionStatus' = "connected"
      /\ appended' = appended \o pendingAudioData /\ sentSamples' = sentSamples + Len(pendingAudioData)
      /\ pendingAudioData' = <<>>
      /\ UNCHANGED <<corrupt, lastChunkNo, accepted, decoderStatus, loading, pendingOpusFrames,
                     reportedSamples, billed, told, lost>>
  BY DEF SocketOpens, ProcessPendingAudioData, input, IInv, Stages
<1>2. PICK mid \in 0..lastChunkNo : Fresh(appended, 0, mid) /\ Fresh(pendingAudioData, mid, lastChunkNo)
  BY DEF IInv, InOrder
<1>3. lastChunkNo \in Nat /\ mid \in Nat /\ mid <= lastChunkNo  BY <1>2 DEF IInv, Kinds
<1>4. /\ Fresh(appended', 0, lastChunkNo)
      /\ ChunksOf(appended') = ChunksOf(appended) \cup ChunksOf(pendingAudioData)
      /\ Len(appended') = Len(appended) + Len(pendingAudioData)
  BY <1>1, <1>2, <1>3, FreshConcat
<1>5. pendingAudioData \in Seq(Nat) /\ Len(pendingAudioData) \in Nat  BY <1>2 DEF Fresh
<1>6. Kinds'  BY <1>1, <1>5 DEF IInv, Kinds
<1>7. InOrder'
  <2>1. lastChunkNo' \in 0..lastChunkNo'  BY <1>1, <1>3
  <2>2. Fresh(pendingAudioData', lastChunkNo', lastChunkNo')  BY <1>1, NothingFresh
  <2>3. Len(pendingAudioData') <= MaxPendingAudio  BY <1>1
  <2> QED  BY <1>1, <1>4, <2>1, <2>2, <2>3 DEF IInv, InOrder
<1>8. Stages'
  <2>1. decoderStatus = "pending" => appended' = <<>>  BY <1>1 DEF IInv, Stages
  <2> QED  BY <1>1, <2>1 DEF IInv, Stages
<1>9. Money'  BY <1>1, <1>4, <1>5 DEF IInv, Kinds, Money, BilledAsSent
<1>10. NothingElseLost'
  <2>1. ChunksOf(pendingAudioData') = {} /\ ChunksOf(pendingOpusFrames)' = ChunksOf(pendingOpusFrames)
    BY <1>1, NothingFresh DEF ChunksOf
  <2> QED  BY <1>1, <1>4, <2>1 DEF IInv, NothingElseLost
<1>11. Hands
  <2>1. Len(pendingAudioData) <= Most  BY <1>5 DEF IInv, InOrder, Most
  <2> QED  BY <1>1, <1>3, <1>5, <2>1 DEF Hands
<1> QED  BY <1>6, <1>7, <1>8, <1>9, <1>10, <1>11 DEF IInv, Outcome

LEMMA DecodedIs ==
    ASSUME NEW n \in Nat \ {Silence}
    PROVE  /\ Decoded(n) \in Seq(Nat) /\ Len(Decoded(n)) \in 0..1
           /\ ChunksOf(Decoded(n)) = {n} \ corrupt
<1>1. CASE n \in corrupt  BY <1>1, NothingFresh DEF Decoded
<1>2. CASE n \notin corrupt  BY <1>2 DEF Decoded, ChunksOf
<1> QED  BY <1>1, <1>2

LEMMA DecodedFresh ==
    ASSUME NEW n \in Nat \ {Silence}, NEW lo \in Nat, lo < n
    PROVE  Fresh(Decoded(n), lo, n)
<1>1. CASE n \in corrupt  BY <1>1, NothingFresh DEF Decoded
<1>2. CASE n \notin corrupt  BY <1>2 DEF Decoded, Fresh
<1> QED  BY <1>1, <1>2

\* The decoder is ready: the frames are decoded in the order in which they waited.
LEMMA DecoderReadyStep ==
    ASSUME IInv, DecoderReady
    PROVE  Outcome
<1>1. /\ loading' = FALSE /\ decoderStatus' = "ready" /\ pendingOpusFrames' = <<>>
      /\ UNCHANGED <<corrupt, lastChunkNo, accepted, connectionStatus, socket, isClosed, reportedSamples,
                     billed, told>>
  BY DEF DecoderReady
<1>2. CASE isClosed /\ UNCHANGED <<pendingAudioData, appended, sentSamples>>
  <2>1. Kinds'  BY <1>1, <1>2 DEF IInv, Kinds
  <2>2. InOrder'
    <3>1. <<>> \in Seq(Nat \ {Silence}) /\ Len(<<>>) <= MaxPendingFrames  OBVIOUS
    <3> QED  BY <1>1, <1>2, <3>1, NothingFresh DEF IInv, InOrder
  <2>3. Stages'  BY <1>1, <1>2 DEF IInv, Stages
  <2>4. Money'  BY <1>1, <1>2 DEF IInv, Money, BilledAsSent
  <2>5. NothingElseLost'  BY <1>1, <1>2 DEF NothingElseLost
  <2>6. Hands  BY <1>1, <1>2, NothingHanded DEF Hands
  <2> QED  BY <2>1, <2>2, <2>3, <2>4, <2>5, <2>6 DEF IInv, Outcome
<1>3. CASE ~isClosed /\ SendOrEnqueue([i \in DOMAIN pendingOpusFrames |-> Decoded(pendingOpusFrames[i])])
  <2> DEFINE frames == pendingOpusFrames
             n == Len(frames)
             pieces == [i \in DOMAIN frames |-> Decoded(frames[i])]
             t == [i \in 0..n |-> IF i = 0 THEN 0 ELSE frames[i]]
             w == [i \in 0..n |-> i]
  <2>1. /\ frames \in Seq(Nat \ {Silence}) /\ Fresh(frames, 0, lastChunkNo) /\ lastChunkNo \in Nat
        /\ n \in Nat /\ n <= MaxPendingFrames
    BY DEF IInv, Kinds, InOrder
  <2>2. appended = <<>> /\ pendingAudioData = <<>> /\ sentSamples = 0 /\ connectionStatus \in {"pending", "connected"}
    <3>1. loading  BY DEF DecoderReady
    <3> QED  BY <1>3, <3>1 DEF IInv, Stages, Money, BilledAsSent
  <2>3. \A i \in 1..n : frames[i] \in Nat \ {Silence} /\ pieces[i] = Decoded(frames[i])
                        /\ frames[i] <= lastChunkNo /\ 0 < frames[i]
    BY <2>1 DEF Fresh
  <2>4. pieces \in Seq(Seq(Nat)) /\ Len(pieces) = n
    <3>1. ASSUME NEW i \in 1..n PROVE pieces[i] \in Seq(Nat)
      <4>1. frames[i] \in Nat \ {Silence} /\ pieces[i] = Decoded(frames[i])  BY <2>3
      <4> HIDE DEF pieces, frames
      <4> QED  BY <4>1, DecodedIs
    <3>2. pieces = [i \in 1..n |-> pieces[i]]  BY <2>1
    <3> HIDE DEF pieces
    <3> QED  BY <2>1, <3>1, <3>2
  <2>5. /\ t \in [0..n -> Nat] /\ t[0] = 0 /\ \A i \in 1..n : t[i] = frames[i]
        /\ \A i \in 1..n : t[i - 1] < t[i]
    <3>1. t[0] = 0 /\ \A i \in 1..n : t[i] = frames[i]  BY <2>1
    <3>2. t \in [0..n -> Nat]
      <4>1. ASSUME NEW i \in 0..n PROVE (IF i = 0 THEN 0 ELSE frames[i]) \in Nat
        <5>1. i = 0 \/ i \in 1..n  BY <2>1
        <5> QED  BY <2>3, <5>1
      <4> HIDE DEF frames, n
      <4> QED  BY <4>1
    <3>3. ASSUME NEW i \in 1..n PROVE t[i - 1] < t[i]
      <4>1. CASE i = 1  BY <2>3, <3>1, <4>1
      <4>2. CASE i # 1
        <5>1. i - 1 \in 1..n /\ i - 1 < i  BY <4>2
        <5>2. frames[i - 1] < frames[i]  BY <2>1, <2>3, <5>1 DEF Fresh
        <5> QED  BY <3>1, <5>1, <5>2
      <4> QED  BY <4>1, <4>2
    <3> QED  BY <3>1, <3>2, <3>3
  <2>6. /\ w \in [0..n -> Nat] /\ w[n] = n
        /\ \A i \in 1..n : w[i - 1] = i - 1 /\ w[i] = i
    BY <2>1
  <2> HIDE DEF pieces, t, w, frames, n
  <2>7. InTurn(pieces, t)
    <3>1. ASSUME NEW i \in 1..n PROVE t[i - 1] <= t[i] /\ Fresh(pieces[i], t[i - 1], t[i])
      <4>1. t[i - 1] \in Nat /\ t[i] \in Nat /\ t[i - 1] < t[i]
        <5>1. i - 1 \in 0..n /\ i \in 0..n  BY <2>1
        <5> QED  BY <2>5, <5>1
      <4>2. t[i] \in Nat \ {Silence} /\ pieces[i] = Decoded(t[i])  BY <2>3, <2>5
      <4> QED  BY <4>1, <4>2, DecodedFresh
    <3> QED  BY <2>4, <2>5, <3>1 DEF InTurn
  <2>8. \A i \in 1..n : w[i - 1] + Len(pieces[i]) <= w[i] /\ Len(pieces[i]) <= MaxPendingAudio
    <3> TAKE i \in 1..n
    <3>1. frames[i] \in Nat \ {Silence} /\ pieces[i] = Decoded(frames[i])  BY <2>3
    <3>2. Len(pieces[i]) \in 0..1  BY <3>1, DecodedIs
    <3>3. w[i - 1] = i - 1 /\ w[i] = i  BY <2>6
    <3>4. i \in Nat  BY <2>1
    <3>5. PICK k : k = Len(pieces[i])  OBVIOUS
    <3>6. k \in 0..1  BY <3>2, <3>5
    <3>7. k <= MaxPendingAudio  BY <3>6
    <3>8. w[i - 1] + k <= w[i]  BY <3>3, <3>4, <3>6
    <3> QED  BY <3>5, <3>7, <3>8
  <2>9. /\ \E m \in 0..t[n] : Fresh(appended', 0, m) /\ Fresh(pendingAudioData', m, t[n])
        /\ Len(pendingAudioData') <= MaxPendingAudio
        /\ connectionStatus = "connected" => pendingAudioData' = <<>>
        /\ \E s \in Seq(Nat) : /\ appended' = appended \o s /\ Len(s) <= w[n]
                               /\ sentSamples' = sentSamples + Len(s)
        /\ \A x : x \in Passed' <=> x \in Passed \/ \E i \in 1..n : x \in ChunksOf(pieces[i])
    <3>1. 0 \in Nat /\ 0 <= t[0] /\ Fresh(appended, 0, 0) /\ Fresh(pendingAudioData, 0, t[0])
          /\ sentSamples \in Nat /\ Len(pendingAudioData) <= MaxPendingAudio
      BY <2>2, <2>5, NothingFresh
    <3>2. SendOrEnqueue(pieces)  BY <1>3 DEF pieces, frames
    <3>3. w \in [0..Len(pieces) -> Nat]  BY <2>4, <2>6
    <3>4. connectionStatus = "connected" => pendingAudioData = <<>>  BY <2>2
    <3> QED  BY <1>3, <2>4, <2>7, <2>8, <3>1, <3>2, <3>3, <3>4, SentOrQueued
  <2>10. PICK m \in 0..t[n] : Fresh(appended', 0, m) /\ Fresh(pendingAudioData', m, t[n])  BY <2>9
  <2>11. PICK s \in Seq(Nat) : /\ appended' = appended \o s /\ Len(s) <= n
                               /\ sentSamples' = sentSamples + Len(s)
    BY <2>6, <2>9
  <2>12. t[n] \in 0..lastChunkNo
    <3>1. CASE n = 0  BY <2>1, <2>5, <3>1
    <3>2. CASE n # 0
      <4>1. n \in 1..n  BY <2>1, <3>2
      <4>2. t[n] = frames[n] /\ frames[n] \in Nat /\ frames[n] <= lastChunkNo  BY <2>3, <2>5, <4>1
      <4> QED  BY <2>1, <4>2
    <3> QED  BY <3>1, <3>2
  <2>13. m \in 0..lastChunkNo' /\ Fresh(pendingAudioData', m, lastChunkNo')
    <3>1. m \in Nat /\ t[n] \in Nat /\ m \in 0..m  BY <2>12
    <3>2. Fresh(pendingAudioData', m, lastChunkNo)  BY <2>1, <2>10, <2>12, <3>1, FreshWider
    <3>3. m \in 0..lastChunkNo  BY <2>1, <2>12
    <3> QED  BY <1>1, <3>2, <3>3
  <2>14. appended' = s /\ Len(s) \in Nat /\ sentSamples' = Len(s)  BY <2>2, <2>11
  <2>15. Kinds'  BY <1>1, <2>14 DEF IInv, Kinds
  <2>16. InOrder'
    <3>1. <<>> \in Seq(Nat \ {Silence}) /\ Len(<<>>) <= MaxPendingFrames  OBVIOUS
    <3> QED  BY <1>1, <2>9, <2>10, <2>13, <3>1, NothingFresh DEF InOrder
  <2>17. Stages'  BY <1>1, <1>3, <2>9 DEF IInv, Stages
  <2>18. Money'
    <3>1. billed = 0 /\ reportedSamples = 0  BY <2>2 DEF IInv, Kinds, Money, BilledAsSent
    <3> QED  BY <1>1, <1>3, <2>14, <3>1 DEF Money, BilledAsSent
  <2>19. NothingElseLost'
    <3>1. \A x : (\E i \in 1..n : x \in ChunksOf(pieces[i])) <=> x \in ChunksOf(frames) \ corrupt
      <4>1. DOMAIN frames = 1..n  BY <2>1 DEF n
      <4>2. ASSUME NEW i \in 1..n
            PROVE  ChunksOf(pieces[i]) = {frames[i]} \ corrupt /\ frames[i] # Silence
        <5>1. frames[i] \in Nat \ {Silence} /\ pieces[i] = Decoded(frames[i])  BY <2>3
        <5> QED  BY <5>1, DecodedIs
      <4>3. \A x : x \in ChunksOf(frames) <=> \E i \in 1..n : x = frames[i] /\ x # Silence
        BY <4>1 DEF ChunksOf
      <4> QED  BY <4>2, <4>3
    <3>2. accepted \ corrupt = (Passed \cup ChunksOf(frames)) \ corrupt
      BY <1>3 DEF IInv, NothingElseLost, Passed, frames
    <3>3. ChunksOf(pendingOpusFrames)' = {}  BY <1>1 DEF ChunksOf
    <3>4. accepted' \ corrupt' = (Passed' \cup {}) \ corrupt'  BY <1>1, <2>9, <3>1, <3>2
    <3> QED  BY <3>3, <3>4 DEF NothingElseLost, Passed
  <2>20. Hands
    <3>1. Len(s) <= Most  BY <2>1, <2>11, <2>14 DEF Most
    <3>2. lastChunkNo' = lastChunkNo /\ lastChunkNo <= lastChunkNo  BY <1>1, <2>1
    <3> QED  BY <1>3, <2>1, <2>11, <3>1, <3>2 DEF Hands
  <2> QED  BY <2>15, <2>16, <2>17, <2>18, <2>19, <2>20 DEF IInv, Outcome
<1> QED  BY <1>2, <1>3 DEF DecoderReady

LEMMA ConcealmentIs ==
    ASSUME IInv, NEW n \in Nat, NEW c \in Concealment(n)
    PROVE  /\ c \in Seq(Nat) /\ Len(c) <= MaxConcealment /\ Fresh(c, lastChunkNo, lastChunkNo)
           /\ ChunksOf(c) = {}
<1>1. CASE c = <<>>  BY <1>1, NothingFresh
<1>2. CASE c # <<>>
  <2>1. PICK k \in 1..MaxConcealment : c = Concealed(k)
    <3> DEFINE gap == n - lastChunkNo - 1
               most == IF gap < MaxConcealment THEN gap ELSE MaxConcealment
    <3>1. PICK k \in 1..most : c = Concealed(k)  BY <1>2 DEF Concealment
    <3>2. gap \in Int => most \in Int /\ most <= MaxConcealment  OBVIOUS
    <3>3. gap \in Int  BY DEF IInv, Kinds
    <3> HIDE DEF most
    <3>4. k \in 1..MaxConcealment  BY <3>1, <3>2, <3>3
    <3> QED  BY <3>1, <3>4
  <2>2. c = [i \in 1..k |-> 0] /\ k \in Nat  BY <2>1 DEF Concealed, Silence
  <2>3. c \in Seq(Nat) /\ Len(c) = k /\ \A i \in DOMAIN c : c[i] = 0  BY <2>2
  <2> QED  BY <2>1, <2>3 DEF Fresh, ChunksOf, Silence
<1> QED  BY <1>1, <1>2

\* A frame that is decoded at once, after the concealment of what is missing before it.
LEMMA DecodesStep ==
    ASSUME IInv, NEW n \in Chunks, lastChunkNo < n, decoderStatus = "ready", ~isClosed,
           lastChunkNo' = n, accepted' = accepted \cup {n},
           NEW c \in Concealment(n), SendOrEnqueue(<<c, Decoded(n)>>),
           UNCHANGED <<corrupt, connectionStatus, decoderStatus, loading, socket, isClosed, reportedSamples,
                       billed, told, pendingOpusFrames>>
    PROVE  Outcome
<1> DEFINE pieces == <<c, Decoded(n)>>
           t == [i \in 0..2 |-> IF i = 2 THEN n ELSE lastChunkNo]
           w == [i \in 0..2 |-> IF i = 0 THEN 0 ELSE IF i = 1 THEN Len(c) ELSE Len(c) + 1]
<1>1. n \in Nat \ {Silence} /\ lastChunkNo \in Nat  BY DEF Chunks, Silence, IInv, Kinds
<1>2. /\ c \in Seq(Nat) /\ Len(c) \in Nat /\ Len(c) <= MaxConcealment
      /\ Fresh(c, lastChunkNo, lastChunkNo) /\ ChunksOf(c) = {}
  BY <1>1, ConcealmentIs
<1>3. /\ Decoded(n) \in Seq(Nat) /\ Len(Decoded(n)) \in 0..1 /\ Fresh(Decoded(n), lastChunkNo, n)
      /\ ChunksOf(Decoded(n)) = {n} \ corrupt
  BY <1>1, DecodedIs, DecodedFresh
<1>4. pieces \in Seq(Seq(Nat)) /\ Len(pieces) = 2 /\ pieces[1] = c /\ pieces[2] = Decoded(n)
  BY <1>2, <1>3
<1>5. /\ t \in [0..2 -> Nat] /\ t[0] = lastChunkNo /\ t[1] = lastChunkNo /\ t[2] = n
      /\ w \in [0..2 -> Nat] /\ w[0] = 0 /\ w[1] = Len(c) /\ w[2] = Len(c) + 1
  BY <1>1, <1>2
<1>6. SendOrEnqueue(pieces)  OBVIOUS
<1> HIDE DEF pieces, t, w
<1>7. \A i \in 1..2 : i = 1 \/ i = 2  OBVIOUS
<1>8. InTurn(pieces, t)
  <2>1. ASSUME NEW i \in 1..2 PROVE t[i - 1] <= t[i] /\ Fresh(pieces[i], t[i - 1], t[i])
    <3>1. CASE i = 1  BY <1>1, <1>2, <1>4, <1>5, <3>1
    <3>2. CASE i = 2  BY <1>1, <1>3, <1>4, <1>5, <3>2
    <3> QED  BY <1>7, <3>1, <3>2
  <2> QED  BY <1>4, <1>5, <2>1 DEF InTurn
<1>9. \A i \in 1..2 : w[i - 1] + Len(pieces[i]) <= w[i] /\ Len(pieces[i]) <= MaxPendingAudio
  <2> TAKE i \in 1..2
  <2>1. CASE i = 1  BY <1>2, <1>4, <1>5, <2>1
  <2>2. CASE i = 2
    <3>1. PICK a, b : a = Len(c) /\ b = Len(Decoded(n))  OBVIOUS
    <3>2. a \in Nat /\ b \in 0..1 /\ w[1] = a /\ w[2] = a + 1 /\ Len(pieces[2]) = b
      BY <1>2, <1>3, <1>4, <1>5, <3>1
    <3>3. w[1] + b <= w[2] /\ b <= MaxPendingAudio  BY <3>2
    <3> QED  BY <2>2, <3>2, <3>3
  <2> QED  BY <1>7, <2>1, <2>2
<1>10. PICK mid \in 0..lastChunkNo : Fresh(appended, 0, mid) /\ Fresh(pendingAudioData, mid, lastChunkNo)
  BY DEF IInv, InOrder
<1>11. /\ \E m \in 0..t[2] : Fresh(appended', 0, m) /\ Fresh(pendingAudioData', m, t[2])
       /\ Len(pendingAudioData') <= MaxPendingAudio
       /\ connectionStatus = "connected" => pendingAudioData' = <<>>
       /\ \E s \in Seq(Nat) : /\ appended' = appended \o s /\ Len(s) <= w[2]
                              /\ sentSamples' = sentSamples + Len(s)
       /\ \A x : x \in Passed' <=> x \in Passed \/ \E i \in 1..2 : x \in ChunksOf(pieces[i])
  <2>1. /\ mid \in Nat /\ mid <= t[0] /\ Fresh(pendingAudioData, mid, t[0])
    BY <1>1, <1>5, <1>10
  <2>2. /\ sentSamples \in Nat /\ Len(pendingAudioData) <= MaxPendingAudio
        /\ connectionStatus = "connected" => pendingAudioData = <<>>
    BY DEF IInv, Kinds, InOrder, Stages
  <2>3. w \in [0..Len(pieces) -> Nat]  BY <1>4, <1>5
  <2> QED  BY <1>4, <1>6, <1>8, <1>9, <1>10, <2>1, <2>2, <2>3, SentOrQueued
<1>12. PICK s \in Seq(Nat) : /\ appended' = appended \o s /\ Len(s) <= Len(c) + 1
                             /\ sentSamples' = sentSamples + Len(s)
  BY <1>5, <1>11
<1>13. appended \in Seq(Nat) /\ Len(s) \in Nat /\ Len(appended') = Len(appended) + Len(s)
  BY <1>10, <1>12 DEF Fresh
<1>14. Kinds'  BY <1>1, <1>12, <1>13 DEF IInv, Kinds
<1>15. InOrder'
  <2>1. Fresh(pendingOpusFrames, 0, n)
    <3>1. 0 \in 0..0 /\ lastChunkNo <= n  BY <1>1
    <3> QED  BY <1>1, <3>1, FreshWider DEF IInv, InOrder
  <2> QED  BY <1>5, <1>11, <2>1 DEF IInv, InOrder
<1>16. Stages'  BY <1>11 DEF IInv, Stages
<1>17. Money'  BY <1>12, <1>13 DEF IInv, Kinds, Money, BilledAsSent
<1>18. NothingElseLost'
  <2>1. \A x : x \in Passed' <=> x \in Passed \/ x \in {n} \ corrupt
    <3>1. ChunksOf(pieces[1]) = {} /\ ChunksOf(pieces[2]) = {n} \ corrupt  BY <1>2, <1>3, <1>4
    <3>2. 1 \in 1..2 /\ 2 \in 1..2  OBVIOUS
    <3>3. \A x : (\E i \in 1..2 : x \in ChunksOf(pieces[i])) <=> x \in {n} \ corrupt
      BY <1>7, <3>1, <3>2
    <3> QED  BY <1>11, <3>3
  <2>2. accepted \ corrupt = (Passed \cup ChunksOf(pendingOpusFrames)) \ corrupt
    BY DEF IInv, NothingElseLost, Passed
  <2>3. ChunksOf(pendingOpusFrames)' = ChunksOf(pendingOpusFrames)  BY DEF ChunksOf
  <2>4. accepted' \ corrupt' = (Passed' \cup ChunksOf(pendingOpusFrames)') \ corrupt'
    BY <2>1, <2>2, <2>3
  <2> QED  BY <2>4 DEF NothingElseLost, Passed
<1>19. Hands
  <2>1. Len(s) <= Most  BY <1>2, <1>12, <1>13 DEF Most
  <2>2. lastChunkNo' \in Nat /\ lastChunkNo <= lastChunkNo'  BY <1>1
  <2> QED  BY <1>12, <2>1, <2>2 DEF Hands
<1> QED  BY <1>14, <1>15, <1>16, <1>17, <1>18, <1>19 DEF IInv, Outcome

\* A frame that waits for the decoder, or is dropped.
LEMMA WaitsStep ==
    ASSUME IInv, NEW n \in Chunks, lastChunkNo < n, lastChunkNo' = n, accepted' = accepted \cup {n},
           UNCHANGED <<corrupt, connectionStatus, decoderStatus, loading, socket, isClosed, reportedSamples,
                       billed, told, pendingAudioData, appended, sentSamples>>,
           \/ /\ decoderStatus = "pending" /\ Len(pendingOpusFrames) < MaxPendingFrames
              /\ pendingOpusFrames' = Append(pendingOpusFrames, n) /\ lost' = lost
           \/ pendingOpusFrames' = pendingOpusFrames /\ lost' = lost \cup {n}
    PROVE  Outcome
<1>1. n \in Nat \ {Silence} /\ lastChunkNo \in Nat  BY DEF Chunks, Silence, IInv, Kinds
<1>2. PICK mid \in 0..lastChunkNo : Fresh(appended, 0, mid) /\ Fresh(pendingAudioData, mid, lastChunkNo)
  BY DEF IInv, InOrder
<1>3. /\ Fresh(pendingOpusFrames, 0, lastChunkNo) /\ pendingOpusFrames \in Seq(Nat \ {Silence})
      /\ Len(pendingOpusFrames) <= MaxPendingFrames
  BY DEF IInv, InOrder
<1>4. mid \in 0..n /\ Fresh(pendingAudioData, mid, n) /\ Fresh(pendingOpusFrames, 0, n)
  <2>1. mid \in Nat /\ mid \in 0..mid /\ 0 \in 0..0 /\ lastChunkNo <= n /\ mid \in 0..n  BY <1>1, <1>2
  <2> QED  BY <1>1, <1>2, <1>3, <2>1, FreshWider
<1>5. /\ Fresh(pendingOpusFrames', 0, n) /\ pendingOpusFrames' \in Seq(Nat \ {Silence})
      /\ Len(pendingOpusFrames') <= MaxPendingFrames
      /\ \A x : x \in lost' \cup ChunksOf(pendingOpusFrames')
                  <=> x = n \/ x \in lost \cup ChunksOf(pendingOpusFrames)
  <2>1. CASE pendingOpusFrames' = pendingOpusFrames /\ lost' = lost \cup {n}  BY <1>3, <1>4, <2>1
  <2>2. CASE /\ Len(pendingOpusFrames) < MaxPendingFrames
             /\ pendingOpusFrames' = Append(pendingOpusFrames, n) /\ lost' = lost
    <3>1. <<n>> \in Seq(Nat) /\ Fresh(<<n>>, lastChunkNo, n) /\ ChunksOf(<<n>>) = {n} /\ Len(<<n>>) = 1
      BY <1>1 DEF Fresh, ChunksOf
    <3>2. pendingOpusFrames \in Seq(Nat) /\ 0 <= lastChunkNo /\ lastChunkNo <= n  BY <1>1, <1>3 DEF Fresh
    <3>3. Append(pendingOpusFrames, n) = pendingOpusFrames \o <<n>>  BY <1>1, <3>2
    <3>4. /\ Fresh(pendingOpusFrames', 0, n)
          /\ ChunksOf(pendingOpusFrames') = ChunksOf(pendingOpusFrames) \cup {n}
      BY <1>1, <1>3, <2>2, <3>1, <3>2, <3>3, FreshConcat
    <3>5. /\ Append(pendingOpusFrames, n) \in Seq(Nat \ {Silence})
          /\ Len(Append(pendingOpusFrames, n)) <= MaxPendingFrames
      BY <1>1, <1>3, <2>2
    <3> QED  BY <2>2, <3>4, <3>5
  <2> QED  BY <2>1, <2>2
<1>6. Kinds'  BY <1>1 DEF IInv, Kinds
<1>7. InOrder'  BY <1>2, <1>4, <1>5 DEF IInv, InOrder
<1>8. Stages'  BY DEF IInv, Stages
<1>9. Money'  BY DEF IInv, Money, BilledAsSent
<1>10. NothingElseLost'
  <2>1. /\ ChunksOf(appended)' = ChunksOf(appended) /\ ChunksOf(pendingAudioData)' = ChunksOf(pendingAudioData)
        /\ ChunksOf(pendingOpusFrames)' = ChunksOf(pendingOpusFrames')
    BY DEF ChunksOf
  <2> QED  BY <1>5, <2>1 DEF IInv, NothingElseLost
<1>11. Hands
  <2>1. lastChunkNo' \in Nat /\ lastChunkNo <= lastChunkNo'  BY <1>1
  <2>2. <<>> \in Seq(Nat) /\ appended' = appended \o <<>> /\ Len(<<>>) <= Most  BY NothingHanded
  <2> QED  BY <2>1, <2>2 DEF Hands
<1> QED  BY <1>6, <1>7, <1>8, <1>9, <1>10, <1>11 DEF IInv, Outcome

LEMMA MediaStep ==
    ASSUME IInv, NEW n \in Chunks, Media(n)
    PROVE  Outcome
<1>1. UNCHANGED <<corrupt, connectionStatus, decoderStatus, loading, socket, isClosed, reportedSamples, billed, told>>
  BY DEF Media
<1>2. lastChunkNo \in Nat /\ n \in Nat \ {0}  BY DEF Chunks, IInv, Kinds
<1>3. CASE UNCHANGED <<lastChunkNo, decoded, accepted, queues, appended, sentSamples, lost>>
  <2>1. UNCHANGED <<lastChunkNo, accepted, pendingOpusFrames, pendingAudioData, appended, sentSamples, lost>>
    BY <1>3 DEF queues
  <2>2. Kinds' /\ InOrder' /\ Stages' /\ Money' /\ NothingElseLost'
    BY <1>1, <2>1 DEF IInv, Kinds, InOrder, Stages, Money, BilledAsSent, NothingElseLost, ChunksOf
  <2>3. Hands  BY <1>1, <2>1, NothingHanded DEF Hands
  <2> QED  BY <2>2, <2>3 DEF IInv, Outcome
<1>4. CASE Newer(n) /\ lastChunkNo' = n /\ accepted' = accepted \cup {n}
           /\ ~UNCHANGED <<lastChunkNo, decoded, accepted, queues, appended, sentSamples, lost>>
  <2>1. lastChunkNo < n  BY <1>2, <1>4 DEF Newer, NoChunk
  <2>2. \/ /\ decoderStatus = "ready" /\ ~isClosed
           /\ \E c \in Concealment(n) : SendOrEnqueue(<<c, Decoded(n)>>)
           /\ UNCHANGED pendingOpusFrames
        \/ /\ decoderStatus = "pending"
           /\ \/ /\ Len(pendingOpusFrames) < MaxPendingFrames
                 /\ pendingOpusFrames' = Append(pendingOpusFrames, n) /\ UNCHANGED lost
              \/ lost' = lost \cup {n} /\ UNCHANGED pendingOpusFrames
           /\ UNCHANGED <<pendingAudioData, appended, sentSamples>>
        \/ lost' = lost \cup {n} /\ UNCHANGED <<queues, appended, sentSamples>>
    BY <1>4 DEF Media
  <2>3. CASE /\ decoderStatus = "ready" /\ ~isClosed
             /\ \E c \in Concealment(n) : SendOrEnqueue(<<c, Decoded(n)>>)
             /\ UNCHANGED pendingOpusFrames
    BY <1>1, <1>4, <2>1, <2>3, DecodesStep
  <2>4. CASE /\ decoderStatus = "pending" /\ Len(pendingOpusFrames) < MaxPendingFrames
             /\ pendingOpusFrames' = Append(pendingOpusFrames, n) /\ UNCHANGED lost
             /\ UNCHANGED <<pendingAudioData, appended, sentSamples>>
    BY <1>1, <1>4, <2>1, <2>4, WaitsStep
  <2>5. CASE /\ lost' = lost \cup {n}
             /\ UNCHANGED <<pendingOpusFrames, pendingAudioData, appended, sentSamples>>
    BY <1>1, <1>4, <2>1, <2>5, WaitsStep
  <2> QED  BY <2>2, <2>3, <2>4, <2>5 DEF queues
<1> QED  BY <1>3, <1>4 DEF Media

LEMMA EveryStep ==
    ASSUME IInv, [Next]_vars
    PROVE  Outcome
<1>1. CASE InitializeOpenAIWebSocket
  <2>1. UNCHANGED loading  BY <1>1 DEF InitializeOpenAIWebSocket
  <2>2. CASE /\ ~isClosed
             /\ UNCHANGED <<corrupt, input, connectionStatus, decoderStatus, isClosed,
                            queues, usage, appended, told, lost>>
    <3>1. Stages'  BY <2>1, <2>2 DEF IInv, Stages, queues
    <3> QED  BY <2>2, <3>1, SameStep
  <2> QED  BY <1>1, <2>2, DoCloseStep, AlreadyClosedStep DEF InitializeOpenAIWebSocket, StillWanted
<1>2. CASE DecoderReady  BY <1>2, DecoderReadyStep
<1>3. CASE DecoderFails
  <2>1. CASE /\ isClosed
             /\ UNCHANGED <<corrupt, input, connectionStatus, socket, isClosed, queues, usage,
                            appended, told, lost>>
    <3>1. Stages'  BY <2>1 DEF IInv, Stages
    <3> QED  BY <2>1, <3>1, SameStep
  <2> QED  BY <1>3, <2>1, DoCloseStep DEF DecoderFails
<1>4. CASE SocketOpens  BY <1>4, SocketOpensStep
<1>5. CASE SocketError \/ SocketClosed \/ EncoderFails \/ Close
  BY <1>5, DoCloseStep, AlreadyClosedStep DEF SocketError, SocketClosed, EncoderFails, Close
<1>6. CASE ServiceError
  <2>1. isClosed => socket \notin {"connecting", "open"}  BY DEF IInv, Stages
  <2> QED  BY <1>6, <2>1, DoCloseStep, AlreadyClosedStep DEF ServiceError, AlreadyClosed
<1>7. CASE ServiceCloses
  <2>1. /\ socket' = "closing"
        /\ UNCHANGED <<corrupt, input, connectionStatus, decoderStatus, loading, isClosed,
                       queues, usage, appended, told, lost>>
    BY <1>7 DEF ServiceCloses
  <2>2. Stages'  BY <2>1 DEF IInv, Stages, queues
  <2> QED  BY <2>1, <2>2, SameStep
<1>8. ASSUME NEW n \in Chunks, Media(n) PROVE Outcome  BY <1>8, MediaStep
<1>9. CASE UsageTimer
  <2>1. /\ ~isClosed /\ billed' = billed + (sentSamples - reportedSamples) /\ reportedSamples' = sentSamples
        /\ UNCHANGED <<corrupt, lastChunkNo, accepted, connectionStatus, decoderStatus, loading, socket, isClosed,
                       pendingOpusFrames, pendingAudioData, sentSamples, appended, told, lost>>
    BY <1>9 DEF UsageTimer, ReportUsageDelta, input, queues
  <2>2. Kinds'  BY <2>1 DEF IInv, Kinds, Money, BilledAsSent
  <2>3. InOrder' /\ Stages' /\ NothingElseLost'
    BY <2>1 DEF IInv, InOrder, Stages, NothingElseLost, ChunksOf
  <2>4. Money'  BY <2>1 DEF IInv, Kinds, Money, BilledAsSent
  <2>5. Hands  BY <2>1, NothingHanded DEF Hands
  <2> QED  BY <2>2, <2>3, <2>4, <2>5 DEF IInv, Outcome
<1>10. CASE UNCHANGED vars
  <2>1. Stages'  BY <1>10 DEF vars, queues, IInv, Stages
  <2> QED  BY <1>10, <2>1, SameStep DEF vars
<1> QED  BY <1>1, <1>2, <1>3, <1>4, <1>5, <1>6, <1>7, <1>8, <1>9, <1>10 DEF Next

LEMMA Invariance == Spec => []IInv
<1>1. IInv /\ [Next]_vars => IInv'  BY EveryStep DEF Outcome
<1> QED  BY <1>1, InitIInv, PTL DEF Spec
-----------------------------------------------------------------------------
\* From handleMediaEvent to reportUsageDelta, whatever the decoder and the socket do and
\* when: a frame that decodes is lost only at a cap, by a failed send or a close, and what is
\* billed is what was appended, all of it at the close.
THEOREM AudioAccountedHolds == Spec => []AudioAccounted
<1>1. IInv => AudioAccounted  BY DEF IInv, Money, AudioAccounted
<1> QED  BY <1>1, Invariance, PTL

\* After doClose, no promise, event or message that still comes appends, bills or tells the
\* owner anything.
THEOREM ClosedIsQuietHolds == Spec => ClosedIsQuiet
<1>1. IInv /\ [Next]_vars => [isClosed => UNCHANGED <<isClosed, appended, billed, told>>]_vars
  BY EveryStep DEF Outcome, Hands
<1> QED  BY <1>1, Invariance, PTL DEF Spec, ClosedIsQuiet

\* The connection is an ordered relay of the frames that come in order (handleMediaEvent):
\* through both processPending methods, concealment included, the service hears each at most
\* once and in order.
THEOREM RelayImplemented == Spec => RelayHolds
<1>1. Init => Relay!Init  BY DEF Init, Relay!Init, NoChunk
<1>2. IInv /\ [Next]_vars => [Relay!Next]_<<lastChunkNo, appended>>
  <2> SUFFICES ASSUME IInv, [Next]_vars PROVE Relay!Next  OBVIOUS
  <2>1. IInv' /\ Hands  BY EveryStep DEF Outcome
  <2>2. PICK s \in Seq(Nat) : appended' = appended \o s /\ Len(s) <= Most  BY <2>1 DEF Hands
  <2>3. appended \in Seq(Nat) /\ Len(s) \in Nat  BY DEF IInv, InOrder, Fresh
  <2>4. PICK mid \in 0..lastChunkNo' : Fresh(appended', 0, mid)  BY <2>1 DEF IInv, InOrder
  <2>5. lastChunkNo' \in Nat /\ lastChunkNo' >= lastChunkNo  BY <2>1 DEF Hands, IInv, Kinds
  <2>6. appended' \in Seq(Nat)  BY <2>4 DEF Fresh
  <2>7. Len(appended') \in Len(appended)..(Len(appended) + Most)  BY <2>2, <2>3 DEF Most
  <2>8. ASSUME NEW i \in DOMAIN appended PROVE appended'[i] = appended[i]  BY <2>2, <2>3
  <2>9. Relay!Increasing(appended')  BY <2>4 DEF Fresh, Relay!Increasing, Relay!Messages
  <2>10. ASSUME NEW i \in Relay!Messages(appended') PROVE appended'[i] \in 1..lastChunkNo'
    <3>1. i \in DOMAIN appended' /\ appended'[i] # Silence  BY DEF Relay!Messages
    <3>2. appended'[i] \in Nat /\ 0 < appended'[i] /\ appended'[i] <= mid  BY <2>4, <2>6, <3>1 DEF Fresh
    <3> QED  BY <2>4, <2>5, <3>2
  <2> QED  BY <2>5, <2>6, <2>7, <2>8, <2>9, <2>10 DEF Relay!Next, Relay!Accept, Relay!Deliver, Most
<1> QED  BY <1>1, <1>2, Invariance, PTL DEF Spec, RelayHolds, Relay!Spec
=============================================================================
