--------------------- MODULE TranscriptionBackends_proofs ---------------------
(***************************************************************************)
(* Proofs about TranscriptionBackends, for every provider, any vocabulary    *)
(* and any guard and batch of the granular finals.                           *)
(***************************************************************************)
EXTENDS TranscriptionBackends, TLAPS, SequenceTheorems, WellFoundedInduction

USE BackendsAssumption, SegmenterAssumption
-----------------------------------------------------------------------------
(* The segmenter. *)
Segmenters == [baseText : Seq(Words), hyp : Seq(Words), stable : Int, emitted : Nat,
               pending : Seq(Words)]

LEMMA LeastOf ==
    ASSUME NEW S, S \subseteq Nat, S # {}
    PROVE  \E x \in S : \A y \in S : x <= y
<1>1. IsWellFoundedOn(OpToRel(<, Nat), Nat)  BY NatLessThanWellFounded
<1>2. PICK x \in S : \A y \in S : ~(<<y, x>> \in OpToRel(<, Nat))  BY <1>1, WFMin
<1>3. \A y \in S : ~(y < x)  BY <1>2 DEF OpToRel
<1> QED  BY <1>3

\* Induction from 0 to n: a set that holds 0, and i if it holds i - 1, holds them all.
LEMMA Climb ==
    ASSUME NEW n \in Nat, NEW S, 0 \in S, \A i \in 1..n : i - 1 \in S => i \in S
    PROVE  n \in S
<1> DEFINE Missing == {i \in 0..n : i \notin S}
<1> SUFFICES ASSUME Missing # {} PROVE FALSE  OBVIOUS
<1>1. PICK k \in Missing : \A y \in Missing : k <= y
  <2>1. Missing \subseteq Nat  OBVIOUS
  <2> HIDE DEF Missing
  <2> QED  BY <2>1, LeastOf
<1>2. k \in 1..n /\ k - 1 \in 0..n /\ k - 1 \notin Missing  BY <1>1
<1> QED  BY <1>1, <1>2

LEMMA MinIs ==
    ASSUME NEW a \in Int, NEW b \in Int
    PROVE  Min({a, b}) \in Int /\ Min({a, b}) <= a /\ Min({a, b}) <= b
<1>1. \E x \in {a, b} : \A y \in {a, b} : x <= y  OBVIOUS
<1>2. Min({a, b}) \in {a, b} /\ \A y \in {a, b} : Min({a, b}) <= y  BY <1>1 DEF Min
<1> QED  BY <1>2

\* Two hypotheses agree up to some word.
LEMMA Agreeing ==
    ASSUME NEW s \in Seq(Words), NEW t \in Seq(Words)
    PROVE  Len(LongestCommonPrefix({s, t})) \in Nat
<1> DEFINE C == CommonPrefixes({s, t})
           Rest == {n \in Nat : \E p \in C : Len(p) = Len(s) - n}
<1>1. ASSUME NEW p \in C PROVE p \in Seq(Words) /\ Len(p) \in 0..Len(s)
  <2>1. PICK u \in {s, t} : \E l \in 0..Len(u) : p = SubSeq(u, 1, l) /\ IsPrefix(p, s)
    BY DEF CommonPrefixes, Prefixes
  <2>2. PICK l \in 0..Len(u) : p = SubSeq(u, 1, l) /\ IsPrefix(p, s)  BY <2>1
  <2>3. \A i \in 1..l : u[i] \in Words  BY <2>2
  <2>4. l \in Int  BY <2>2, LenProperties
  <2>5. p \in Seq(Words)  BY <2>2, <2>3, <2>4, SubSeqProperties
  <2> QED  BY <2>2, <2>5, LenProperties DEF IsPrefix
<1>2. <<>> \in C
  <2>1. 0 \in 0..Len(s) /\ SubSeq(s, 1, 0) = <<>> /\ SubSeq(t, 1, 0) = <<>>
    BY SubSeqEmpty, LenProperties
  <2>2. <<>> \in Prefixes(s)  BY <2>1 DEF Prefixes
  <2>3. \A u \in {s, t} : IsPrefix(<<>>, u)
    <3>1. SubSeq(<<>>, 1, 0) = <<>> /\ Len(<<>>) = 0  BY SubSeqEmpty
    <3> QED  BY <2>1, <3>1, LenProperties DEF IsPrefix
  <2> QED  BY <2>2, <2>3 DEF CommonPrefixes
<1>3. Rest \subseteq Nat /\ Rest # {}
  <2>1. Len(s) \in Rest  BY <1>2, LenProperties
  <2> QED  BY <2>1
<1> HIDE DEF C
<1>4. PICK n \in Rest : \A m \in Rest : n <= m
  <2> HIDE DEF Rest
  <2> QED  BY <1>3, LeastOf
<1>5. PICK p \in C : Len(p) = Len(s) - n  BY <1>4
<1>6. ASSUME NEW q \in C PROVE Len(q) <= Len(p)
  <2>1. Len(q) \in 0..Len(s)  BY <1>1
  <2>2. Len(s) - Len(q) \in Rest  BY <2>1, LenProperties
  <2>3. n <= Len(s) - Len(q)  BY <1>4, <2>2
  <2> QED  BY <1>4, <1>5, <2>1, <2>3, LenProperties
<1>7. LongestCommonPrefix({s, t}) \in C
  <2>1. LongestCommonPrefix({s, t}) = CHOOSE longest \in C : \A other \in C : Len(other) <= Len(longest)
    BY DEF LongestCommonPrefix, C
  <2> QED  BY <1>5, <1>6, <2>1
<1> QED  BY <1>1, <1>7

\* The words in the buffer are some of those batched.
BufSoFar(f, p, n) ==
    f = [i \in 0..n |-> IF i = 0 \/ f[i - 1] + 1 >= MinWords \/ p[i] \in SentenceEnds
                        THEN 0 ELSE f[i - 1] + 1]

LEMMA Batched ==
    ASSUME NEW p, Len(p) \in Nat
    PROVE  Buffered(p) \in 0..Len(p)
<1> DEFINE n == Len(p)
           Next1(f, i) == IF i = 0 \/ f[i - 1] + 1 >= MinWords \/ p[i] \in SentenceEnds
                          THEN 0 ELSE f[i - 1] + 1
           S == {k \in 0..n : \E f : BufSoFar(f, p, k)}
<1>1. 0 \in S
  <2>1. PICK f : f = [i \in 0..0 |-> 0]  OBVIOUS
  <2>2. \A i \in 0..0 : i = 0  OBVIOUS
  <2>3. BufSoFar(f, p, 0)  BY <2>1, <2>2 DEF BufSoFar
  <2> QED  BY <2>3
<1>2. ASSUME NEW k \in 1..n, k - 1 \in S PROVE k \in S
  <2>1. PICK f : f = [i \in 0..(k - 1) |-> Next1(f, i)]
    BY <1>2 DEF BufSoFar
  <2> HIDE DEF Next1
  <2>2. PICK g : g = [i \in 0..k |-> IF i = k THEN Next1(f, k) ELSE f[i]]  OBVIOUS
  <2>3. ASSUME NEW i \in 0..k PROVE g[i] = Next1(g, i)
    <3>1. CASE i = k
      <4>1. k # 0 /\ k - 1 \in 0..k /\ k - 1 # k  OBVIOUS
      <4>2. g[k - 1] = f[k - 1]  BY <2>2, <4>1
      <4>3. g[k] = Next1(f, k)  BY <2>2
      <4> QED  BY <3>1, <4>1, <4>2, <4>3 DEF Next1
    <3>2. CASE i # k
      <4>1. i \in 0..(k - 1) /\ g[i] = f[i]  BY <2>2, <3>2
      <4>2. i # 0 => i - 1 \in 0..(k - 1) /\ i - 1 # k /\ g[i - 1] = f[i - 1]  BY <2>2, <4>1
      <4>3. f[i] = Next1(f, i)  BY <2>1, <4>1
      <4> QED  BY <4>1, <4>2, <4>3 DEF Next1
    <3> QED  BY <3>1, <3>2
  <2>4. g = [i \in 0..k |-> g[i]]  BY <2>2
  <2>5. BufSoFar(g, p, k)  BY <2>3, <2>4 DEF BufSoFar, Next1
  <2> QED  BY <2>5
<1>3. n \in S
  <2> HIDE DEF S, n
  <2>1. n \in Nat  BY DEF n
  <2> QED  BY <1>1, <1>2, <2>1, Climb
<1> DEFINE u == CHOOSE f : BufSoFar(f, p, n)
<1>4. BufSoFar(u, p, n)  BY <1>3
<1>5. Buffered(p) = u[n]  BY DEF Buffered, BufSoFar
<1> HIDE DEF u
<1> DEFINE T == {k \in 0..n : u[k] \in 0..k}
<1>6. \A k \in 0..n : u[k] = Next1(u, k)  BY <1>4 DEF BufSoFar
<1>7. 0 \in T  BY <1>6
<1>8. ASSUME NEW k \in 1..n, k - 1 \in T PROVE k \in T
  <2>1. u[k - 1] \in 0..(k - 1) /\ k \in 0..n  BY <1>8
  <2>2. u[k] = 0 \/ u[k] = u[k - 1] + 1  BY <1>6, <2>1
  <2> QED  BY <2>1, <2>2
<1>9. n \in T
  <2> HIDE DEF T, n
  <2>1. n \in Nat  BY DEF n
  <2> QED  BY <1>7, <1>8, <2>1, Climb
<1> QED  BY <1>5, <1>9

\* Every frozen word is a word of the hypothesis, where it was.
Held(s) ==
    /\ FrozenCount(s) <= Len(s.hyp)
    /\ \A i \in 1..Len(s.pending) : s.pending[i] = s.hyp[s.emitted + i]

\* freeze commits some of the words that follow those committed, and keeps the rest.
LEMMA Freezing ==
    ASSUME NEW s \in Segmenters
    PROVE  LET r == Freeze(s).segmenter
               c == Freeze(s).commits
           IN  /\ r \in Segmenters /\ r.hyp = s.hyp /\ r.baseText = s.baseText
               /\ c \in Seq(Words) /\ r.emitted = s.emitted + Len(c)
               /\ Held(s) => Held(r) /\ \A i \in 1..Len(c) : c[i] = s.hyp[s.emitted + i]
<1> DEFINE F == FrozenCount(s)
           ceil == Min({Len(s.hyp) - GuardWords, s.stable})
           more == SubSeq(s.hyp, F + 1, ceil)
           all == s.pending \o more
           cut == Len(all) - Buffered(all)
           rest == SubSeq(all, cut + 1, Len(all))
<1>1. /\ s.hyp \in Seq(Words) /\ s.pending \in Seq(Words) /\ s.emitted \in Nat /\ s.stable \in Int
      /\ Len(s.hyp) \in Nat /\ Len(s.pending) \in Nat /\ F \in Nat /\ F = s.emitted + Len(s.pending)
      /\ s.baseText \in Seq(Words)
  BY LenProperties DEF Segmenters, FrozenCount
<1>2. ceil \in Int /\ ceil <= Len(s.hyp)
  <2>1. Len(s.hyp) - GuardWords \in Int  BY <1>1
  <2>2. ceil \in Int /\ ceil <= Len(s.hyp) - GuardWords  BY <1>1, <2>1, MinIs
  <2> QED  BY <1>1, <2>2
<1> HIDE DEF F, ceil
<1>3. /\ more \in Seq(Words) /\ Len(more) \in Nat
      /\ Len(more) = IF F + 1 <= ceil THEN ceil - F ELSE 0
      /\ \A i \in 1..Len(more) : more[i] = s.hyp[F + i]
  <2>1. \A i \in (F + 1)..ceil : s.hyp[i] \in Words  BY <1>1, <1>2
  <2>2. /\ more \in Seq(Words) /\ Len(more) = IF F + 1 <= ceil THEN ceil - (F + 1) + 1 ELSE 0
        /\ \A i \in 1..(ceil - (F + 1) + 1) : more[i] = s.hyp[(F + 1) + i - 1]
    <3>1. F + 1 \in Int /\ ceil \in Int  BY <1>1, <1>2
    <3> QED  BY <2>1, <3>1, SubSeqProperties
  <2> HIDE DEF more
  <2>3. ASSUME NEW i \in 1..Len(more) PROVE more[i] = s.hyp[F + i]
    <3>1. i \in 1..(ceil - (F + 1) + 1) /\ (F + 1) + i - 1 = F + i  BY <1>1, <1>2, <2>2
    <3> QED  BY <2>2, <3>1
  <2> QED  BY <1>1, <1>2, <2>2, <2>3
<1> HIDE DEF more
<1>4. /\ all \in Seq(Words) /\ Len(all) \in Nat /\ Len(all) = Len(s.pending) + Len(more)
      /\ \A i \in 1..Len(all) : all[i] = IF i <= Len(s.pending) THEN s.pending[i]
                                         ELSE more[i - Len(s.pending)]
  <2>1. /\ all \in Seq(Words) /\ Len(all) = Len(s.pending) + Len(more)
        /\ \A i \in 1..(Len(s.pending) + Len(more)) :
             all[i] = IF i <= Len(s.pending) THEN s.pending[i] ELSE more[i - Len(s.pending)]
    <3>1. s.pending \in Seq(Words) /\ more \in Seq(Words)  BY <1>1, <1>3
    <3> QED  BY <3>1, ConcatProperties
  <2> HIDE DEF all
  <2> QED  BY <1>1, <1>3, <2>1
<1> HIDE DEF all
<1>4a. /\ Len(more) \in Nat /\ Len(all) = Len(s.pending) + Len(more)
       /\ Len(more) = 0 \/ F + Len(more) = ceil
  BY <1>1, <1>2, <1>3, <1>4
<1>5. cut \in 0..Len(all)
  <2>1. Buffered(all) \in 0..Len(all)  BY <1>4, Batched
  <2> QED  BY <1>4, <2>1
<1> HIDE DEF cut
<1>6. /\ SubSeq(all, 1, cut) \in Seq(Words) /\ Len(SubSeq(all, 1, cut)) = cut
      /\ \A i \in 1..cut : SubSeq(all, 1, cut)[i] = all[i]
  <2>1. \A i \in 1..cut : all[i] \in Words  BY <1>4, <1>5
  <2>2. /\ SubSeq(all, 1, cut) \in Seq(Words)
        /\ Len(SubSeq(all, 1, cut)) = IF 1 <= cut THEN cut - 1 + 1 ELSE 0
        /\ \A i \in 1..(cut - 1 + 1) : SubSeq(all, 1, cut)[i] = all[1 + i - 1]
    BY <1>5, <2>1, SubSeqProperties
  <2>3. ASSUME NEW i \in 1..cut PROVE SubSeq(all, 1, cut)[i] = all[i]
    <3>1. i \in 1..(cut - 1 + 1) /\ 1 + i - 1 = i  BY <1>5
    <3> QED  BY <2>2, <3>1
  <2> QED  BY <1>5, <2>2, <2>3
<1>7. /\ rest \in Seq(Words) /\ Len(rest) = Len(all) - cut
      /\ \A i \in 1..Len(rest) : rest[i] = all[cut + i]
  <2>1. \A i \in (cut + 1)..Len(all) : all[i] \in Words  BY <1>4, <1>5
  <2>2. /\ rest \in Seq(Words) /\ Len(rest) = IF cut + 1 <= Len(all) THEN Len(all) - (cut + 1) + 1 ELSE 0
        /\ \A i \in 1..(Len(all) - (cut + 1) + 1) : rest[i] = all[(cut + 1) + i - 1]
    BY <1>4, <1>5, <2>1, SubSeqProperties
  <2> HIDE DEF rest
  <2>3. Len(rest) = Len(all) - cut  BY <1>4, <1>5, <2>2
  <2>4. ASSUME NEW i \in 1..Len(rest) PROVE rest[i] = all[cut + i]
    <3>1. i \in 1..(Len(all) - (cut + 1) + 1) /\ (cut + 1) + i - 1 = cut + i  BY <1>4, <1>5, <2>3
    <3> QED  BY <2>2, <3>1
  <2> QED  BY <2>2, <2>3, <2>4
<1> DEFINE r == [s EXCEPT !.emitted = @ + cut, !.pending = rest]
           c == SubSeq(all, 1, cut)
<1>8. Freeze(s) = [segmenter |-> r, commits |-> c]
  BY DEF Freeze, F, ceil, more, all, cut
<1>9. /\ r = [baseText |-> s.baseText, hyp |-> s.hyp, stable |-> s.stable,
              emitted |-> s.emitted + cut, pending |-> rest]
  <2> HIDE DEF rest
  <2>1. r = [s EXCEPT !.emitted = s.emitted + cut, !.pending = rest]  OBVIOUS
  <2>2. s.emitted + cut \in Nat /\ rest \in Seq(Words)  BY <1>1, <1>5, <1>7
  <2> HIDE DEF r
  <2>3. r \in [baseText : Seq(Words), hyp : Seq(Words), stable : Int, emitted : Nat,
               pending : Seq(Words)]
    BY <2>1, <2>2 DEF Segmenters
  <2>4. r.emitted = s.emitted + cut /\ r.pending = rest /\ r.hyp = s.hyp
        /\ r.baseText = s.baseText /\ r.stable = s.stable
    BY <2>1 DEF Segmenters
  <2> QED  BY <2>3, <2>4
<1> HIDE DEF r, c, rest
<1>10. r \in Segmenters /\ r.hyp = s.hyp /\ r.baseText = s.baseText
       /\ r.emitted = s.emitted + cut /\ r.pending = rest
  BY <1>1, <1>5, <1>7, <1>9 DEF Segmenters
<1>11. ASSUME Held(s)
       PROVE  Held(r) /\ \A i \in 1..cut : c[i] = s.hyp[s.emitted + i]
  <2>1. F <= Len(s.hyp) /\ \A i \in 1..Len(s.pending) : s.pending[i] = s.hyp[s.emitted + i]
    BY <1>11 DEF Held, F
  <2>2. ASSUME NEW i \in 1..Len(all) PROVE all[i] = s.hyp[s.emitted + i]
    <3>1. CASE i <= Len(s.pending)
      <4>1. i \in 1..Len(s.pending)  BY <1>1, <1>4, <3>1
      <4> QED  BY <1>4, <2>1, <3>1, <4>1
    <3>2. CASE i > Len(s.pending)
      <4>1. i - Len(s.pending) \in 1..Len(more) /\ ~(i <= Len(s.pending))  BY <1>1, <1>4a, <3>2
      <4>2. all[i] = more[i - Len(s.pending)]  BY <1>4, <4>1
      <4>3. more[i - Len(s.pending)] = s.hyp[F + (i - Len(s.pending))]  BY <1>3, <4>1
      <4>4. F + (i - Len(s.pending)) = s.emitted + i  BY <1>1, <4>1
      <4> QED  BY <4>2, <4>3, <4>4
    <3> QED  BY <1>1, <1>4, <3>1, <3>2
  <2>3. s.emitted + Len(all) <= Len(s.hyp)  BY <1>1, <1>2, <1>4a, <2>1
  <2>4. FrozenCount(r) <= Len(r.hyp)
    <3>1. FrozenCount(r) = s.emitted + cut + (Len(all) - cut)  BY <1>7, <1>10 DEF FrozenCount
    <3> QED  BY <1>1, <1>4, <1>5, <1>10, <2>3, <3>1
  <2>5. ASSUME NEW i \in 1..Len(rest) PROVE rest[i] = s.hyp[s.emitted + cut + i]
    <3>1. cut + i \in 1..Len(all) /\ s.emitted + (cut + i) = s.emitted + cut + i
      BY <1>1, <1>4, <1>5, <1>7
    <3> QED  BY <1>7, <2>2, <3>1
  <2>6. ASSUME NEW i \in 1..cut PROVE c[i] = s.hyp[s.emitted + i]
    <3>1. i \in 1..Len(all)  BY <1>4, <1>5
    <3> QED  BY <1>6, <2>2, <3>1 DEF c
  <2> QED  BY <1>10, <2>4, <2>5, <2>6 DEF Held
<1>12. c \in Seq(Words) /\ Len(c) = cut  BY <1>6 DEF c
<1>13. Freeze(s).segmenter = r /\ Freeze(s).commits = c  BY <1>8
<1> QED  BY <1>10, <1>11, <1>12, <1>13
-----------------------------------------------------------------------------
(* A backend, and what the handlers' operators do to it. *)
Kinds == {"nothing", "rejected", "error", "recoverable", "closed", "released"}
Sockets == {"none", "connecting", "aborting", "open", "closing", "closed"}
Sources == [queue : Nat, taken : Nat, done : BOOLEAN,
            generator : {"running", "waiting", "arming", "finished"}]

Backends ==
    [status : {"pending", "connected", "failed", "closed"},
     promise : {"pending", "resolved", "rejected"}, attached : BOOLEAN, heard : Kinds,
     socket : Sockets, keepAlive : BOOLEAN, flushTimer : BOOLEAN, segmenter : Segmenters,
     source : Sources]

LEMMA SourceOps ==
    ASSUME NEW src \in Sources
    PROVE  /\ End(src) \in Sources /\ End(src).done
           /\ Push(src) \in Sources /\ Nudge(src) \in Sources
           /\ Generate(src) \in Sources /\ Generate(src).done = src.done
<1>1. src.queue \in Nat /\ src.taken \in Nat /\ src.queue + 1 \in Nat /\ src.taken + 1 \in Nat
  BY DEF Sources
<1>2. Running(src.generator) \in {"running", "waiting", "arming", "finished"}
  BY DEF Running, Sources
<1>3. End(src) \in Sources /\ End(src).done  BY <1>2 DEF End, Sources
<1>4. Push(src) \in Sources
  <2>1. Push(src) = [src EXCEPT !.queue = src.queue + 1, !.generator = Running(src.generator)]
    BY DEF Push
  <2> QED  BY <1>1, <1>2, <2>1 DEF Sources
<1>5. Nudge(src) \in Sources  BY <1>2 DEF Nudge, Sources
<1>6. Generate(src) \in Sources /\ Generate(src).done = src.done
  <2>1. CASE src.queue > 0
    <3>1. Generate(src) = [src EXCEPT !.queue = src.queue - 1, !.taken = src.taken + 1]
      BY <2>1 DEF Generate
    <3>2. src.queue - 1 \in Nat  BY <1>1, <2>1
    <3> QED  BY <1>1, <3>1, <3>2 DEF Sources
  <2>2. CASE ~(src.queue > 0)
    <3>1. \/ Generate(src) = [src EXCEPT !.generator = "finished"]
          \/ Generate(src) = [src EXCEPT !.generator = "waiting"]
      BY <2>2 DEF Generate
    <3> QED  BY <3>1 DEF Sources
  <2> QED  BY <2>1, <2>2
<1> QED  BY <1>3, <1>4, <1>5, <1>6

LEMMA SocketClosing ==
    ASSUME NEW socket \in Sockets
    PROVE  /\ CloseSocket(socket) \in Sockets \ {"connecting", "open"}
           /\ CloseSocket(CloseSocket(socket)) = CloseSocket(socket)
           /\ socket = "none" => CloseSocket(socket) = "none"
BY DEF CloseSocket, Sockets

LEMMA Shutting ==
    ASSUME NEW b \in Backends
    PROVE  /\ Shut(b) \in Backends
           /\ ~Shut(b).keepAlive /\ Shut(b).source.done /\ ~Shut(b).flushTimer
           /\ Shut(b).socket = CloseSocket(b.socket) /\ Shut(b).status = "closed"
           /\ Shut(b).attached = b.attached /\ Shut(b).heard = b.heard
           /\ Shut(b).promise = b.promise /\ Shut(b).segmenter = b.segmenter
<1>1. End(b.source) \in Sources /\ End(b.source).done  BY SourceOps DEF Backends
<1>2. CloseSocket(b.socket) \in Sockets  BY SocketClosing DEF Backends
<1>3. Shut(b) = [b EXCEPT !.socket = CloseSocket(b.socket), !.status = "closed",
                          !.keepAlive = FALSE, !.flushTimer = FALSE, !.source = End(b.source)]
  BY DEF Shut
<1> QED  BY <1>1, <1>2, <1>3 DEF Backends

LEMMA Telling ==
    ASSUME NEW b \in Backends, NEW kind \in Kinds
    PROVE  /\ Tell(b, kind) \in Backends /\ ~Tell(b, kind).attached
           /\ ~b.attached => Tell(b, kind) = b
           /\ b.attached => /\ ~Tell(b, kind).keepAlive /\ Tell(b, kind).source.done
                            /\ Tell(b, kind).heard = kind
                            /\ Tell(b, kind).socket = CloseSocket(b.socket)
                            /\ Tell(b, kind).status = "closed"
           /\ Tell(b, kind).promise = b.promise /\ Tell(b, kind).segmenter = b.segmenter
<1>1. CASE ~b.attached  BY <1>1 DEF Tell
<1>2. CASE b.attached
  <2> DEFINE s == Shut(b)
  <2>1. s \in Backends /\ ~s.keepAlive /\ s.source.done /\ s.socket = CloseSocket(b.socket)
        /\ s.status = "closed" /\ s.promise = b.promise /\ s.segmenter = b.segmenter
    BY Shutting
  <2>2. Tell(b, kind) = [s EXCEPT !.attached = FALSE, !.heard = kind]  BY <1>2 DEF Tell
  <2> HIDE DEF s
  <2> QED  BY <1>2, <2>1, <2>2 DEF Backends
<1>3. b.attached \in BOOLEAN  BY DEF Backends
<1> QED  BY <1>1, <1>2, <1>3

\* close(), by whomever: what is left running, and what the owner has heard.
LEMMA Closing ==
    ASSUME NEW b \in Backends
    PROVE  /\ CloseBackend(b) \in Backends
           /\ ~CloseBackend(b).keepAlive /\ CloseBackend(b).source.done
           /\ CloseBackend(b).socket = CloseSocket(b.socket)
           /\ CloseBackend(b).status = "closed"
           /\ CloseBackend(b).promise = b.promise /\ CloseBackend(b).segmenter = b.segmenter
           /\ ~b.attached => ~CloseBackend(b).attached /\ CloseBackend(b).heard = b.heard
           /\ b.attached => /\ CloseBackend(b).attached => CloseBackend(b).heard = b.heard
                            /\ ~CloseBackend(b).attached => CloseBackend(b).heard = "closed"
                            /\ IsXAI => ~CloseBackend(b).attached
<1> DEFINE t == Tell(b, "closed")
<1>1. /\ t \in Backends /\ ~t.attached /\ (~b.attached => t = b)
      /\ b.attached => t.heard = "closed" /\ t.socket = CloseSocket(b.socket)
      /\ t.promise = b.promise /\ t.segmenter = b.segmenter
  BY Telling DEF Kinds
<1>2. CloseSocket(CloseSocket(b.socket)) = CloseSocket(b.socket)  BY SocketClosing DEF Backends
<1>3. b.attached \in BOOLEAN  BY DEF Backends
<1>4. CASE CloseBackend(b) = Shut(t)
  <2> HIDE DEF t
  <2>1. /\ Shut(t) \in Backends /\ ~Shut(t).keepAlive /\ Shut(t).source.done
        /\ Shut(t).socket = CloseSocket(t.socket) /\ Shut(t).status = "closed"
        /\ Shut(t).attached = t.attached /\ Shut(t).heard = t.heard
        /\ Shut(t).promise = t.promise /\ Shut(t).segmenter = t.segmenter
    BY <1>1, Shutting
  <2>2. CASE b.attached  BY <1>1, <1>2, <1>4, <2>1, <2>2
  <2>3. CASE ~b.attached  BY <1>1, <1>2, <1>4, <2>1, <2>3
  <2> QED  BY <1>3, <2>2, <2>3
<1>5. CASE CloseBackend(b) = Shut(b) /\ ~IsXAI
  <2>1. /\ Shut(b) \in Backends /\ ~Shut(b).keepAlive /\ Shut(b).source.done
        /\ Shut(b).socket = CloseSocket(b.socket) /\ Shut(b).status = "closed"
        /\ Shut(b).attached = b.attached /\ Shut(b).heard = b.heard
        /\ Shut(b).promise = b.promise /\ Shut(b).segmenter = b.segmenter
    BY Shutting
  <2> QED  BY <1>3, <1>5, <2>1
<1> QED  BY <1>4, <1>5 DEF CloseBackend
-----------------------------------------------------------------------------
(* Socket, promise, owner and history. *)
Types ==
    /\ provider \in {"openai", "gemini", "deepgram", "xai", "xai_granular", "aws", "dummy"}
    /\ backend \in Backends
    /\ utterance \in [base : Seq(Words), interim : Seq(Words)]
    /\ spoken \in Seq(Words) /\ finals \in Seq(Words) /\ revised \in BOOLEAN

\* While the owner is attached nothing has ended, and nobody speaks before the promise
\* is resolved.
Serving(b) ==
    /\ b.heard = "nothing" /\ b.promise # "rejected"
    /\ b.socket \in {"none", "connecting", "open"}
    /\ b.socket = "open" /\ provider # "gemini" => b.promise = "resolved"
    /\ b.status = "connected" => b.promise = "resolved"

\* Once it is not, nothing runs.
Over(b) ==
    /\ b.socket \notin {"connecting", "open"} /\ ~b.keepAlive
    /\ provider = "aws" => b.source.done

Wired ==
    /\ backend.attached <=> cause = "none"
    /\ backend.attached => Serving(backend)
    /\ ~backend.attached => Over(backend)
    /\ ~OverWebSocket => backend.socket = "none"
    /\ "serverContent" \in inbox => backend.promise = "resolved"
    /\ inbox # {} => provider = "gemini" /\ backend.socket # "connecting"

Reports == Contract!Next \/ UNCHANGED <<Stream, backend.heard, Len(finals)>>

\* The stream ends: the owner hears of it in the same step, or had heard of an end before.
LEMMA Dies ==
    ASSUME Types, Wired, NEW end, NEW told, First(end), finals' = finals,
           <<end, told>> \in {<<"transient", "recoverable">>, <<"fault", "error">>,
                              <<"end", "closed">>, <<"owner", "released">>},
           ~backend'.attached, backend.attached => backend'.heard = told,
           ~backend.attached => backend'.heard = backend.heard
    PROVE  Reports /\ (backend'.attached <=> cause' = "none")
<1>1. CASE backend.attached
  <2>1. cause = "none" /\ cause' = end /\ backend.heard = "nothing"
    BY <1>1 DEF Wired, Serving, First
  <2>2. /\ end # "none"
        /\ \/ end = "transient" /\ told = "recoverable"
           \/ end = "fault" /\ told = "error"
           \/ end = "end" /\ told = "closed"
           \/ end = "owner" /\ told = "released"
    OBVIOUS
  <2>3. Stream \in {"opening", "open"} /\ Stream' = end  BY <2>1, <2>2 DEF Stream
  <2>4. Contract!Over(end, told)  BY <1>1, <2>3 DEF Contract!Over, Contract!Live
  <2>5. Contract!Next
    BY <2>2, <2>4 DEF Contract!Next, Contract!TimesOut, Contract!Fails, Contract!Ends, Contract!Released
  <2> QED  BY <2>1, <2>2, <2>5 DEF Reports
<1>2. CASE ~backend.attached
  <2>1. cause # "none" /\ cause' = cause  BY <1>2 DEF Wired, First
  <2>2. Stream' = Stream  BY <2>1 DEF Stream
  <2> QED  BY <1>2, <2>1, <2>2 DEF Reports
<1> QED  BY <1>1, <1>2 DEF Types, Backends

\* Nothing of the stream changes but that it may open.
LEMMA Lives ==
    ASSUME Types, Wired, cause' = cause, finals' = finals, backend'.heard = backend.heard,
           backend.attached => /\ backend'.promise # "rejected"
                               /\ backend.promise = "resolved" => backend'.promise = "resolved"
    PROVE  Reports
<1>1. CASE backend.attached
  <2>1. cause = "none" /\ cause' = "none" /\ backend.promise \in {"pending", "resolved"}
    BY <1>1 DEF Wired, Serving, Types, Backends
  <2>2. Stream' = Stream \/ (Stream = "opening" /\ Stream' = "open")  BY <1>1, <2>1 DEF Stream
  <2> QED  BY <2>2 DEF Reports, Contract!Next, Contract!Opens
<1>2. CASE ~backend.attached
  <2>1. cause # "none" /\ cause' = cause  BY <1>2 DEF Wired
  <2>2. Stream' = Stream  BY <2>1 DEF Stream
  <2> QED  BY <2>2 DEF Reports
<1> QED  BY <1>1, <1>2 DEF Types, Backends

\* Words are handed over while the stream is open.
LEMMA Hears ==
    ASSUME Types, Wired, NEW b, b.attached = backend.attached, NEW words \in Seq(Words), Hear(b, words),
           backend.attached => backend.promise = "resolved",
           cause' = cause, backend'.heard = backend.heard, backend'.promise = backend.promise
    PROVE  Reports /\ finals' \in Seq(Words)
<1>1. Stream' = Stream  BY DEF Stream
<1>2. CASE ~backend.attached
  <2>1. finals' = finals  BY <1>2 DEF Hear
  <2> QED  BY <1>1, <2>1 DEF Reports, Types
<1>3. CASE backend.attached
  <2>1. Stream = "open"  BY <1>3 DEF Wired, Stream
  <2>2. finals' = finals \o words /\ finals \in Seq(Words)  BY <1>3 DEF Hear, Types
  <2>3. /\ finals' \in Seq(Words) /\ Len(finals') = Len(finals) + Len(words)
        /\ Len(words) \in Nat /\ Len(finals) \in Nat
    BY <2>2, ConcatProperties, LenProperties
  <2>4. CASE Len(words) = 0
    <3>1. Len(finals') = Len(finals)  BY <2>3, <2>4
    <3> QED  BY <1>1, <2>3, <3>1 DEF Reports
  <2>5. CASE Len(words) # 0
    <3>1. Len(finals') \in Nat /\ Len(finals') > Len(finals)  BY <2>3, <2>5
    <3>2. Contract!Transcribes  BY <1>1, <2>1, <3>1 DEF Contract!Transcribes
    <3> QED  BY <2>3, <3>2 DEF Reports, Contract!Next
  <2> QED  BY <2>4, <2>5
<1> QED  BY <1>2, <1>3 DEF Types, Backends

\* The operations on the segmenter return segmenters, and words.
LEMMA FreshIs == Fresh \in Segmenters /\ ~HasDue(Fresh)
<1>1. <<>> \in Seq(Words) /\ Len(<<>>) = 0  BY EmptySeq
<1> QED  BY <1>1 DEF Fresh, Segmenters, HasDue, FrozenCount

LEMMA Merging ==
    ASSUME NEW base \in Seq(Words), NEW text \in Seq(Words)
    PROVE  MergeBase(base, text) \in Seq(Words)
BY ConcatProperties DEF MergeBase

LEMMA Pushing ==
    ASSUME NEW s \in Segmenters, NEW text \in Seq(Words), NEW isFinalSeg \in BOOLEAN
    PROVE  \E u \in Segmenters :
               /\ PushPartial(s, text, isFinalSeg, FALSE) = Freeze(u)
               /\ u.hyp = MergeBase(s.baseText, text)
               /\ u.baseText = IF isFinalSeg THEN MergeBase(s.baseText, text) ELSE s.baseText
               /\ u.emitted = s.emitted /\ u.pending = s.pending
<1> DEFINE m == MergeBase(s.baseText, text)
           b == IF isFinalSeg THEN m ELSE s.baseText
           v == [s EXCEPT !.baseText = b]
           u == UpdateHyp(v, m)
<1>1. s.baseText \in Seq(Words) /\ s.hyp \in Seq(Words) /\ s.stable \in Int  BY DEF Segmenters
<1>2. m \in Seq(Words)  BY <1>1, Merging
<1> HIDE DEF m
<1>3. b \in Seq(Words)  BY <1>1, <1>2
<1>4. PushPartial(s, text, isFinalSeg, FALSE) = Freeze(u)  BY DEF PushPartial, m
<1> HIDE DEF b
<1>5. /\ v \in Segmenters /\ v.baseText = b /\ v.hyp = s.hyp /\ v.stable = s.stable
      /\ v.emitted = s.emitted /\ v.pending = s.pending
  BY <1>3 DEF Segmenters
<1> HIDE DEF v
<1> DEFINE age == Min({v.stable, Len(LongestCommonPrefix({v.hyp, m}))})
<1>6. age \in Int
  <2>1. Len(LongestCommonPrefix({v.hyp, m})) \in Nat  BY <1>1, <1>2, <1>5, Agreeing
  <2>2. v.stable \in Int /\ Len(LongestCommonPrefix({v.hyp, m})) \in Int  BY <1>1, <1>5, <2>1
  <2> QED  BY <2>2, MinIs
<1>7. u = [v EXCEPT !.hyp = m, !.stable = age]  BY DEF UpdateHyp
<1> HIDE DEF u, age
<1>8. /\ u \in Segmenters /\ u.baseText = b /\ u.hyp = m
      /\ u.emitted = s.emitted /\ u.pending = s.pending
  BY <1>2, <1>5, <1>6, <1>7 DEF Segmenters
<1> QED  BY <1>4, <1>8 DEF m, b

LEMMA TurnEnding ==
    ASSUME NEW s \in Segmenters, NEW text \in Seq(Words)
    PROVE  LET c == EndTurn(s, text).commits IN
           /\ PushPartial(s, text, TRUE, TRUE) = EndTurn(s, text)
           /\ EndTurn(s, text).segmenter = Fresh
           /\ c \in Seq(Words)
           /\ Len(c) = IF s.emitted <= Len(text) THEN Len(text) - s.emitted ELSE 0
           /\ \A i \in 1..Len(c) : c[i] = text[s.emitted + i]
<1> DEFINE c == SubSeq(text, s.emitted + 1, Len(text))
           e == s.emitted
           n == Len(text)
<1>1. EndTurn(s, text).segmenter = Fresh /\ EndTurn(s, text).commits = c  BY DEF EndTurn
<1>8. PushPartial(s, text, TRUE, TRUE) = EndTurn(s, text)  BY DEF PushPartial
<1>2. e \in Nat /\ n \in Nat  BY LenProperties DEF Segmenters
<1>3. \A i \in (e + 1)..n : text[i] \in Words  BY <1>2
<1> HIDE DEF e, n
<1>4. /\ SubSeq(text, e + 1, n) \in Seq(Words)
      /\ Len(SubSeq(text, e + 1, n)) = IF e + 1 <= n THEN n - (e + 1) + 1 ELSE 0
      /\ \A i \in 1..(n - (e + 1) + 1) : SubSeq(text, e + 1, n)[i] = text[(e + 1) + i - 1]
  <2>1. e + 1 \in Int /\ n \in Int  BY <1>2
  <2> QED  BY <1>3, <2>1, SubSeqProperties
<1>5. c = SubSeq(text, e + 1, n)  BY DEF e, n
<1> HIDE DEF c
<1>6. Len(c) = IF e <= n THEN n - e ELSE 0  BY <1>2, <1>4, <1>5
<1>7. ASSUME NEW i \in 1..Len(c) PROVE c[i] = text[e + i]
  <2>1. i \in 1..(n - (e + 1) + 1) /\ (e + 1) + i - 1 = e + i  BY <1>2, <1>6
  <2> QED  BY <1>4, <1>5, <2>1
<1> QED  BY <1>1, <1>4, <1>5, <1>6, <1>7, <1>8 DEF e, n

\* A hypothesis continues what was said of the segment, and does not repeat the turn
\* unless speakers may.
LEMMA Hypothesising ==
    ASSUME Types, NEW text \in Hypotheses
    PROVE  /\ text \in Seq(Words)
           /\ Repeats \/ utterance.base = <<>> \/ ~IsPrefix(utterance.base, text)
<1>1. PICK less \in {0, 1} : \E more \in {<<>>} \cup {<<w>> : w \in Words} :
         text = SubSeq(utterance.interim, 1, Len(utterance.interim) - less) \o more
  BY DEF Hypotheses
<1>2. PICK more \in {<<>>} \cup {<<w>> : w \in Words} :
         text = SubSeq(utterance.interim, 1, Len(utterance.interim) - less) \o more
  BY <1>1
<1> DEFINE heard == utterance.interim
           n == Len(heard) - less
<1>3. heard \in Seq(Words) /\ Len(heard) \in Nat  BY LenProperties DEF Types
<1>4. n \in Int /\ \A i \in 1..n : heard[i] \in Words  BY <1>3
<1>5. SubSeq(heard, 1, n) \in Seq(Words)  BY <1>4, SubSeqProperties
<1>6. more \in Seq(Words)
  <2>1. CASE more = <<>>  BY <2>1, EmptySeq
  <2>2. CASE \E w \in Words : more = <<w>>  BY <2>2
  <2> QED  BY <2>1, <2>2
<1>7. text \in Seq(Words)  BY <1>2, <1>5, <1>6, ConcatProperties
<1> QED  BY <1>7 DEF Hypotheses
-----------------------------------------------------------------------------
(* The steps. *)

\* The granular timer runs while words are due.
Timed == Granular =>
    /\ backend.socket = "connecting" => backend.segmenter = Fresh
    /\ backend.socket = "closing" => backend.status # "connected"
    /\ FlushArmed

IInv == Types /\ Wired /\ Timed

LEMMA InitIInv == Init => IInv /\ Contract!Init /\ backend.segmenter = Fresh
<1> SUFFICES ASSUME Init PROVE IInv /\ Contract!Init /\ backend.segmenter = Fresh  OBVIOUS
<1>1. NewBackend.source \in Sources /\ NewBackend.socket \in Sockets
  BY DEF NewBackend, Sources, Sockets
<1>2. /\ NewBackend \in Backends /\ NewBackend.attached /\ NewBackend.heard = "nothing"
      /\ NewBackend.status = "pending" /\ NewBackend.promise = "pending" /\ ~NewBackend.keepAlive
      /\ NewBackend.segmenter = Fresh
      /\ NewBackend.socket = IF OverWebSocket THEN "connecting" ELSE "none"
  BY <1>1, FreshIs DEF NewBackend, Backends, Kinds
<1>3. /\ utterance \in [base : Seq(Words), interim : Seq(Words)] /\ spoken \in Seq(Words)
      /\ finals \in Seq(Words) /\ revised \in BOOLEAN /\ Len(finals) = 0 /\ inbox = {}
      /\ provider \in {"openai", "gemini", "deepgram", "xai", "xai_granular", "aws", "dummy"}
  BY EmptySeq DEF Init
<1> DEFINE b == NewBackend
<1>4. CASE cause = "none" /\ backend = IF provider = "dummy"
           THEN [b EXCEPT !.status = "connected", !.promise = "resolved"] ELSE b
  <2> HIDE DEF b
  <2>1. /\ backend \in Backends /\ backend.attached /\ backend.heard = "nothing"
        /\ backend.promise \in {"pending", "resolved"} /\ ~backend.keepAlive
        /\ backend.segmenter = Fresh
        /\ backend.socket = IF OverWebSocket THEN "connecting" ELSE "none"
        /\ backend.status = "connected" => backend.promise = "resolved"
    BY <1>2, <1>4 DEF b, Backends
  <2>2. Types  BY <1>3, <2>1 DEF Types
  <2>3. Wired  BY <1>3, <1>4, <2>1 DEF Wired, Serving
  <2>4. Timed  BY <2>1, FreshIs DEF Timed, FlushArmed
  <2>5. Contract!Init  BY <1>3, <1>4, <2>1 DEF Contract!Init, Stream
  <2> QED  BY <2>1, <2>2, <2>3, <2>4, <2>5 DEF IInv
<1>5. CASE /\ provider \in {"gemini", "deepgram", "xai", "xai_granular"} /\ cause = "no key"
           /\ backend = [b EXCEPT !.socket = "none", !.promise = "rejected",
                                  !.attached = FALSE, !.heard = "rejected"]
  <2> HIDE DEF b
  <2>1. /\ backend \in Backends /\ ~backend.attached /\ backend.heard = "rejected"
        /\ ~backend.keepAlive /\ backend.segmenter = Fresh /\ backend.socket = "none"
    BY <1>2, <1>5 DEF b, Backends, Sockets, Kinds
  <2>2. Types  BY <1>3, <2>1 DEF Types
  <2>3. Wired  BY <1>3, <1>5, <2>1 DEF Wired, Over
  <2>4. Timed  BY <2>1, FreshIs DEF Timed, FlushArmed
  <2>5. Contract!Init  BY <1>3, <1>5, <2>1 DEF Contract!Init, Stream
  <2> QED  BY <2>1, <2>2, <2>3, <2>4, <2>5 DEF IInv
<1> QED  BY <1>4, <1>5 DEF Init

\* Steps that touch no words.
LEMMA Wordless ==
    ASSUME Types, UNCHANGED <<provider, speech>>, backend' \in Backends
    PROVE  Types'
BY DEF Types, speech

LEMMA OpenStep == IInv /\ Open => IInv' /\ Reports
<1> SUFFICES ASSUME IInv, Open PROVE IInv' /\ Reports  OBVIOUS
<1>1. /\ backend \in Backends /\ backend.socket = "connecting" /\ backend.attached
      /\ OverWebSocket /\ Types /\ Wired
  BY DEF IInv, Open, Types, Wired, Over
<1>2. UNCHANGED <<provider, cause, inbox, speech, finals>>  BY DEF Open, speech
<1>3. /\ backend' \in Backends /\ backend'.attached /\ backend'.heard = backend.heard
      /\ backend'.socket = "open" /\ backend'.segmenter = backend.segmenter
      /\ provider # "gemini" => backend'.promise = "resolved"
      /\ provider = "gemini" => backend'.promise = backend.promise /\ backend'.status = backend.status
  BY <1>1 DEF Open, Backends, Sockets
<1>4. Reports  BY <1>1, <1>2, <1>3, Lives DEF Wired, Serving
<1>5. Types'  BY <1>1, <1>2, <1>3, Wordless
<1>6. Wired'  BY <1>1, <1>2, <1>3 DEF Wired, Serving, OverWebSocket
<1>7. Timed'  BY <1>1, <1>2, <1>3, FreshIs DEF IInv, Timed, Granular, FlushArmed
<1> QED  BY <1>4, <1>5, <1>6, <1>7 DEF IInv

LEMMA SocketErrorStep == IInv /\ SocketError => IInv' /\ Reports
<1> SUFFICES ASSUME IInv, SocketError PROVE IInv' /\ Reports  OBVIOUS
<1> DEFINE t == Tell(backend, "error")
           f == [t EXCEPT !.status = "failed"]
           c == CloseBackend(f)
<1>1. backend \in Backends /\ Types /\ Wired /\ OverWebSocket /\ backend.attached \in BOOLEAN
  BY DEF IInv, SocketError, Types, Wired, Backends
<1>2. /\ t \in Backends /\ ~t.attached /\ t.promise = backend.promise
      /\ ~backend.attached => t = backend
      /\ backend.attached => t.heard = "error"
  BY <1>1, Telling DEF Kinds
<1> HIDE DEF t
<1>3. f \in Backends /\ ~f.attached /\ f.promise = backend.promise /\ f.heard = t.heard
  BY <1>2 DEF Backends
<1> HIDE DEF f
<1>4. /\ c \in Backends /\ ~c.attached /\ ~c.keepAlive /\ c.source.done /\ c.status = "closed"
      /\ c.heard = t.heard /\ c.promise = backend.promise
  BY <1>3, Closing
<1>5. backend' = [c EXCEPT !.socket = "closing", !.promise = Settled(@, "rejected")]
  BY DEF SocketError, t, f
<1> HIDE DEF c
<1>6. /\ backend' \in Backends /\ ~backend'.attached /\ ~backend'.keepAlive /\ backend'.source.done
      /\ backend'.status = "closed" /\ backend'.heard = t.heard /\ backend'.socket = "closing"
      /\ backend.promise = "resolved" => backend'.promise = "resolved"
  BY <1>4, <1>5 DEF Backends, Sockets, Settled
<1>7. UNCHANGED <<provider, inbox, speech, finals>> /\ First("fault")  BY DEF SocketError, speech
<1>8. Reports /\ (backend'.attached <=> cause' = "none")  BY <1>1, <1>2, <1>6, <1>7, Dies
<1>9. Types'  BY <1>1, <1>6, <1>7, Wordless
<1>10. Wired'  BY <1>1, <1>6, <1>7, <1>8 DEF Wired, Over, OverWebSocket
<1>11. Timed'  BY <1>6 DEF Timed, FlushArmed
<1> QED  BY <1>8, <1>9, <1>10, <1>11 DEF IInv

LEMMA SocketClosesStep == IInv /\ SocketCloses => IInv' /\ Reports
<1> SUFFICES ASSUME IInv, SocketCloses PROVE IInv' /\ Reports  OBVIOUS
<1> DEFINE g == [backend EXCEPT !.socket = "closed"]
           c == CloseBackend(g)
           t == Tell(c, "closed")
<1>1. backend \in Backends /\ Types /\ Wired /\ OverWebSocket /\ backend.attached \in BOOLEAN
  BY DEF IInv, SocketCloses, Types, Wired, Backends
<1>2. /\ g \in Backends /\ g.attached = backend.attached /\ g.heard = backend.heard
      /\ g.socket = "closed" /\ g.promise = backend.promise
  BY <1>1 DEF Backends, Sockets
<1> HIDE DEF g
<1>3. /\ c \in Backends /\ ~c.keepAlive /\ c.source.done /\ c.socket = CloseSocket("closed")
      /\ c.status = "closed" /\ c.promise = backend.promise
      /\ ~backend.attached => ~c.attached /\ c.heard = backend.heard
      /\ backend.attached => /\ ~c.attached => c.heard = "closed"
                             /\ IsXAI => ~c.attached
  BY <1>2, Closing
<1> HIDE DEF c
<1>4. CloseSocket("closed") = "closed"  BY DEF CloseSocket
<1>5. backend' = IF IsXAI THEN c ELSE t  BY DEF SocketCloses, ClosedEvent, g, c
<1>6. /\ t \in Backends /\ ~t.attached /\ t.promise = c.promise
      /\ ~c.attached => t = c
      /\ c.attached => /\ ~t.keepAlive /\ t.source.done /\ t.heard = "closed"
                       /\ t.socket = CloseSocket(c.socket) /\ t.status = "closed"
  BY <1>3, Telling DEF Kinds
<1> HIDE DEF t
<1>7. c.attached \in BOOLEAN  BY <1>3 DEF Backends
<1>8. /\ backend' \in Backends /\ ~backend'.attached /\ ~backend'.keepAlive /\ backend'.source.done
      /\ backend'.status = "closed" /\ backend'.socket = "closed"
      /\ backend'.promise = backend.promise
      /\ ~backend.attached => backend'.heard = backend.heard
      /\ backend.attached => backend'.heard = "closed"
  <2>1. CASE IsXAI
    <3>1. backend' = c /\ ~c.attached  BY <1>1, <1>3, <1>5, <2>1
    <3> QED  BY <1>3, <1>4, <3>1
  <2>2. CASE ~IsXAI /\ c.attached
    <3>1. backend' = t  BY <1>5, <2>2
    <3> QED  BY <1>3, <1>4, <1>6, <2>2, <3>1
  <2>3. CASE ~IsXAI /\ ~c.attached
    <3>1. backend' = c  BY <1>5, <1>6, <2>3
    <3> QED  BY <1>3, <1>4, <2>3, <3>1
  <2> QED  BY <1>7, <2>1, <2>2, <2>3
<1>9. UNCHANGED <<provider, inbox, speech, finals>> /\ First("end")  BY DEF SocketCloses, speech
<1>10. Reports /\ (backend'.attached <=> cause' = "none")  BY <1>1, <1>8, <1>9, Dies
<1>11. Types'  BY <1>1, <1>8, <1>9, Wordless
<1>12. Wired'  BY <1>1, <1>8, <1>9, <1>10 DEF Wired, Over, OverWebSocket
<1>13. Timed'  BY <1>8 DEF Timed, FlushArmed
<1> QED  BY <1>10, <1>11, <1>12, <1>13 DEF IInv

\* A message of type error: as a function of the message's kind.
LEMMA ErrorEnds ==
    ASSUME IInv, NEW kind \in {"recoverable", "error"}, backend' = ErrorMessage(backend, kind),
           backend.socket # "connecting"
    PROVE  /\ backend' \in Backends /\ ~backend'.attached
           /\ backend.attached => backend'.heard = kind
           /\ ~backend.attached => backend'.heard = backend.heard
           /\ backend.promise = "resolved" => backend'.promise = "resolved"
           /\ Over(backend') /\ (backend'.socket = "none" <=> backend.socket = "none")
           /\ backend'.socket \notin {"connecting", "open"}
           /\ backend.attached => backend'.status = "closed"
           /\ ~backend.attached => \/ backend'.status = "closed"
                                   \/ /\ backend'.status = backend.status /\ backend'.socket = backend.socket
                                      /\ backend'.flushTimer = backend.flushTimer
           /\ backend'.segmenter = backend.segmenter
<1> DEFINE t == Tell(backend, kind)
           c == CloseBackend(t)
           g == [t EXCEPT !.promise = Settled(@, "rejected")]
<1>1. /\ backend \in Backends /\ Wired /\ backend.attached \in BOOLEAN /\ backend.socket \in Sockets
      /\ kind \in Kinds
  BY DEF IInv, Types, Backends, Kinds
<1>2. /\ t \in Backends /\ ~t.attached /\ t.promise = backend.promise /\ t.segmenter = backend.segmenter
      /\ ~backend.attached => t = backend
      /\ backend.attached => /\ ~t.keepAlive /\ t.source.done /\ t.heard = kind
                             /\ t.socket = CloseSocket(backend.socket) /\ t.status = "closed"
  BY <1>1, Telling
<1>3. CloseSocket(backend.socket) \notin {"connecting", "open"}
      /\ (CloseSocket(backend.socket) = "none" <=> backend.socket = "none")
  BY <1>1 DEF CloseSocket, Sockets
<1> HIDE DEF t
<1>4. /\ Over(t) /\ (t.socket = "none" <=> backend.socket = "none") /\ t.socket \in Sockets
  BY <1>1, <1>2, <1>3 DEF Over, Wired, Backends
<1>5. CASE backend' = t  BY <1>1, <1>2, <1>4, <1>5 DEF Over
<1>6. CASE backend' = g
  <2>1. /\ g \in Backends /\ g.attached = t.attached /\ g.heard = t.heard /\ g.socket = t.socket
        /\ g.keepAlive = t.keepAlive /\ g.flushTimer = t.flushTimer
        /\ g.source = t.source /\ g.status = t.status
        /\ g.segmenter = t.segmenter
        /\ t.promise = "resolved" => g.promise = "resolved"
    BY <1>2 DEF Backends, Settled
  <2> HIDE DEF g
  <2> QED  BY <1>1, <1>2, <1>4, <1>6, <2>1 DEF Over
<1>7. CASE backend' = c
  <2>1. /\ c \in Backends /\ ~c.attached /\ ~c.keepAlive /\ c.source.done
        /\ c.socket = CloseSocket(t.socket) /\ c.status = "closed" /\ c.heard = t.heard
        /\ c.promise = t.promise /\ c.segmenter = t.segmenter
    BY <1>2, Closing
  <2>2. c.socket \notin {"connecting", "open"} /\ (c.socket = "none" <=> t.socket = "none")
    BY <1>4, <2>1 DEF CloseSocket, Sockets
  <2> HIDE DEF c
  <2> QED  BY <1>1, <1>2, <1>4, <1>7, <2>1, <2>2 DEF Over
<1> QED  BY <1>5, <1>6, <1>7 DEF ErrorMessage, t

\* The invariant after an error message: what ErrorEnds leaves.
LEMMA ErrorStep ==
    ASSUME IInv, NEW kind \in {"recoverable", "error"}, backend' = ErrorMessage(backend, kind),
           backend.socket # "connecting", UNCHANGED <<provider, speech>>, inbox' \subseteq inbox,
           First(IF kind = "recoverable" THEN "transient" ELSE "fault")
    PROVE  IInv' /\ Reports
<1>1. /\ backend' \in Backends /\ ~backend'.attached
      /\ backend.attached => backend'.heard = kind
      /\ ~backend.attached => backend'.heard = backend.heard
      /\ backend.promise = "resolved" => backend'.promise = "resolved"
      /\ Over(backend') /\ (backend'.socket = "none" <=> backend.socket = "none")
      /\ backend'.socket \notin {"connecting", "open"}
      /\ backend.attached => backend'.status = "closed"
      /\ ~backend.attached => \/ backend'.status = "closed"
                              \/ /\ backend'.status = backend.status /\ backend'.socket = backend.socket
                                 /\ backend'.flushTimer = backend.flushTimer
      /\ backend'.segmenter = backend.segmenter
  BY ErrorEnds
<1>2. Types /\ Wired /\ Timed /\ finals' = finals  BY DEF IInv, speech
<1>3. Reports /\ (backend'.attached <=> cause' = "none")
  BY <1>1, <1>2, Dies
<1>4. Types'  BY <1>1, <1>2, Wordless
<1>5. Wired'  BY <1>1, <1>2, <1>3 DEF Wired, OverWebSocket, Over
<1>6. Timed'
  <2>1. CASE backend'.status = "closed"  BY <1>1, <2>1 DEF Timed, FlushArmed
  <2>2. CASE /\ backend'.status = backend.status /\ backend'.socket = backend.socket
             /\ backend'.flushTimer = backend.flushTimer
    BY <1>1, <1>2, <2>2 DEF Timed, FlushArmed, Granular
  <2> QED  BY <1>1, <2>1, <2>2 DEF IInv, Types, Backends
<1> QED  BY <1>3, <1>4, <1>5, <1>6 DEF IInv

LEMMA ProviderErrorStep ==
    ASSUME IInv, NEW kind \in {"recoverable", "error"}, ProviderError(kind)
    PROVE  IInv' /\ Reports
BY ErrorStep DEF ProviderError

LEMMA ArrivesStep ==
    ASSUME IInv, NEW message \in {"setupComplete", "serverContent", "error"}, Arrives(message)
    PROVE  IInv' /\ Reports
<1>1. Types /\ Wired /\ Timed /\ UNCHANGED <<provider, backend, cause, speech, finals>>
  BY DEF IInv, Arrives, speech
<1>2. Reports  BY <1>1 DEF Reports, Stream
<1>3. Types'  BY <1>1 DEF Types, speech
<1>4. Wired'  BY <1>1 DEF Wired, Arrives, Serving, Over, OverWebSocket
<1>5. Timed'  BY <1>1 DEF Timed, FlushArmed, Granular
<1> QED  BY <1>2, <1>3, <1>4, <1>5 DEF IInv

LEMMA HandleMessageStep ==
    ASSUME IInv, NEW message \in {"setupComplete", "serverContent", "error"}, HandleMessage(message)
    PROVE  IInv' /\ Reports
<1>1. /\ Types /\ Wired /\ backend \in Backends /\ provider = "gemini" /\ backend.socket # "connecting"
      /\ provider' = provider /\ inbox' \subseteq inbox /\ backend.attached \in BOOLEAN
      /\ backend.promise \in {"pending", "resolved", "rejected"}
  BY DEF IInv, HandleMessage, Wired, Types, Backends
<1>2. CASE /\ backend' = [backend EXCEPT !.status = "connected", !.promise = Settled(@, "resolved")]
           /\ UNCHANGED <<cause, speech>>
  <2>1. /\ backend' \in Backends /\ backend'.attached = backend.attached
        /\ backend'.heard = backend.heard /\ backend'.socket = backend.socket
        /\ backend'.keepAlive = backend.keepAlive /\ backend'.source = backend.source
        /\ backend.promise # "rejected" => backend'.promise = "resolved"
        /\ backend.promise = "rejected" => backend'.promise = "rejected"
    BY <1>1, <1>2 DEF Backends, Settled
  <2>2. finals' = finals  BY <1>2 DEF speech
  <2>3. Reports  BY <1>1, <1>2, <2>1, <2>2, Lives DEF Wired, Serving
  <2>4. Types'  BY <1>1, <1>2, <2>1, Wordless
  <2>5. Wired'  BY <1>1, <1>2, <2>1 DEF Wired, Serving, Over, OverWebSocket
  <2>6. Timed'  BY <1>1 DEF Timed, Granular
  <2> QED  BY <2>3, <2>4, <2>5, <2>6 DEF IInv
<1>3. CASE backend' = ErrorMessage(backend, "error") /\ First("fault") /\ UNCHANGED speech
  <2>1. First(IF "error" = "recoverable" THEN "transient" ELSE "fault")  BY <1>3
  <2> QED  BY <1>1, <1>3, <2>1, ErrorStep
<1>4. CASE /\ message = "serverContent" /\ \E w \in Words : Hear(backend, <<w>>)
           /\ UNCHANGED <<backend, cause, utterance, spoken, revised>>
  <2>1. backend.promise = "resolved"  BY <1>1, <1>4 DEF HandleMessage, Wired
  <2>2. PICK w \in Words : Hear(backend, <<w>>)  BY <1>4
  <2>3. <<w>> \in Seq(Words)  OBVIOUS
  <2>4. Reports /\ finals' \in Seq(Words)  BY <1>1, <1>4, <2>1, <2>2, <2>3, Hears
  <2>5. Types'  BY <1>1, <1>4, <2>4 DEF Types
  <2>6. Wired'  BY <1>1, <1>4 DEF Wired, Serving, Over, OverWebSocket
  <2>7. Timed'  BY <1>1 DEF Timed, Granular
  <2> QED  BY <2>4, <2>5, <2>6, <2>7 DEF IInv
<1> QED  BY <1>2, <1>3, <1>4 DEF HandleMessage

LEMMA TranscriptStep == IInv /\ Transcript => IInv' /\ Reports
<1> SUFFICES ASSUME IInv, Transcript PROVE IInv' /\ Reports  OBVIOUS
<1>1. /\ Types /\ Wired /\ UNCHANGED <<provider, backend, cause, inbox, utterance, spoken, revised>>
      /\ ~Granular
  BY DEF IInv, Transcript, Granular
<1>2. backend.attached => backend.promise = "resolved"
  BY <1>1 DEF Transcript, Wired, Serving
<1>3. PICK w \in Words : Hear(backend, <<w>>)  BY DEF Transcript
<1>4. <<w>> \in Seq(Words)  OBVIOUS
<1>5. Reports /\ finals' \in Seq(Words)  BY <1>1, <1>2, <1>3, <1>4, Hears
<1>6. Types'  BY <1>1, <1>5 DEF Types
<1>7. Wired'  BY <1>1 DEF Wired, Serving, Over, OverWebSocket
<1>8. Timed'  BY <1>1 DEF Timed, Granular
<1> QED  BY <1>5, <1>6, <1>7, <1>8 DEF IInv

LEMMA RequestAnsweredStep == IInv /\ RequestAnswered => IInv' /\ Reports
<1> SUFFICES ASSUME IInv, RequestAnswered PROVE IInv' /\ Reports  OBVIOUS
<1>1. /\ Types /\ Wired /\ backend \in Backends /\ provider = "aws"
      /\ UNCHANGED <<provider, cause, inbox, speech, finals>>
  BY DEF IInv, Types, RequestAnswered, speech
<1>2. /\ backend' \in Backends /\ backend'.attached = backend.attached
      /\ backend'.heard = backend.heard /\ backend'.socket = backend.socket
      /\ backend'.keepAlive = backend.keepAlive /\ backend'.source = backend.source
      /\ backend'.promise = "resolved"
  BY <1>1 DEF RequestAnswered, Backends
<1>3. Reports  BY <1>1, <1>2, Lives DEF Wired, Serving
<1>4. Types'  BY <1>1, <1>2, Wordless
<1>5. Wired'  BY <1>1, <1>2 DEF Wired, Serving, Over, OverWebSocket
<1>6. Timed'  BY <1>1 DEF Timed, Granular
<1> QED  BY <1>3, <1>4, <1>5, <1>6 DEF IInv

\* The request or its results fail: the owner hears of it, and closes.
LEMMA RequestEnds ==
    ASSUME IInv, provider = "aws", NEW b,
           b = Tell([backend EXCEPT !.status = "failed"], "recoverable")
    PROVE  /\ b \in Backends /\ ~b.attached /\ Over(b) /\ b.socket = "none"
           /\ backend.attached => b.heard = "recoverable"
           /\ ~backend.attached => b.heard = backend.heard
           /\ b.promise = backend.promise
<1> DEFINE f == [backend EXCEPT !.status = "failed"]
<1>1. backend \in Backends /\ Wired /\ backend.attached \in BOOLEAN /\ backend.socket = "none"
  BY DEF IInv, Types, Backends, Wired, OverWebSocket
<1>2. /\ f \in Backends /\ f.attached = backend.attached /\ f.heard = backend.heard
      /\ f.socket = backend.socket /\ f.keepAlive = backend.keepAlive /\ f.source = backend.source
      /\ f.promise = backend.promise
  BY <1>1 DEF Backends
<1> HIDE DEF f
<1>3. /\ b \in Backends /\ ~b.attached /\ b.promise = f.promise
      /\ ~f.attached => b = f
      /\ f.attached => /\ ~b.keepAlive /\ b.source.done /\ b.heard = "recoverable"
                        /\ b.socket = CloseSocket(f.socket)
  <2>1. b = Tell(f, "recoverable") /\ "recoverable" \in Kinds  BY DEF f, Kinds
  <2> QED  BY <1>2, <2>1, Telling
<1>4. CloseSocket("none") = "none"  BY DEF CloseSocket
<1> QED  BY <1>1, <1>2, <1>3, <1>4 DEF Over, Wired

LEMMA RequestFailsStep == IInv /\ RequestFails => IInv' /\ Reports
<1> SUFFICES ASSUME IInv, RequestFails PROVE IInv' /\ Reports  OBVIOUS
<1> DEFINE b == Tell([backend EXCEPT !.status = "failed"], "recoverable")
<1>1. /\ Types /\ Wired /\ provider = "aws" /\ First("transient")
      /\ UNCHANGED <<provider, inbox, speech, finals>>
  BY DEF IInv, RequestFails, speech
<1>2. /\ b \in Backends /\ ~b.attached /\ Over(b) /\ b.socket = "none"
      /\ backend.attached => b.heard = "recoverable"
      /\ ~backend.attached => b.heard = backend.heard
  BY <1>1, RequestEnds
<1>3. backend' = [b EXCEPT !.promise = "rejected"]  BY DEF RequestFails
<1> HIDE DEF b
<1>4. /\ backend' \in Backends /\ ~backend'.attached /\ Over(backend') /\ backend'.socket = "none"
      /\ backend'.heard = b.heard
  BY <1>2, <1>3 DEF Backends, Over
<1>5. Reports /\ (backend'.attached <=> cause' = "none")  BY <1>1, <1>2, <1>4, Dies
<1>6. Types'  BY <1>1, <1>4, Wordless
<1>7. Wired'  BY <1>1, <1>4, <1>5 DEF Wired, Over
<1>8. Timed'  BY <1>1 DEF Timed, Granular
<1> QED  BY <1>5, <1>6, <1>7, <1>8 DEF IInv

LEMMA ResultStreamErrorStep == IInv /\ ResultStreamError => IInv' /\ Reports
<1> SUFFICES ASSUME IInv, ResultStreamError PROVE IInv' /\ Reports  OBVIOUS
<1>1. /\ Types /\ Wired /\ provider = "aws" /\ First("transient")
      /\ UNCHANGED <<provider, inbox, speech, finals>>
      /\ backend' = Tell([backend EXCEPT !.status = "failed"], "recoverable")
  BY DEF IInv, ResultStreamError, speech
<1>2. /\ backend' \in Backends /\ ~backend'.attached /\ Over(backend') /\ backend'.socket = "none"
      /\ backend.attached => backend'.heard = "recoverable"
      /\ ~backend.attached => backend'.heard = backend.heard
  BY <1>1, RequestEnds
<1>3. Reports /\ (backend'.attached <=> cause' = "none")  BY <1>1, <1>2, Dies
<1>4. Types'  BY <1>1, <1>2, Wordless
<1>5. Wired'  BY <1>1, <1>2, <1>3 DEF Wired, Over
<1>6. Timed'  BY <1>1 DEF Timed, Granular
<1> QED  BY <1>3, <1>4, <1>5, <1>6 DEF IInv

\* SendAudio, ForceCommit and NextChunk only touch the source, which a backend that is
\* over keeps done.
LEMMA SourceStep == IInv /\ (SendAudio \/ ForceCommit \/ NextChunk) => IInv' /\ Reports
<1> SUFFICES ASSUME IInv, SendAudio \/ ForceCommit \/ NextChunk PROVE IInv' /\ Reports  OBVIOUS
<1>1. /\ Types /\ Wired /\ backend \in Backends /\ provider = "aws" /\ backend.source \in Sources
      /\ UNCHANGED <<provider, cause, inbox, speech, finals>>
  BY DEF IInv, Types, Backends, SendAudio, ForceCommit, NextChunk, speech
<1>2. PICK src \in Sources : /\ backend' = [backend EXCEPT !.source = src]
                             /\ backend.source.done => src.done
  <2>1. CASE SendAudio  BY <1>1, <2>1, SourceOps DEF SendAudio
  <2>2. CASE ForceCommit  BY <1>1, <2>2, SourceOps DEF ForceCommit
  <2>3. CASE NextChunk  BY <1>1, <2>3, SourceOps DEF NextChunk
  <2> QED  BY <2>1, <2>2, <2>3
<1>3. /\ backend' \in Backends /\ backend'.attached = backend.attached
      /\ backend'.heard = backend.heard /\ backend'.socket = backend.socket
      /\ backend'.keepAlive = backend.keepAlive /\ backend'.status = backend.status
      /\ backend'.promise = backend.promise
      /\ backend.source.done => backend'.source.done
  BY <1>1, <1>2 DEF Backends
<1>4. Reports  BY <1>1, <1>3, Lives DEF Wired, Serving
<1>5. Types'  BY <1>1, <1>3, Wordless
<1>6. Wired'  BY <1>1, <1>3 DEF Wired, Serving, Over, OverWebSocket
<1>7. Timed'  BY <1>1 DEF Timed, Granular
<1> QED  BY <1>4, <1>5, <1>6, <1>7 DEF IInv

LEMMA ReleaseStep == IInv /\ Release => IInv' /\ Reports
<1> SUFFICES ASSUME IInv, Release PROVE IInv' /\ Reports  OBVIOUS
<1> DEFINE f == [backend EXCEPT !.attached = FALSE]
           c == CloseBackend(f)
<1>1. /\ Types /\ Wired /\ backend \in Backends /\ backend.attached /\ First("owner")
      /\ UNCHANGED <<provider, inbox, speech, finals>> /\ backend.socket \in Sockets
  BY DEF IInv, Types, Release, Backends, speech
<1>2. f \in Backends /\ ~f.attached /\ f.promise = backend.promise /\ f.socket = backend.socket
  BY <1>1 DEF Backends
<1> HIDE DEF f
<1>3. /\ c \in Backends /\ ~c.keepAlive /\ c.source.done /\ c.socket = CloseSocket(backend.socket)
      /\ c.status = "closed" /\ c.promise = backend.promise /\ ~c.attached
  BY <1>2, Closing
<1>4. CloseSocket(backend.socket) \notin {"connecting", "open"}
      /\ (backend.socket = "none" => CloseSocket(backend.socket) = "none")
  BY <1>1, SocketClosing
<1>5. backend' = [c EXCEPT !.heard = "released"]  BY DEF Release, f
<1> HIDE DEF c
<1>6. /\ backend' \in Backends /\ ~backend'.attached /\ Over(backend') /\ backend'.heard = "released"
      /\ backend'.status = "closed" /\ backend'.promise = backend.promise
      /\ backend.socket = "none" => backend'.socket = "none"
  BY <1>3, <1>4, <1>5 DEF Backends, Kinds, Over
<1>7. Reports /\ (backend'.attached <=> cause' = "none")  BY <1>1, <1>6, Dies
<1>8. Types'  BY <1>1, <1>6, Wordless
<1>9. Wired'  BY <1>1, <1>6, <1>7 DEF Wired, Over, OverWebSocket
<1>10. Timed'  BY <1>6 DEF Timed, FlushArmed, Over
<1> QED  BY <1>7, <1>8, <1>9, <1>10 DEF IInv
-----------------------------------------------------------------------------
(* xAI with granular finals.  The segmenter's hypothesis is the turn so far    *)
(* (Echoed), and what was handed over is the turns before it and then the     *)
(* words of this one that count as emitted (Kept).                            *)

Echoed == Granular =>
    backend.segmenter.hyp = Whole /\ backend.segmenter.baseText = utterance.base

Kept == Granular /\ backend.attached /\ ~revised =>
    /\ Held(backend.segmenter)
    /\ Len(finals) = Len(spoken) + backend.segmenter.emitted
    /\ \A i \in 1..Len(spoken) : finals[i] = spoken[i]
    /\ \A i \in 1..backend.segmenter.emitted : finals[Len(spoken) + i] = Whole[i]

Turn == Echoed /\ Kept

\* A step that moves the segmenter on and hands over words.
LEMMA WordsStep ==
    ASSUME IInv, Granular => backend.socket # "connecting", UNCHANGED <<provider, cause, inbox>>,
           NEW seg \in Segmenters, NEW timer \in BOOLEAN,
           backend' = [backend EXCEPT !.segmenter = seg, !.flushTimer = timer],
           Granular /\ backend.status = "connected" /\ HasDue(seg) => timer,
           NEW words \in Seq(Words), Hear(backend, words),
           utterance' \in [base : Seq(Words), interim : Seq(Words)],
           spoken' \in Seq(Words), revised' \in BOOLEAN,
           backend.attached => backend.promise = "resolved"
    PROVE  IInv' /\ Reports
<1>1. Types /\ Wired /\ Timed /\ backend \in Backends  BY DEF IInv, Types
<1>2. /\ backend' \in Backends /\ backend'.attached = backend.attached
      /\ backend'.heard = backend.heard /\ backend'.socket = backend.socket
      /\ backend'.keepAlive = backend.keepAlive /\ backend'.status = backend.status
      /\ backend'.promise = backend.promise /\ backend'.source = backend.source
      /\ backend'.segmenter = seg /\ backend'.flushTimer = timer
  BY <1>1 DEF Backends
<1>3. Reports /\ finals' \in Seq(Words)  BY <1>1, <1>2, Hears
<1>4. Types'  BY <1>1, <1>2, <1>3 DEF Types
<1>5. Wired'  BY <1>1, <1>2 DEF Wired, Serving, Over, OverWebSocket
<1>6. Timed'  BY <1>1, <1>2 DEF Timed, FlushArmed, Granular
<1> QED  BY <1>3, <1>4, <1>5, <1>6 DEF IInv

LEMMA SpeakingIs ==
    ASSUME IInv, Speaking
    PROVE  /\ Granular /\ backend.socket # "connecting" /\ backend.attached
           /\ backend.promise = "resolved"
<1>1. Granular /\ backend.socket = "open"  BY DEF Speaking
<1>2. Wired  BY DEF IInv
<1>3. backend.attached \in BOOLEAN  BY DEF IInv, Types, Backends
<1>4. backend.attached  BY <1>1, <1>2, <1>3 DEF Wired, Over
<1> QED  BY <1>1, <1>2, <1>4 DEF Wired, Serving, Granular

LEMMA AgedIs ==
    ASSUME Types, NEW s \in Aged
    PROVE  /\ s \in Segmenters /\ s.hyp = backend.segmenter.hyp
           /\ s.baseText = backend.segmenter.baseText /\ s.emitted = backend.segmenter.emitted
           /\ s.pending = backend.segmenter.pending
<1>1. backend.segmenter \in Segmenters  BY DEF Types, Backends
<1>2. backend.segmenter.stable \in Int /\ Len(backend.segmenter.hyp) \in Int
  BY <1>1, LenProperties DEF Segmenters
<1>3. PICK k \in Int : s = [backend.segmenter EXCEPT !.stable = k]  BY <1>2 DEF Aged
<1> QED  BY <1>1, <1>3 DEF Segmenters

LEMMA HeldAged ==
    ASSUME NEW s, NEW u, s.hyp = u.hyp, s.emitted = u.emitted, s.pending = u.pending, Held(u)
    PROVE  Held(s)
BY DEF Held, FrozenCount

LEMMA WholeIs ==
    ASSUME Types
    PROVE  /\ utterance.base \in Seq(Words) /\ utterance.interim \in Seq(Words)
           /\ Whole \in Seq(Words) /\ Len(Whole) \in Nat
<1>1. utterance.base \in Seq(Words) /\ utterance.interim \in Seq(Words)  BY DEF Types
<1>2. Whole \in Seq(Words)  BY <1>1, ConcatProperties DEF Whole
<1> QED  BY <1>1, <1>2, LenProperties

\* A prefix of the turn that a text begins with.
LEMMA BeginsWith ==
    ASSUME NEW w \in Seq(Words), NEW t \in Seq(Words), NEW n \in Nat, n <= Len(w),
           IsPrefix(SubSeq(w, 1, n), t)
    PROVE  n <= Len(t) /\ \A i \in 1..n : t[i] = w[i]
<1> DEFINE p == SubSeq(w, 1, n)
<1>1. Len(w) \in Nat /\ Len(t) \in Nat  BY LenProperties
<1>2. \A i \in 1..n : w[i] \in Words  BY <1>1
<1>3. /\ p \in Seq(Words) /\ Len(p) = n /\ \A i \in 1..n : p[i] = w[i]
  <2>1. /\ p \in Seq(Words) /\ Len(p) = IF 1 <= n THEN n - 1 + 1 ELSE 0
        /\ \A i \in 1..(n - 1 + 1) : p[i] = w[1 + i - 1]
    BY <1>2, SubSeqProperties
  <2> HIDE DEF p
  <2>2. Len(p) = n  BY <2>1
  <2>3. ASSUME NEW i \in 1..n PROVE p[i] = w[i]
    <3>1. i \in 1..(n - 1 + 1) /\ 1 + i - 1 = i  OBVIOUS
    <3> QED  BY <2>1, <3>1
  <2> QED  BY <2>1, <2>2, <2>3
<1> HIDE DEF p
<1>4. Len(p) <= Len(t) /\ SubSeq(p, 1, Len(p)) = SubSeq(t, 1, Len(p))  BY DEF IsPrefix, p
<1>5. SubSeq(p, 1, n) = SubSeq(t, 1, n) /\ n <= Len(t)  BY <1>3, <1>4
<1>6. ASSUME NEW i \in 1..n PROVE t[i] = w[i]
  <2>1. \A j \in 1..n : p[j] \in Words  BY <1>2, <1>3
  <2>2. \A j \in 1..n : t[j] \in Words  BY <1>1, <1>5
  <2>3. i \in 1..(n - 1 + 1) /\ 1 + i - 1 = i  OBVIOUS
  <2>4. SubSeq(p, 1, n)[i] = p[i]  BY <2>1, <2>3, SubSeqProperties
  <2>5. SubSeq(t, 1, n)[i] = t[i]  BY <2>2, <2>3, SubSeqProperties
  <2> QED  BY <1>3, <1>5, <2>4, <2>5
<1> QED  BY <1>5, <1>6

\* A text that begins with the frozen words keeps them where they were.
LEMMA Unrevised ==
    ASSUME Types, Echoed, Kept, Granular, backend.attached, ~revised,
           NEW text \in Seq(Words), Revises(text), ~revised'
    PROVE  /\ FrozenCount(backend.segmenter) <= Len(text)
           /\ \A i \in 1..FrozenCount(backend.segmenter) : text[i] = Whole[i]
<1> DEFINE n == FrozenCount(backend.segmenter)
<1>1. /\ backend.segmenter \in Segmenters /\ Held(backend.segmenter)
      /\ backend.segmenter.hyp = Whole
  BY DEF Types, Backends, Kept, Echoed
<1>2. n \in Nat  BY <1>1, LenProperties DEF Segmenters, FrozenCount
<1>3. n <= Len(Whole)  BY <1>1 DEF Held
<1>4. IsPrefix(SubSeq(Whole, 1, n), text)  BY DEF Revises
<1> HIDE DEF n
<1>5. Whole \in Seq(Words)  BY WholeIs
<1>6. n <= Len(text) /\ \A i \in 1..n : text[i] = Whole[i]  BY <1>2, <1>3, <1>4, <1>5, BeginsWith
<1> QED  BY <1>6 DEF n

\* f has e words of w from n on, and c those that follow them.
Follows(f, n, e, w) == \A i \in 1..e : f[n + i] = w[i]
Resumes(c, e, w) == \A i \in 1..Len(c) : c[i] = w[e + i]

\* Words of w are handed over after those of w that were.
LEMMA Committed ==
    ASSUME NEW f \in Seq(Words), NEW c \in Seq(Words), NEW n \in Nat, NEW e \in Nat,
           NEW w \in Seq(Words),
           Len(f) = n + e, Follows(f, n, e, w), Resumes(c, e, w)
    PROVE  /\ f \o c \in Seq(Words) /\ Len(f \o c) = n + e + Len(c)
           /\ \A i \in 1..n : (f \o c)[i] = f[i]
           /\ Follows(f \o c, n, e + Len(c), w)
<1>1. /\ f \o c \in Seq(Words) /\ Len(f \o c) = Len(f) + Len(c) /\ Len(f) \in Nat /\ Len(c) \in Nat
      /\ \A i \in 1..(Len(f) + Len(c)) : (f \o c)[i] = IF i <= Len(f) THEN f[i] ELSE c[i - Len(f)]
  BY ConcatProperties, LenProperties
<1>2. ASSUME NEW i \in 1..n PROVE (f \o c)[i] = f[i]
  <2>1. i \in 1..(Len(f) + Len(c)) /\ i <= Len(f)  BY <1>1
  <2> QED  BY <1>1, <2>1
<1>3. ASSUME NEW i \in 1..(e + Len(c)) PROVE (f \o c)[n + i] = w[i]
  <2>1. n + i \in 1..(Len(f) + Len(c))  BY <1>1
  <2>2. CASE i <= e
    <3>1. n + i <= Len(f) /\ i \in 1..e  BY <1>1, <2>2
    <3> QED  BY <1>1, <2>1, <3>1 DEF Follows
  <2>3. CASE i > e
    <3>0. i \in Int /\ 1 <= i /\ i <= e + Len(c) /\ Len(c) \in Nat /\ Len(f) = n + e  BY <1>1
    <3>1. ~(n + i <= Len(f)) /\ n + i - Len(f) = i - e /\ i - e \in 1..Len(c) /\ e + (i - e) = i
      BY <2>3, <3>0
    <3>2. (f \o c)[n + i] = c[n + i - Len(f)]  BY <1>1, <2>1, <3>1
    <3>3. c[i - e] = w[e + (i - e)]  BY <3>1 DEF Resumes
    <3> QED  BY <3>1, <3>2, <3>3
  <2> QED  BY <2>2, <2>3
<1> QED  BY <1>1, <1>2, <1>3 DEF Follows

\* The hypothesis that handlePartial makes of the segment's text is the whole turn.
LEMMA Continuing ==
    ASSUME Types, Echoed, Granular, ~Repeats, NEW text \in Hypotheses
    PROVE  /\ MergeBase(backend.segmenter.baseText, text) = utterance.base \o text
           /\ text \in Seq(Words) /\ utterance.base \o text \in Seq(Words)
<1>1. /\ text \in Seq(Words) /\ utterance.base \in Seq(Words)
      /\ utterance.base = <<>> \/ ~IsPrefix(utterance.base, text)
  BY Hypothesising, WholeIs
<1>2. backend.segmenter.baseText = utterance.base  BY DEF Echoed
<1>3. utterance.base \o text \in Seq(Words)  BY <1>1, ConcatProperties
<1>4. <<>> \o text = text  BY <1>1, ConcatEmptySeq
<1> QED  BY <1>1, <1>2, <1>3, <1>4 DEF MergeBase

\* freeze and batchPending keep what the turn's words are.
LEMMA FreezeKeeps ==
    ASSUME Types, Granular, NEW u \in Segmenters, NEW whole \in Seq(Words),
           spoken' = spoken, provider' = provider, Whole' = whole, u.hyp = whole,
           u.baseText = utterance'.base, NEW timer,
           backend' = [backend EXCEPT !.segmenter = Freeze(u).segmenter, !.flushTimer = timer],
           Hear(backend, Freeze(u).commits),
           backend.attached /\ ~revised' =>
               /\ Held(u) /\ Len(finals) = Len(spoken) + u.emitted
               /\ \A i \in 1..Len(spoken) : finals[i] = spoken[i]
               /\ \A i \in 1..u.emitted : finals[Len(spoken) + i] = whole[i]
    PROVE  Turn'
<1> DEFINE r == Freeze(u).segmenter
           c == Freeze(u).commits
<1>1. /\ r \in Segmenters /\ r.hyp = u.hyp /\ r.baseText = u.baseText
      /\ c \in Seq(Words) /\ r.emitted = u.emitted + Len(c)
      /\ Held(u) => Held(r) /\ \A i \in 1..Len(c) : c[i] = u.hyp[u.emitted + i]
  BY Freezing
<1>2. u.emitted \in Nat /\ Len(spoken) \in Nat /\ finals \in Seq(Words)
  BY LenProperties DEF Segmenters, Types
<1>3. backend'.segmenter = r /\ backend'.attached = backend.attached  BY DEF Types, Backends
<1> HIDE DEF r, c
<1>4. Echoed'  BY <1>1, <1>3 DEF Echoed
<1>5. ASSUME backend'.attached, ~revised'
      PROVE  /\ Held(r) /\ Len(finals') = Len(spoken) + r.emitted
             /\ \A i \in 1..Len(spoken) : finals'[i] = spoken[i]
             /\ \A i \in 1..r.emitted : finals'[Len(spoken) + i] = whole[i]
  <2>1. /\ Held(r) /\ \A i \in 1..Len(c) : c[i] = whole[u.emitted + i]
        /\ Len(finals) = Len(spoken) + u.emitted
        /\ \A i \in 1..Len(spoken) : finals[i] = spoken[i]
        /\ \A i \in 1..u.emitted : finals[Len(spoken) + i] = whole[i]
    BY <1>1, <1>3, <1>5
  <2>2. finals' = finals \o c  BY <1>3, <1>5 DEF Hear, c
  <2>3. /\ Len(finals \o c) = Len(spoken) + u.emitted + Len(c)
        /\ \A i \in 1..Len(spoken) : (finals \o c)[i] = finals[i]
        /\ \A i \in 1..(u.emitted + Len(c)) : (finals \o c)[Len(spoken) + i] = whole[i]
    <3> DEFINE n == Len(spoken)
               e == u.emitted
    <3>1. /\ n \in Nat /\ e \in Nat /\ finals \in Seq(Words) /\ c \in Seq(Words)
          /\ Len(finals) = n + e /\ Follows(finals, n, e, whole) /\ Resumes(c, e, whole)
      BY <1>1, <1>2, <2>1 DEF Follows, Resumes
    <3> HIDE DEF n, e
    <3>2. /\ Len(finals \o c) = n + e + Len(c)
          /\ \A i \in 1..n : (finals \o c)[i] = finals[i]
          /\ Follows(finals \o c, n, e + Len(c), whole)
      BY <3>1, Committed
    <3> QED  BY <3>2 DEF Follows, n, e
  <2>4. r.emitted = u.emitted + Len(c) /\ Len(c) \in Nat  BY <1>1, LenProperties
  <2>5. Len(finals') = Len(spoken) + r.emitted
    <3>1. Len(spoken) + u.emitted + Len(c) = Len(spoken) + r.emitted  BY <1>2, <2>4
    <3> QED  BY <2>2, <2>3, <3>1
  <2>6. \A i \in 1..Len(spoken) : finals'[i] = spoken[i]  BY <2>1, <2>2, <2>3
  <2>7. \A i \in 1..r.emitted : finals'[Len(spoken) + i] = whole[i]  BY <2>2, <2>3, <2>4
  <2> QED  BY <2>1, <2>5, <2>6, <2>7
<1>6. Kept'  BY <1>3, <1>5 DEF Kept
<1> QED  BY <1>4, <1>6 DEF Turn

LEMMA PartialStep ==
    ASSUME IInv, NEW isFinalSeg \in BOOLEAN, Partial(isFinalSeg)
    PROVE  IInv' /\ Reports /\ (~Repeats /\ Turn => Turn')
<1>1. /\ Types /\ Wired /\ Timed /\ Granular /\ backend.socket # "connecting" /\ backend.attached
      /\ backend.promise = "resolved" /\ UNCHANGED <<provider, cause, inbox, spoken>>
  BY SpeakingIs DEF IInv, Partial
<1>2. PICK text \in Hypotheses, s \in Aged :
        LET result == PushPartial(s, text, isFinalSeg, FALSE)
        IN  /\ backend' = [backend EXCEPT !.segmenter = result.segmenter,
                                          !.flushTimer = Armed(result.segmenter)]
            /\ Hear(backend, result.commits)
            /\ utterance' = IF isFinalSeg THEN [base |-> utterance.base \o text, interim |-> <<>>]
                            ELSE [utterance EXCEPT !.interim = text]
            /\ Revises(utterance'.base \o utterance'.interim)
  BY DEF Partial
<1>3. /\ s \in Segmenters /\ s.hyp = backend.segmenter.hyp
      /\ s.baseText = backend.segmenter.baseText /\ s.emitted = backend.segmenter.emitted
      /\ s.pending = backend.segmenter.pending
  BY <1>1, AgedIs
<1>4. text \in Seq(Words) /\ utterance.base \in Seq(Words) /\ utterance.interim \in Seq(Words)
  BY <1>1, Hypothesising, WholeIs
<1>5. PICK u \in Segmenters :
        /\ PushPartial(s, text, isFinalSeg, FALSE) = Freeze(u)
        /\ u.hyp = MergeBase(s.baseText, text)
        /\ u.baseText = IF isFinalSeg THEN MergeBase(s.baseText, text) ELSE s.baseText
        /\ u.emitted = s.emitted /\ u.pending = s.pending
  BY <1>3, <1>4, Pushing
<1> DEFINE r == Freeze(u).segmenter
           c == Freeze(u).commits
           base == IF isFinalSeg THEN utterance.base \o text ELSE utterance.base
           interim == IF isFinalSeg THEN <<>> ELSE text
<1>6. /\ backend' = [backend EXCEPT !.segmenter = r, !.flushTimer = Armed(r)]
      /\ Hear(backend, c) /\ Revises(utterance'.base \o utterance'.interim)
  BY <1>2, <1>5
<1>7. utterance.base \o text \in Seq(Words) /\ <<>> \in Seq(Words)  BY <1>4, ConcatProperties, EmptySeq
<1>8. utterance' = [base |-> base, interim |-> interim]
  BY <1>1, <1>2 DEF Types
<1>9. base \in Seq(Words) /\ interim \in Seq(Words)  BY <1>4, <1>7
<1>10. r \in Segmenters /\ c \in Seq(Words)  BY Freezing
<1> HIDE DEF r, c
<1>11. Armed(r) \in BOOLEAN /\ (HasDue(r) => Armed(r))  BY DEF Armed, HasDue
<1>12. revised' \in BOOLEAN /\ (~revised' => ~revised)  BY <1>1, <1>6 DEF Revises, Types
<1>13. utterance' \in [base : Seq(Words), interim : Seq(Words)]  BY <1>8, <1>9
<1>14. IInv' /\ Reports
  <2>1. spoken' \in Seq(Words)  BY <1>1 DEF Types
  <2> QED  BY <1>1, <1>6, <1>10, <1>11, <1>12, <1>13, <2>1, WordsStep
<1>15. ASSUME ~Repeats, Turn PROVE Turn'
  <2> DEFINE whole == utterance.base \o text
  <2>1. Echoed /\ Kept  BY <1>15 DEF Turn
  <2>2. MergeBase(s.baseText, text) = whole  BY <1>1, <1>3, <1>15, <2>1, Continuing
  <2>3. utterance'.base = base /\ utterance'.interim = interim  BY <1>8
  <2>4. base \o interim = whole
    <3>1. whole \o <<>> = whole  BY <1>7, ConcatEmptySeq
    <3> QED  BY <3>1
  <2>5. Whole' = whole  BY <2>3, <2>4 DEF Whole
  <2>6. whole \in Seq(Words)  BY <1>7
  <2>7. u.hyp = whole /\ u.baseText = utterance'.base
    BY <1>1, <1>3, <1>5, <2>1, <2>2, <2>3 DEF Echoed
  <2>8. Revises(whole)  BY <1>6, <2>3, <2>4
  <2> HIDE DEF whole
  <2>9. ASSUME ~revised'
        PROVE  /\ Held(u) /\ Len(finals) = Len(spoken) + u.emitted
               /\ \A i \in 1..Len(spoken) : finals[i] = spoken[i]
               /\ \A i \in 1..u.emitted : finals[Len(spoken) + i] = whole[i]
    <3> DEFINE g == backend.segmenter
               n == FrozenCount(g)
    <3>1. /\ Held(g) /\ Len(finals) = Len(spoken) + g.emitted
          /\ \A i \in 1..Len(spoken) : finals[i] = spoken[i]
          /\ \A i \in 1..g.emitted : finals[Len(spoken) + i] = Whole[i]
          /\ g.hyp = Whole
      BY <1>1, <1>12, <2>1, <2>9 DEF Kept, Echoed
    <3>2. n <= Len(whole) /\ \A i \in 1..n : whole[i] = Whole[i]
      BY <1>1, <1>12, <2>1, <2>6, <2>8, <2>9, Unrevised
    <3>3. /\ n = g.emitted + Len(g.pending) /\ g.emitted \in Nat /\ Len(g.pending) \in Nat
      BY <1>3, LenProperties DEF FrozenCount, Segmenters
    <3>4. u.emitted = g.emitted /\ u.pending = g.pending /\ FrozenCount(u) = n
      BY <1>3, <1>5 DEF FrozenCount
    <3> HIDE DEF n, g
    <3>5. ASSUME NEW i \in 1..Len(g.pending) PROVE g.pending[i] = whole[g.emitted + i]
      <4>1. g.emitted + i \in 1..n  BY <3>3
      <4> QED  BY <3>1, <3>2, <4>1 DEF Held
    <3>6. ASSUME NEW i \in 1..g.emitted PROVE finals[Len(spoken) + i] = whole[i]
      <4>1. i \in 1..n  BY <3>3
      <4> QED  BY <3>1, <3>2, <4>1
    <3>7. Held(u)  BY <2>7, <3>2, <3>4, <3>5 DEF Held
    <3> QED  BY <3>1, <3>4, <3>6, <3>7
  <2> QED  BY <1>1, <1>6, <2>5, <2>6, <2>7, <2>9, FreezeKeeps DEF r, c
<1> QED  BY <1>14, <1>15

\* The end of a turn hands over what was not yet, so that the turn is there as it was said.
LEMMA TurnEndsStep ==
    ASSUME IInv, Speaking, NEW text \in Seq(Words), TurnEnds(text)
    PROVE  IInv' /\ Reports /\ (Turn => Turn')
<1> DEFINE g == backend.segmenter
           c == EndTurn(g, text).commits
<1>1. /\ Types /\ Wired /\ Timed /\ Granular /\ backend.socket # "connecting" /\ backend.attached
      /\ backend.promise = "resolved" /\ UNCHANGED <<provider, cause, inbox>>
      /\ g \in Segmenters /\ finals \in Seq(Words) /\ spoken \in Seq(Words) /\ revised \in BOOLEAN
  BY SpeakingIs DEF IInv, TurnEnds, Types, Backends
<1>2. /\ PushPartial(g, text, TRUE, TRUE) = EndTurn(g, text)
      /\ EndTurn(g, text).segmenter = Fresh /\ c \in Seq(Words)
      /\ Len(c) = IF g.emitted <= Len(text) THEN Len(text) - g.emitted ELSE 0
      /\ \A i \in 1..Len(c) : c[i] = text[g.emitted + i]
  BY <1>1, TurnEnding
<1>3. /\ backend' = [backend EXCEPT !.segmenter = Fresh, !.flushTimer = FALSE]
      /\ Hear(backend, c) /\ spoken' = spoken \o text /\ Revises(text)
      /\ utterance' = [base |-> <<>>, interim |-> <<>>]
  BY <1>2 DEF TurnEnds
<1> HIDE DEF c
<1>4. spoken' \in Seq(Words)  BY <1>1, <1>3, ConcatProperties
<1>5. /\ utterance' \in [base : Seq(Words), interim : Seq(Words)]
      /\ revised' \in BOOLEAN /\ (~revised' => ~revised)
  BY <1>1, <1>3, EmptySeq DEF Revises
<1>6. IInv' /\ Reports  BY <1>1, <1>2, <1>3, <1>4, <1>5, FreshIs, WordsStep
<1>7. ASSUME Turn PROVE Turn'
  <2>1. Echoed /\ Kept  BY <1>7 DEF Turn
  <2>2. backend'.segmenter = Fresh /\ backend'.attached  BY <1>1, <1>3 DEF Types, Backends
  <2>3. utterance'.base = <<>> /\ utterance'.interim = <<>>  BY <1>3
  <2>4. Whole' = <<>>
    <3>1. <<>> \o <<>> = <<>>  BY EmptySeq, ConcatEmptySeq
    <3> QED  BY <2>3, <3>1 DEF Whole
  <2>5. Echoed'  BY <2>2, <2>3, <2>4 DEF Echoed, Fresh
  <2>6. ASSUME ~revised'
        PROVE  Len(finals') = Len(spoken') /\ \A i \in 1..Len(spoken') : finals'[i] = spoken'[i]
    <3> DEFINE n == FrozenCount(g)
               e == g.emitted
               m == Len(spoken)
    <3>1. /\ n = e + Len(g.pending) /\ e \in Nat /\ Len(g.pending) \in Nat /\ m \in Nat
          /\ Len(text) \in Nat
      BY <1>1, LenProperties DEF FrozenCount, Segmenters
    <3>2. n <= Len(text) /\ \A i \in 1..n : text[i] = Whole[i]
      BY <1>1, <1>3, <1>5, <2>1, <2>6, Unrevised
    <3>3. /\ Len(finals) = m + e /\ \A i \in 1..m : finals[i] = spoken[i]
          /\ \A i \in 1..e : finals[m + i] = Whole[i]
      BY <1>1, <1>5, <2>1, <2>6 DEF Kept
    <3>4. finals' = finals \o c  BY <1>1, <1>3 DEF Hear
    <3>5. Len(c) = Len(text) - e /\ Resumes(c, e, text)
      BY <1>2, <3>1, <3>2 DEF Resumes
    <3> HIDE DEF n, e, m
    <3>6. Follows(finals, m, e, text)
      <4>1. \A i \in 1..e : i \in 1..n  BY <3>1
      <4> QED  BY <3>2, <3>3, <4>1 DEF Follows
    <3>7. /\ Len(finals \o c) = m + e + Len(c)
          /\ \A i \in 1..m : (finals \o c)[i] = finals[i]
          /\ Follows(finals \o c, m, e + Len(c), text)
      <4>1. /\ m \in Nat /\ e \in Nat /\ finals \in Seq(Words) /\ c \in Seq(Words)
            /\ Len(finals) = m + e /\ Resumes(c, e, text)
        BY <1>1, <1>2, <3>1, <3>3, <3>5
      <4> QED  BY <3>6, <4>1, Committed
    <3>8. e + Len(c) = Len(text) /\ m + e + Len(c) = m + Len(text)  BY <3>1, <3>5
    <3>9. /\ Len(spoken') = m + Len(text)
          /\ \A i \in 1..(m + Len(text)) : spoken'[i] = IF i <= m THEN spoken[i] ELSE text[i - m]
      BY <1>1, <1>3, ConcatProperties DEF m
    <3>10. ASSUME NEW i \in 1..(m + Len(text)) PROVE finals'[i] = spoken'[i]
      <4>1. CASE i <= m
        <5>1. i \in 1..m  BY <3>1, <4>1
        <5> QED  BY <3>3, <3>4, <3>7, <3>9, <4>1, <5>1
      <4>2. CASE i > m
        <5>1. ~(i <= m) /\ i - m \in 1..Len(text) /\ m + (i - m) = i  BY <3>1, <4>2
        <5>2. (finals \o c)[m + (i - m)] = text[i - m]  BY <3>7, <3>8, <5>1 DEF Follows
        <5> QED  BY <3>4, <3>9, <5>1, <5>2
      <4> QED  BY <3>1, <4>1, <4>2
    <3> QED  BY <3>4, <3>7, <3>8, <3>9, <3>10
  <2>7. ASSUME Granular', backend'.attached, ~revised'
        PROVE  /\ Held(Fresh)
               /\ Len(finals') = Len(spoken') + Fresh.emitted
               /\ \A i \in 1..Len(spoken') : finals'[i] = spoken'[i]
               /\ \A i \in 1..Fresh.emitted : finals'[Len(spoken') + i] = <<>>[i]
    <3>1. Len(spoken') \in Nat  BY <1>4, LenProperties
    <3>2. Fresh.emitted = 0 /\ Fresh.hyp = <<>> /\ Fresh.pending = <<>>  BY DEF Fresh
    <3>3. Held(Fresh)  BY <3>2, EmptySeq DEF Held, FrozenCount
    <3> QED  BY <2>6, <2>7, <3>1, <3>2, <3>3
  <2>8. Kept'  BY <2>2, <2>4, <2>7 DEF Kept
  <2> QED  BY <2>5, <2>8 DEF Turn
<1> QED  BY <1>6, <1>7

\* Steps that keep the words and the segmenter.
LEMMA TurnStays ==
    ASSUME Turn, UNCHANGED <<provider, speech>>, backend'.segmenter = backend.segmenter,
           backend'.attached => backend.attached
    PROVE  Turn'
<1>1. UNCHANGED <<utterance, spoken, finals, revised>>  BY DEF speech
<1>2. Whole' = Whole  BY <1>1 DEF Whole
<1>3. Echoed'  BY <1>1, <1>2 DEF Turn, Echoed, Granular
<1>4. Kept'  BY <1>1, <1>2 DEF Turn, Kept, Granular
<1> QED  BY <1>3, <1>4 DEF Turn

LEMMA SpeechFinalStep == IInv /\ SpeechFinal => IInv' /\ Reports /\ (Turn => Turn')
<1> SUFFICES ASSUME IInv, SpeechFinal PROVE IInv' /\ Reports /\ (Turn => Turn')  OBVIOUS
<1>1. PICK text \in Hypotheses : TurnEnds(utterance.base \o text)  BY DEF SpeechFinal
<1>2. text \in Seq(Words) /\ utterance.base \in Seq(Words)  BY Hypothesising, WholeIs DEF IInv
<1>3. utterance.base \o text \in Seq(Words)  BY <1>2, ConcatProperties
<1> QED  BY <1>1, <1>3, TurnEndsStep DEF SpeechFinal

\* Only the timer is set or cleared.
LEMMA TimerStep ==
    ASSUME IInv, NEW timer \in BOOLEAN, backend' = [backend EXCEPT !.flushTimer = timer],
           UNCHANGED <<provider, cause, inbox, speech>>,
           Granular => (backend.status = "connected" /\ HasDue(backend.segmenter) => timer)
    PROVE  IInv' /\ Reports /\ (Turn => Turn')
<1>1. Types /\ Wired /\ Timed /\ backend \in Backends /\ finals' = finals
  BY DEF IInv, Types, speech
<1>2. /\ backend' \in Backends /\ backend'.attached = backend.attached
      /\ backend'.heard = backend.heard /\ backend'.socket = backend.socket
      /\ backend'.keepAlive = backend.keepAlive /\ backend'.status = backend.status
      /\ backend'.promise = backend.promise /\ backend'.source = backend.source
      /\ backend'.segmenter = backend.segmenter /\ backend'.flushTimer = timer
  BY <1>1 DEF Backends
<1>3. Reports  BY <1>1, <1>2, Lives DEF Wired, Serving
<1>4. Types'  BY <1>1, <1>2, Wordless
<1>5. Wired'  BY <1>1, <1>2 DEF Wired, Serving, Over, OverWebSocket
<1>6. Timed'  BY <1>1, <1>2 DEF Timed, FlushArmed, Granular
<1>7. Turn => Turn'  BY <1>2, TurnStays
<1> QED  BY <1>3, <1>4, <1>5, <1>6, <1>7 DEF IInv

LEMMA DoneStep == IInv /\ Done => IInv' /\ Reports /\ (Turn => Turn')
<1> SUFFICES ASSUME IInv, Done PROVE IInv' /\ Reports /\ (Turn => Turn')  OBVIOUS
<1>1. CASE HasActiveTurn(backend.segmenter)
  <2>1. Whole \in Seq(Words)  BY WholeIs DEF IInv
  <2> QED  BY <1>1, <2>1, TurnEndsStep DEF Done
<1>2. CASE ~HasActiveTurn(backend.segmenter)
  <2>1. backend.segmenter \in Segmenters  BY DEF IInv, Types, Backends
  <2>2. backend.segmenter.hyp = <<>> /\ Len(<<>>) = 0  BY <1>2, EmptySeq DEF HasActiveTurn
  <2>3. FrozenCount(backend.segmenter) \in Nat  BY <2>1, LenProperties DEF Segmenters, FrozenCount
  <2>4. ~HasDue(backend.segmenter)  BY <2>2, <2>3 DEF HasDue
  <2> QED  BY <1>2, <2>4, TimerStep DEF Done
<1> QED  BY <1>1, <1>2

LEMMA LatePartialStep == IInv /\ LatePartial => IInv' /\ Reports /\ (Turn => Turn')
BY TimerStep DEF LatePartial, IInv, Timed

LEMMA FlushTimerStep == IInv /\ FlushTimer => IInv' /\ Reports /\ (Turn => Turn')
<1> SUFFICES ASSUME IInv, FlushTimer PROVE IInv' /\ Reports /\ (Turn => Turn')  OBVIOUS
<1>1. /\ Types /\ Wired /\ Timed
      /\ UNCHANGED <<provider, cause, inbox, utterance, spoken, revised>>
  BY DEF IInv, FlushTimer
<1>2. CASE /\ backend.status # "connected" /\ UNCHANGED finals
           /\ backend' = [backend EXCEPT !.flushTimer = FALSE]
  <2>1. UNCHANGED speech  BY <1>1, <1>2 DEF speech
  <2> QED  BY <1>1, <1>2, <2>1, TimerStep
<1>3. ASSUME backend.status = "connected", NEW s \in Aged, s.stable > FrozenCount(s),
             backend' = [backend EXCEPT !.segmenter = Freeze(s).segmenter,
                                        !.flushTimer = Armed(Freeze(s).segmenter)],
             Hear(backend, Freeze(s).commits)
      PROVE  IInv' /\ Reports /\ (Turn => Turn')
  <2> DEFINE r == Freeze(s).segmenter
             c == Freeze(s).commits
             g == backend.segmenter
  <2>1. /\ s \in Segmenters /\ s.hyp = g.hyp /\ s.baseText = g.baseText
        /\ s.emitted = g.emitted /\ s.pending = g.pending
    BY <1>1, <1>3, AgedIs
  <2>2. r \in Segmenters /\ c \in Seq(Words)  BY <2>1, Freezing
  <2>3. Armed(r) \in BOOLEAN /\ (HasDue(r) => Armed(r))  BY DEF Armed, HasDue
  <2>4. Granular => backend.socket # "connecting"
    <3> SUFFICES ASSUME Granular, backend.socket = "connecting" PROVE FALSE  OBVIOUS
    <3>1. g = Fresh  BY <1>1 DEF Timed
    <3>2. PICK k \in Fresh.stable..Len(Fresh.hyp) : s = [Fresh EXCEPT !.stable = k]
      BY <3>1 DEF Aged
    <3>3. Fresh.stable = 0 /\ Len(Fresh.hyp) = 0 /\ Fresh.emitted = 0 /\ Len(Fresh.pending) = 0
      BY EmptySeq DEF Fresh
    <3>4. s.stable = 0  BY <3>2, <3>3 DEF Fresh
    <3>5. FrozenCount(s) = 0  BY <2>1, <3>1, <3>3 DEF FrozenCount
    <3> QED  BY <1>3, <3>4, <3>5
  <2>5. backend.attached => backend.promise = "resolved"  BY <1>1, <1>3 DEF Wired, Serving
  <2> HIDE DEF r, c
  <2>6. IInv' /\ Reports
    <3>1. /\ utterance' \in [base : Seq(Words), interim : Seq(Words)]
          /\ spoken' \in Seq(Words) /\ revised' \in BOOLEAN
      BY <1>1 DEF Types
    <3> QED  BY <1>1, <1>3, <2>2, <2>3, <2>4, <2>5, <3>1, WordsStep DEF r, c
  <2>7. ASSUME Turn PROVE Turn'
    <3>1. CASE ~Granular
      BY <1>1, <3>1 DEF Turn, Echoed, Kept, Granular
    <3>2. CASE Granular
      <4>1. Echoed /\ Kept /\ Whole \in Seq(Words)  BY <1>1, <2>7, WholeIs DEF Turn
      <4>2. Whole' = Whole  BY <1>1 DEF Whole
      <4>3. s.hyp = Whole /\ s.baseText = utterance'.base  BY <1>1, <2>1, <3>2, <4>1 DEF Echoed
      <4>4. ASSUME backend.attached, ~revised'
            PROVE  /\ Held(s) /\ Len(finals) = Len(spoken) + s.emitted
                   /\ \A i \in 1..Len(spoken) : finals[i] = spoken[i]
                   /\ \A i \in 1..s.emitted : finals[Len(spoken) + i] = Whole[i]
        <5>1. /\ Held(g) /\ Len(finals) = Len(spoken) + g.emitted
              /\ \A i \in 1..Len(spoken) : finals[i] = spoken[i]
              /\ \A i \in 1..g.emitted : finals[Len(spoken) + i] = Whole[i]
          BY <1>1, <3>2, <4>1, <4>4 DEF Kept
        <5>2. Held(s)  BY <2>1, <5>1, HeldAged
        <5> QED  BY <2>1, <5>1, <5>2
      <4> QED  BY <1>1, <1>3, <2>1, <3>2, <4>1, <4>2, <4>3, <4>4, FreezeKeeps
    <3> QED  BY <3>1, <3>2
  <2> QED  BY <2>6, <2>7
<1> QED  BY <1>2, <1>3 DEF FlushTimer

\* Every other step leaves the words of a granular stream alone.
LEMMA OthersKeepTurn ==
    ASSUME IInv, Turn,
           \/ Open \/ SocketError \/ SocketCloses \/ Release
           \/ \E kind \in {"recoverable", "error"} : ProviderError(kind)
           \/ \E m \in {"setupComplete", "serverContent", "error"} : Arrives(m) \/ HandleMessage(m)
           \/ Transcript \/ RequestAnswered \/ RequestFails \/ ResultStreamError
           \/ SendAudio \/ ForceCommit \/ NextChunk,
           IInv'
    PROVE  Turn'
<1>1. /\ backend \in Backends /\ Wired /\ Wired'
      /\ backend.attached \in BOOLEAN /\ backend'.attached \in BOOLEAN
  BY DEF IInv, Types, Backends
<1> DEFINE Keeps == /\ UNCHANGED <<provider, speech>> /\ backend'.segmenter = backend.segmenter
                    /\ cause # "none" => cause' = cause
<1>2. ASSUME Keeps PROVE Turn'
  <2>1. backend'.attached => backend.attached  BY <1>1, <1>2 DEF Wired
  <2> QED  BY <1>2, <2>1, TurnStays
<1>3. ASSUME Open PROVE Keeps  BY <1>1, <1>3 DEF Open, Backends
<1>4. ASSUME SocketError PROVE Keeps
  <2> DEFINE t == Tell(backend, "error")
             f == [t EXCEPT !.status = "failed"]
             c == CloseBackend(f)
  <2>1. t \in Backends /\ t.segmenter = backend.segmenter  BY <1>1, Telling DEF Kinds
  <2> HIDE DEF t
  <2>2. f \in Backends /\ f.segmenter = t.segmenter  BY <2>1 DEF Backends
  <2> HIDE DEF f
  <2>3. c \in Backends /\ c.segmenter = f.segmenter  BY <2>2, Closing
  <2>4. backend' = [c EXCEPT !.socket = "closing", !.promise = Settled(@, "rejected")]
    BY <1>4 DEF SocketError, t, f
  <2> HIDE DEF c
  <2>5. backend'.segmenter = backend.segmenter  BY <2>1, <2>2, <2>3, <2>4 DEF Backends
  <2> QED  BY <1>4, <2>5 DEF SocketError, First
<1>5. ASSUME SocketCloses PROVE Keeps
  <2> DEFINE g == [backend EXCEPT !.socket = "closed"]
             c == CloseBackend(g)
  <2>1. g \in Backends /\ g.segmenter = backend.segmenter  BY <1>1 DEF Backends, Sockets
  <2> HIDE DEF g
  <2>2. c \in Backends /\ c.segmenter = g.segmenter  BY <2>1, Closing
  <2> HIDE DEF c
  <2>3. Tell(c, "closed").segmenter = c.segmenter  BY <2>2, Telling DEF Kinds
  <2>4. backend' = c \/ backend' = Tell(c, "closed")  BY <1>5 DEF SocketCloses, ClosedEvent, g, c
  <2> QED  BY <1>5, <2>1, <2>2, <2>3, <2>4 DEF SocketCloses, First
<1>6. ASSUME NEW kind \in {"recoverable", "error"}, ProviderError(kind) PROVE Keeps
  <2>1. backend' = ErrorMessage(backend, kind) /\ backend.socket # "connecting"
    BY <1>6 DEF ProviderError
  <2>2. backend'.segmenter = backend.segmenter  BY <2>1, ErrorEnds
  <2> QED  BY <1>6, <2>2 DEF ProviderError, First
<1>7. ASSUME Release PROVE Keeps
  <2> DEFINE f == [backend EXCEPT !.attached = FALSE]
             c == CloseBackend(f)
  <2>1. f \in Backends /\ f.segmenter = backend.segmenter  BY <1>1 DEF Backends
  <2> HIDE DEF f
  <2>2. c \in Backends /\ c.segmenter = f.segmenter  BY <2>1, Closing
  <2>3. backend' = [c EXCEPT !.heard = "released"]  BY <1>7 DEF Release, f
  <2> HIDE DEF c
  <2>4. backend'.segmenter = backend.segmenter  BY <2>1, <2>2, <2>3 DEF Backends
  <2> QED  BY <1>7, <2>4 DEF Release, First
<1>8. ASSUME ~Granular' PROVE Turn'  BY <1>8 DEF Turn, Echoed, Kept
<1>9. ASSUME \/ \E m \in {"setupComplete", "serverContent", "error"} : Arrives(m) \/ HandleMessage(m)
             \/ Transcript \/ RequestAnswered \/ RequestFails \/ ResultStreamError
             \/ SendAudio \/ ForceCommit \/ NextChunk
      PROVE  ~Granular'
  <2>1. CASE \E m \in {"setupComplete", "serverContent", "error"} : Arrives(m) \/ HandleMessage(m)
    <3>1. provider' = provider  BY <2>1 DEF Arrives, HandleMessage
    <3>2. provider = "gemini"  BY <2>1 DEF Arrives, HandleMessage, IInv, Wired
    <3> QED  BY <3>1, <3>2 DEF Granular
  <2>2. CASE Transcript  BY <2>2 DEF Transcript, Granular
  <2>3. CASE RequestAnswered \/ RequestFails \/ ResultStreamError
    BY <2>3 DEF RequestAnswered, RequestFails, ResultStreamError, Granular
  <2>4. CASE SendAudio \/ ForceCommit \/ NextChunk
    BY <2>4 DEF SendAudio, ForceCommit, NextChunk, Granular
  <2> QED  BY <1>9, <2>1, <2>2, <2>3, <2>4
<1> HIDE DEF Keeps
<1> QED  BY <1>2, <1>3, <1>4, <1>5, <1>6, <1>7, <1>8, <1>9
-----------------------------------------------------------------------------
(* The theorems. *)

LEMMA StepIInv == IInv /\ [Next]_vars => IInv' /\ Reports /\ (~Repeats /\ Turn => Turn')
<1> SUFFICES ASSUME IInv, [Next]_vars PROVE IInv' /\ Reports /\ (~Repeats /\ Turn => Turn')
  OBVIOUS
<1> DEFINE Goal == IInv' /\ Reports /\ (~Repeats /\ Turn => Turn')
<1>1. ASSUME \/ Open \/ SocketError \/ SocketCloses \/ Release
             \/ \E kind \in {"recoverable", "error"} : ProviderError(kind)
             \/ \E m \in {"setupComplete", "serverContent", "error"} : Arrives(m) \/ HandleMessage(m)
             \/ Transcript \/ RequestAnswered \/ RequestFails \/ ResultStreamError
             \/ SendAudio \/ ForceCommit \/ NextChunk
      PROVE  Goal
  <2>1. IInv' /\ Reports
    BY <1>1, OpenStep, SocketErrorStep, SocketClosesStep, ReleaseStep, ProviderErrorStep,
       ArrivesStep, HandleMessageStep, TranscriptStep, RequestAnsweredStep, RequestFailsStep,
       ResultStreamErrorStep, SourceStep
  <2>2. Turn => Turn'  BY <1>1, <2>1, OthersKeepTurn
  <2> QED  BY <2>1, <2>2
<1>2. ASSUME NEW isFinalSeg \in BOOLEAN, Partial(isFinalSeg) PROVE Goal  BY <1>2, PartialStep
<1>3. ASSUME SpeechFinal \/ Done \/ LatePartial \/ FlushTimer PROVE Goal
  BY <1>3, SpeechFinalStep, DoneStep, LatePartialStep, FlushTimerStep
<1>4. ASSUME UNCHANGED vars PROVE Goal
  <2>1. /\ UNCHANGED <<provider, backend, cause, inbox, utterance, spoken, finals, revised>>
        /\ Types /\ Wired /\ Timed
    BY <1>4 DEF vars, speech, IInv
  <2>2. Types'  BY <2>1 DEF Types
  <2>3. Wired'  BY <2>1 DEF Wired, Serving, Over, OverWebSocket
  <2>4. Timed'  BY <2>1 DEF Timed, FlushArmed, Granular
  <2>5. Reports  BY <2>1 DEF Reports, Stream
  <2>6. ASSUME Turn PROVE Turn'
    <3>1. UNCHANGED speech  BY <2>1 DEF speech
    <3> QED  BY <2>1, <2>6, <3>1, TurnStays
  <2> QED  BY <2>2, <2>3, <2>4, <2>5, <2>6 DEF IInv
<1> HIDE DEF Goal
<1>5. Next => Goal  BY <1>1, <1>2, <1>3 DEF Next
<1> QED  BY <1>4, <1>5 DEF Goal

LEMMA InitTurn == Init => Turn
<1> SUFFICES ASSUME Init PROVE Turn  OBVIOUS
<1>1. backend.segmenter = Fresh  BY InitIInv
<1>2. utterance.base = <<>> /\ utterance.interim = <<>> /\ finals = <<>> /\ spoken = <<>>
  BY DEF Init
<1>3. Whole = <<>>
  <2>1. <<>> \o <<>> = <<>>  BY EmptySeq, ConcatEmptySeq
  <2> QED  BY <1>2, <2>1 DEF Whole
<1>4. Fresh.emitted = 0 /\ Fresh.hyp = <<>> /\ Fresh.pending = <<>> /\ Fresh.baseText = <<>>
  BY DEF Fresh
<1>5. Echoed  BY <1>1, <1>2, <1>3, <1>4 DEF Echoed
<1>6. Held(Fresh)  BY <1>4, EmptySeq DEF Held, FrozenCount
<1>7. Kept  BY <1>1, <1>2, <1>4, <1>6, EmptySeq DEF Kept
<1> QED  BY <1>5, <1>7 DEF Turn

\* Every provider's backend keeps the contract that OutgoingConnection relies on: each
\* step is a step of the interface's life or none of its business.
THEOREM ContractImplemented == Spec => ContractHolds
<1>1. Init => IInv /\ Contract!Init  BY InitIInv
<1>2. IInv /\ [Next]_vars => IInv' /\ Reports  BY StepIInv
<1>3. Reports => [Contract!Next]_(Contract!vars)  BY DEF Reports, Contract!vars
<1> QED  BY <1>1, <1>2, <1>3, PTL DEF Spec, ContractHolds, Contract!Spec

\* A backend whose owner is gone has no socket open or opening, no keepalive and no
\* request body that waits for audio, whichever handler ended it.
THEOREM NothingLeftHolds == Spec => []NothingLeft
<1>1. Init => IInv  BY InitIInv
<1>2. IInv /\ [Next]_vars => IInv'  BY StepIInv
<1>3. IInv => NothingLeft  BY DEF IInv, Wired, Over, NothingLeft
<1> QED  BY <1>1, <1>2, <1>3, PTL DEF Spec

\* For any guard, batch and vocabulary: the granular finals are the turns as they were
\* said, unless xAI takes back what was frozen, and a word that is due has a timer.
THEOREM GranularSoundHolds ==
    ASSUME ~Repeats PROVE Spec => []GranularSound
<1>1. Init => IInv /\ Turn  BY InitIInv, InitTurn
<1>2. IInv /\ Turn /\ [Next]_vars => (IInv /\ Turn)'  BY StepIInv
<1>3. IInv /\ Turn => GranularSound
  <2> SUFFICES ASSUME IInv, Turn PROVE GranularSound  OBVIOUS
  <2>1. Types /\ Timed /\ Echoed /\ Kept  BY DEF IInv, Turn
  <2>2. FlushArmed  BY <2>1 DEF Timed, FlushArmed
  <2>3. ASSUME Granular, backend.attached, ~revised
        PROVE  IsPrefix(spoken, finals) /\ (Whole = <<>> => finals = spoken)
    <3> DEFINE g == backend.segmenter
               m == Len(spoken)
    <3>1. /\ spoken \in Seq(Words) /\ finals \in Seq(Words) /\ g \in Segmenters
          /\ m \in Nat /\ g.emitted \in Nat /\ Len(g.pending) \in Nat
      BY <2>1, LenProperties DEF Types, Backends, Segmenters
    <3>2. /\ Held(g) /\ g.hyp = Whole /\ Len(finals) = m + g.emitted
          /\ \A i \in 1..m : finals[i] = spoken[i]
      BY <2>1, <2>3 DEF Kept, Echoed
    <3>3. m <= Len(finals)  BY <3>1, <3>2
    <3>4. SubSeq(spoken, 1, m) = SubSeq(finals, 1, m)  BY <3>1, <3>2, <3>3
    <3>5. IsPrefix(spoken, finals)  BY <3>3, <3>4 DEF IsPrefix
    <3>6. ASSUME Whole = <<>> PROVE finals = spoken
      <4>1. g.emitted + Len(g.pending) <= 0  BY <3>2, <3>6, EmptySeq DEF Held, FrozenCount
      <4>2. Len(finals) = Len(spoken)  BY <3>1, <3>2, <4>1
      <4> QED  BY <3>1, <3>2, <4>2, SeqEqual
    <3> QED  BY <3>5, <3>6
  <2> QED  BY <2>2, <2>3 DEF GranularSound, TurnsKept
<1> QED  BY <1>1, <1>2, <1>3, PTL DEF Spec
=============================================================================
