------------------------ MODULE TranslatedTalk_proofs ------------------------
(***************************************************************************)
(* Proofs about TranslatedTalk, for any frame duration, clock rate, jitter   *)
(* threshold and silence timeout, and bursts and pauses of any length.      *)
(***************************************************************************)
EXTENDS TranslatedTalk, TLAPS, FiniteSetTheorems, WellFoundedInduction, SequenceTheorems

USE RtpAssumption, TalkAssumption

\* The wall clock side of the state, which is all that the timing depends on.
TimingOK ==
    /\ now \in Nat
    /\ playoutEndWall \in Nat \cup {Undefined}
    /\ nextTimestamp \in Nat
    /\ timer \in Nat \cup {NoTimer}
    /\ config \in Configs

\* What one frame does to the media clock, whether or not it ends a pause: its end
\* is no earlier than what was emitted before, and the timestamps advance by what
\* the playout does.
LEMMA FramePlacement ==
    ASSUME TimingOK
    PROVE  /\ PlayoutEnd \in Nat /\ EndAfter \in Nat /\ BufferAhead \in Nat
           /\ BufferAhead >= EndAfter - now
           /\ EndAfter >= PlayoutEnd + FrameDuration
           /\ EndAfter >= now + FrameDuration - GapThreshold
           /\ GapTicks \in Nat
           /\ GapTicks + SamplesPerFrame = TicksPerMs * (EndAfter - PlayoutEnd)
<1>1. PlayoutEnd \in Nat /\ Idle = now - PlayoutEnd  BY DEF TimingOK, PlayoutEnd, Idle, Undefined
<1>2. CASE Idle > GapThreshold
  <2>1. EndAfter = now + FrameDuration  BY <1>2 DEF EndAfter, Anchor
  <2>2. GapTicks = TicksPerMs * (now - PlayoutEnd)  BY <1>1, <1>2 DEF GapTicks
  <2>3. now \in Nat /\ now - PlayoutEnd \in Nat  BY <1>1, <1>2 DEF TimingOK
  <2>4. GapTicks \in Nat  BY <2>2, <2>3
  <2>5. TicksPerMs * (now - PlayoutEnd) + TicksPerMs * FrameDuration
            = TicksPerMs * (now + FrameDuration - PlayoutEnd)
        BY <1>1, <2>3
  <2> QED  BY <1>1, <1>2, <2>1, <2>2, <2>3, <2>4, <2>5 DEF BufferAhead, SamplesPerFrame
<1>3. CASE ~(Idle > GapThreshold)
  <2>1. EndAfter = PlayoutEnd + FrameDuration /\ GapTicks = 0  BY <1>3 DEF EndAfter, Anchor, GapTicks
  <2>2. now \in Nat  BY DEF TimingOK
  <2>3. EndAfter - PlayoutEnd = FrameDuration  BY <1>1, <2>1
  <2>4. SamplesPerFrame = TicksPerMs * (EndAfter - PlayoutEnd) /\ SamplesPerFrame \in Nat
        BY <2>3 DEF SamplesPerFrame
  <2> QED  BY <1>1, <1>3, <2>1, <2>2, <2>4 DEF BufferAhead
<1> QED  BY <1>2, <1>3

\* The timer after ArmTalkSilenceTimer: it covers the deadline asked for, and what
\* was pending before.
LEMMA Armed ==
    ASSUME TimingOK, NEW ahead \in Nat, ArmTalkSilenceTimer(ahead)
    PROVE  /\ timer' \in Nat \cup {NoTimer}
           /\ config.silence > 0 => timer' \in Nat /\ timer' >= now + ahead + config.silence
           /\ timer # NoTimer => timer' # NoTimer /\ timer' >= timer
<1>1. config.silence \in Int /\ now \in Nat /\ timer \in Nat \cup {NoTimer}  BY DEF TimingOK
<1>2. CASE config.silence > 0 /\ Extends(ahead)
      BY <1>1, <1>2 DEF ArmTalkSilenceTimer, Extends, Deadline, NoTimer
<1>3. CASE ~(config.silence > 0 /\ Extends(ahead))
      BY <1>1, <1>3 DEF ArmTalkSilenceTimer, Extends, Deadline, NoTimer
<1> QED  BY <1>2, <1>3
-----------------------------------------------------------------------------
IInv == TimingOK /\ TimerCoversPlayout

LEMMA InitIInv == Init => IInv
BY DEF Init, RtpInit, IInv, TimingOK, TimerCoversPlayout, Undefined, NoTimer

\* A frame's playout, and the silence after it, are covered by the timer it arms.
LEMMA AudioFrameStep ==
    ASSUME IInv, NEW size \in FrameSizes, AudioFrame(size)
    PROVE  IInv'
<1>1. TimingOK  BY DEF IInv
<1>2. now' = now /\ config' = config  BY DEF AudioFrame
<1>3. playoutEndWall' = EndAfter /\ nextTimestamp' = nextTimestamp + GapTicks + SamplesPerFrame
      BY DEF AudioFrame, NextFrameTimestamp, Timestamp
<1>4. playoutEndWall' \in Nat /\ nextTimestamp' \in Nat
      BY <1>1, <1>3, FramePlacement DEF TimingOK, SamplesPerFrame
<1>5. BufferAhead \in Nat /\ ArmTalkSilenceTimer(BufferAhead)  BY <1>1, FramePlacement DEF AudioFrame
<1>6. TimingOK'  BY <1>1, <1>2, <1>4, <1>5, Armed DEF TimingOK
<1>7. ASSUME config.silence > 0
      PROVE  timer' # NoTimer /\ timer' >= playoutEndWall' + config.silence
  <2>1. timer' \in Nat /\ timer' >= now + BufferAhead + config.silence  BY <1>1, <1>5, <1>7, Armed
  <2>2. now + BufferAhead >= EndAfter /\ EndAfter \in Nat /\ now \in Nat
        BY <1>1, FramePlacement DEF TimingOK
  <2>3. config.silence \in Int  BY <1>1 DEF TimingOK
  <2> QED  BY <1>3, <1>5, <2>1, <2>2, <2>3 DEF NoTimer
<1> QED  BY <1>2, <1>6, <1>7 DEF IInv, TimerCoversPlayout

\* A fragment has no playout, and shortens no timer.
LEMMA TranscriptDeltaStep ==
    ASSUME IInv, TranscriptDelta
    PROVE  IInv'
<1>1. TimingOK /\ TimerCoversPlayout  BY DEF IInv
<1>2. UNCHANGED <<now, clock, config, talkActive>> /\ ArmTalkSilenceTimer(0)
      BY DEF TranscriptDelta, talk
<1>3. /\ timer' \in Nat \cup {NoTimer}
      /\ timer # NoTimer => timer' # NoTimer /\ timer' >= timer
      BY <1>1, <1>2, Armed
<1>4. TimingOK'  BY <1>1, <1>2, <1>3 DEF TimingOK, clock
<1>5. config.silence \in Int /\ timer \in Nat \cup {NoTimer} /\ playoutEndWall \in Nat \cup {Undefined}
      BY <1>1 DEF TimingOK
<1>6. TimerCoversPlayout'
      BY <1>1, <1>2, <1>3, <1>5 DEF TimerCoversPlayout, clock, NoTimer, Undefined
<1> QED  BY <1>4, <1>6 DEF IInv

\* Ending a talk leaves no talk to cover.
LEMMA EndTalkStep ==
    ASSUME IInv, EndTalk, UNCHANGED <<now, clock, config>>
    PROVE  IInv'
<1>1. timer' = NoTimer /\ talkActive' = FALSE  BY DEF EndTalk
<1> QED  BY <1>1 DEF IInv, TimingOK, TimerCoversPlayout, clock

LEMMA IInvStep == IInv /\ [Next]_vars => IInv'
<1> SUFFICES ASSUME IInv, [Next]_vars PROVE IInv'  OBVIOUS
<1>1. CASE Tick
  <2>1. now' = now + 1 /\ UNCHANGED <<clock, config, talk, timer>>  BY <1>1 DEF Tick
  <2> QED  BY <2>1 DEF IInv, TimingOK, TimerCoversPlayout, clock, talk
<1>2. CASE TalkTimeout  BY <1>2, EndTalkStep DEF TalkTimeout
<1>3. CASE UNCHANGED <<now, clock, config, talk, timer>>
      BY <1>3 DEF IInv, TimingOK, TimerCoversPlayout, clock, talk
<1>4. CASE EncoderReady  BY <1>3, <1>4 DEF EncoderReady
<1>5. CASE EncoderFails  BY <1>3, <1>5, EndTalkStep DEF EncoderFails, DoClose
<1>6. CASE \E size \in FrameSizes : AudioFrame(size)  BY <1>6, AudioFrameStep
<1>7. CASE TranscriptDelta  BY <1>7, TranscriptDeltaStep
<1>8. CASE Close  BY <1>8, EndTalkStep DEF Close, DoClose
<1>9. CASE UNCHANGED vars  BY <1>3, <1>9 DEF vars
<1> QED  BY <1>1, <1>2, <1>4, <1>5, <1>6, <1>7, <1>8, <1>9 DEF Next

LEMMA Invariance == Spec => []IInv
<1> QED  BY InitIInv, IInvStep, PTL DEF Spec
-----------------------------------------------------------------------------
\* No talk is ended before its buffered media has played out and the configured
\* silence has passed (armTalkSilenceTimer), whatever bursts and fragments came.
THEOREM TimerCoversPlayoutHolds == Spec => []TimerCoversPlayout
<1>1. IInv => TimerCoversPlayout  BY DEF IInv
<1> QED  BY <1>1, Invariance, PTL

\* Media time keeps up with the wall clock to within the jitter threshold, and each
\* timestamp step is exactly the playout step (nextFrameTimestamp).
THEOREM NotBehindHolds == Spec => NotBehind
<1> DEFINE Step ==
        playoutEndWall' # playoutEndWall =>
            /\ playoutEndWall' >= now + FrameDuration - GapThreshold
            /\ playoutEndWall # Undefined =>
                 nextTimestamp' - nextTimestamp = TicksPerMs * (playoutEndWall' - playoutEndWall)
<1>1. TimingOK /\ [Next]_vars => [Step]_vars
  <2> SUFFICES ASSUME TimingOK, Next, playoutEndWall' # playoutEndWall
               PROVE  /\ playoutEndWall' >= now + FrameDuration - GapThreshold
                      /\ playoutEndWall # Undefined =>
                           nextTimestamp' - nextTimestamp
                               = TicksPerMs * (playoutEndWall' - playoutEndWall)
      OBVIOUS
  <2>1. PICK size \in FrameSizes : AudioFrame(size)
        BY DEF Next, Tick, TalkTimeout, EncoderReady, EncoderFails, DoClose, TranscriptDelta, Close, clock
  <2>2. playoutEndWall' = EndAfter /\ nextTimestamp' = nextTimestamp + GapTicks + SamplesPerFrame
        BY <2>1 DEF AudioFrame, NextFrameTimestamp, Timestamp
  <2>3. playoutEndWall # Undefined => PlayoutEnd = playoutEndWall  BY DEF PlayoutEnd
  <2>4. nextTimestamp \in Nat /\ SamplesPerFrame \in Nat  BY DEF TimingOK, SamplesPerFrame
  <2>5. nextTimestamp' - nextTimestamp = GapTicks + SamplesPerFrame  BY <2>2, <2>4, FramePlacement
  <2> QED  BY <2>2, <2>3, <2>5, FramePlacement
<1>2. IInv => TimingOK  BY DEF IInv
<1> QED  BY <1>1, <1>2, Invariance, PTL DEF Spec, NotBehind
-----------------------------------------------------------------------------
(* The transcript.  Said is defined by recursion on the finals; what is       *)
(* carried along the steps is a function that satisfies its equation.         *)

\* A set of naturals has a least element.
LEMMA LeastOf ==
    ASSUME NEW S, S \subseteq Nat, S # {}
    PROVE  \E x \in S : \A y \in S : x <= y
<1>1. IsWellFoundedOn(OpToRel(<, Nat), Nat)  BY NatLessThanWellFounded
<1>2. PICK x \in S : \A y \in S : ~(<<y, x>> \in OpToRel(<, Nat))  BY <1>1, WFMin
<1>3. \A y \in S : ~(y < x)  BY <1>2 DEF OpToRel
<1> QED  BY <1>3

\* f[k] is what the first k of ss say.
SaidBy(f, ss, n) == f = [k \in 0..n |-> IF k = 0 THEN <<>> ELSE f[k - 1] \o ss[k]]

LEMMA SaidOnce ==
    ASSUME NEW ss, NEW n \in Nat, NEW f, NEW g, SaidBy(f, ss, n), SaidBy(g, ss, n)
    PROVE  f[n] = g[n]
<1> DEFINE Differ == {k \in 0..n : f[k] # g[k]}
<1> SUFFICES ASSUME Differ # {} PROVE FALSE  OBVIOUS
<1>1. PICK k \in Differ : \A y \in Differ : k <= y
  <2>1. Differ \subseteq Nat  OBVIOUS
  <2> HIDE DEF Differ
  <2> QED  BY <2>1, LeastOf
<1>2. /\ k \in 0..n /\ f[k] = IF k = 0 THEN <<>> ELSE f[k - 1] \o ss[k]
      /\ g[k] = IF k = 0 THEN <<>> ELSE g[k - 1] \o ss[k]
  BY DEF SaidBy
<1>3. CASE k = 0  BY <1>2, <1>3
<1>4. CASE k # 0
  <2>1. k - 1 \in 0..n /\ ~(k <= k - 1)  BY <1>2, <1>4
  <2>2. f[k - 1] = g[k - 1]  BY <1>1, <2>1
  <2> QED  BY <1>2, <1>4, <2>2
<1> QED  BY <1>3, <1>4

LEMMA SaidIs ==
    ASSUME NEW ss, Len(ss) \in Nat, NEW f, SaidBy(f, ss, Len(ss))
    PROVE  Said(ss) = f[Len(ss)]
<1> DEFINE g == CHOOSE h : h = [k \in 0..Len(ss) |-> IF k = 0 THEN <<>> ELSE h[k - 1] \o ss[k]]
<1>1. g = [k \in 0..Len(ss) |-> IF k = 0 THEN <<>> ELSE g[k - 1] \o ss[k]]  BY DEF SaidBy
<1>2. Said(ss) = g[Len(ss)]  BY DEF Said
<1> HIDE DEF g
<1> QED  BY <1>1, <1>2, SaidOnce DEF SaidBy

LEMMA SaidNext ==
    ASSUME NEW ss \in Seq(Seq(Nat)), NEW e \in Seq(Nat), NEW f, SaidBy(f, ss, Len(ss))
    PROVE  \E g : /\ SaidBy(g, Append(ss, e), Len(Append(ss, e)))
                  /\ g[Len(Append(ss, e))] = f[Len(ss)] \o e
<1> DEFINE n == Len(ss)
           more == Append(ss, e)
           g == [k \in 0..(n + 1) |-> IF k <= n THEN f[k] ELSE f[n] \o e]
<1>1. /\ n \in Nat /\ Len(more) = n + 1 /\ more[n + 1] = e
      /\ \A k \in 1..n : more[k] = ss[k]
  OBVIOUS
<1> HIDE DEF more
<1>2. \A k \in 0..n : f[k] = IF k = 0 THEN <<>> ELSE f[k - 1] \o ss[k]  BY DEF SaidBy
<1>3. ASSUME NEW k \in 0..(n + 1)
      PROVE  g[k] = IF k = 0 THEN <<>> ELSE g[k - 1] \o more[k]
  <2>1. CASE k = 0  BY <1>1, <1>2, <2>1
  <2>2. CASE k \in 1..n
    <3>1. k - 1 \in 0..n /\ k - 1 \in 0..(n + 1) /\ k - 1 <= n  BY <1>1, <2>2
    <3>2. k \in 0..n /\ k <= n /\ k # 0  BY <1>1, <2>2
    <3>3. g[k] = f[k] /\ g[k - 1] = f[k - 1]  BY <3>1, <3>2
    <3>4. f[k] = f[k - 1] \o ss[k]  BY <1>2, <3>2
    <3> HIDE DEF g
    <3> QED  BY <1>1, <2>2, <3>2, <3>3, <3>4
  <2>3. CASE k = n + 1
    <3>1. k - 1 = n /\ n \in 0..(n + 1) /\ ~(k <= n) /\ k # 0 /\ n <= n  BY <1>1, <2>3
    <3>2. g[k] = f[n] \o e /\ g[n] = f[n]  BY <3>1
    <3> HIDE DEF g
    <3> QED  BY <1>1, <2>3, <3>1, <3>2
  <2> QED  BY <1>1, <2>1, <2>2, <2>3
<1>4. g = [k \in 0..(n + 1) |-> IF k = 0 THEN <<>> ELSE g[k - 1] \o more[k]]
  <2>1. DOMAIN g = 0..(n + 1) /\ g = [k \in 0..(n + 1) |-> g[k]]  OBVIOUS
  <2> HIDE DEF g
  <2> QED  BY <1>3, <2>1
<1>5. g[n + 1] = f[n] \o e  BY <1>1
<1> HIDE DEF g
<1> QED  BY <1>1, <1>4, <1>5 DEF SaidBy, more

Pending == IF isClosed THEN <<>> ELSE transcriptBuffer

Kept ==
    /\ transcriptBuffer \in Seq(Nat) /\ interims \in Seq(Nat) /\ finals \in Seq(Seq(Nat))
    /\ isClosed \in BOOLEAN
    /\ \E f : /\ SaidBy(f, finals, Len(finals)) /\ f[Len(finals)] \in Seq(Nat)
              /\ interims = f[Len(finals)] \o Pending

LEMMA InitKept == Init => Kept
<1> SUFFICES ASSUME Init PROVE Kept  OBVIOUS
<1>1. finals = <<>> /\ interims = <<>> /\ transcriptBuffer = <<>> /\ isClosed = FALSE  BY DEF Init
<1> DEFINE f == [k \in 0..0 |-> <<>>]
<1>2. \A k \in 0..0 : k = 0  OBVIOUS
<1>3. SaidBy(f, <<>>, 0)  BY <1>2 DEF SaidBy
<1>4. f[0] = <<>>  OBVIOUS
<1> HIDE DEF f
<1>5. Len(<<>>) = 0 /\ <<>> \in Seq(Nat) /\ <<>> \o <<>> = <<>> /\ <<>> \in Seq(Seq(Nat))  OBVIOUS
<1>6. Pending = <<>>  BY <1>1 DEF Pending
<1> QED  BY <1>1, <1>3, <1>4, <1>5, <1>6 DEF Kept

\* A talk's end makes a final of the fragments buffered, or drops what came after a close.
LEMMA FinalizeKept ==
    ASSUME Kept, FinalizePendingTranscript, isClosed' \in BOOLEAN, isClosed => isClosed'
    PROVE  Kept'
<1>1. /\ transcriptBuffer' = <<>> /\ interims' = interims
      /\ finals' = IF transcriptBuffer = <<>> \/ isClosed THEN finals ELSE Append(finals, transcriptBuffer)
  BY DEF FinalizePendingTranscript
<1>2. PICK f : /\ SaidBy(f, finals, Len(finals)) /\ f[Len(finals)] \in Seq(Nat)
               /\ interims = f[Len(finals)] \o Pending
  BY DEF Kept
<1>3. Pending' = <<>>  BY <1>1 DEF Pending
<1>4. <<>> \in Seq(Nat) /\ \A s \in Seq(Nat) : s \o <<>> = s  OBVIOUS
<1>5. CASE transcriptBuffer = <<>> \/ isClosed
  <2>1. Pending = <<>> /\ finals' = finals  BY <1>1, <1>5 DEF Pending
  <2>2. interims' = f[Len(finals')] \o Pending'  BY <1>1, <1>2, <1>3, <2>1
  <2> QED  BY <1>1, <1>2, <1>4, <2>1, <2>2 DEF Kept
<1>6. CASE ~(transcriptBuffer = <<>> \/ isClosed)
  <2>1. finals' = Append(finals, transcriptBuffer) /\ Pending = transcriptBuffer
    BY <1>1, <1>6 DEF Pending
  <2>2. PICK g : /\ SaidBy(g, finals', Len(finals'))
                 /\ g[Len(finals')] = f[Len(finals)] \o transcriptBuffer
    BY <1>2, <2>1, SaidNext DEF Kept
  <2>3. finals' \in Seq(Seq(Nat))  BY <2>1 DEF Kept
  <2>4. interims \in Seq(Nat)  BY DEF Kept
  <2>5. g[Len(finals')] = interims  BY <1>2, <2>1, <2>2
  <2>6. interims' = g[Len(finals')] \o Pending'  BY <1>1, <1>3, <1>4, <2>4, <2>5
  <2>7. g[Len(finals')] \in Seq(Nat)  BY <2>4, <2>5
  <2> QED  BY <1>1, <1>4, <2>2, <2>3, <2>4, <2>6, <2>7 DEF Kept
<1> QED  BY <1>5, <1>6

LEMMA AppendedKept ==
    ASSUME NEW s \in Seq(Nat), NEW t \in Seq(Nat), NEW e \in Nat
    PROVE  s \o Append(t, e) = Append(s \o t, e)
<1> DEFINE l == s \o Append(t, e)
           r == Append(s \o t, e)
<1>1. Append(t, e) \in Seq(Nat) /\ s \o t \in Seq(Nat)  OBVIOUS
<1>2. l \in Seq(Nat) /\ Len(l) = Len(s) + Len(t) + 1  BY <1>1
<1>3. r \in Seq(Nat) /\ Len(r) = Len(s) + Len(t) + 1  BY <1>1
<1>4. ASSUME NEW i \in 1..Len(l)  PROVE l[i] = r[i]
  <2>1. CASE i <= Len(s)  BY <1>1, <1>2, <2>1
  <2>2. CASE i > Len(s) /\ i < Len(l)  BY <1>1, <1>2, <2>2
  <2>3. CASE i = Len(l)  BY <1>1, <1>2, <2>3
  <2> QED  BY <1>2, <2>1, <2>2, <2>3
<1> QED  BY <1>2, <1>3, <1>4, SeqEqual

LEMMA DeltaKept ==
    ASSUME Kept, TranscriptDelta
    PROVE  Kept'
<1> DEFINE e == Len(interims) + 1
<1>1. /\ transcriptBuffer' = Append(transcriptBuffer, e)
      /\ interims' = IF isClosed THEN interims ELSE Append(interims, e)
      /\ UNCHANGED <<isClosed, finals>>
  BY DEF TranscriptDelta
<1>2. transcriptBuffer \in Seq(Nat) /\ interims \in Seq(Nat) /\ finals \in Seq(Seq(Nat)) /\ e \in Nat
  BY DEF Kept
<1> HIDE DEF e
<1>3. transcriptBuffer' \in Seq(Nat) /\ interims' \in Seq(Nat)  BY <1>1, <1>2
<1>4. PICK f : /\ SaidBy(f, finals, Len(finals)) /\ f[Len(finals)] \in Seq(Nat)
               /\ interims = f[Len(finals)] \o Pending
  BY DEF Kept
<1>5. CASE isClosed
  <2>1. interims' = interims /\ Pending' = Pending  BY <1>1, <1>5 DEF Pending
  <2> QED  BY <1>1, <1>2, <1>3, <1>4, <1>5, <2>1 DEF Kept
<1>6. CASE ~isClosed
  <2>1. Pending = transcriptBuffer /\ Pending' = Append(transcriptBuffer, e)
    BY <1>1, <1>6 DEF Pending
  <2>2. f[Len(finals)] \o Append(transcriptBuffer, e) = Append(f[Len(finals)] \o transcriptBuffer, e)
    BY <1>2, <1>4, AppendedKept
  <2>3. interims' = f[Len(finals)] \o Pending'  BY <1>1, <1>4, <1>6, <2>1, <2>2
  <2> QED  BY <1>1, <1>2, <1>3, <1>4, <1>6, <2>3 DEF Kept
<1> QED  BY <1>2, <1>5, <1>6

LEMMA KeptStep == Kept /\ [Next]_vars => Kept'
<1> SUFFICES ASSUME Kept, [Next]_vars PROVE Kept'  OBVIOUS
<1>1. CASE UNCHANGED <<isClosed, text>>
  <2>1. UNCHANGED <<isClosed, transcriptBuffer, interims, finals>>  BY <1>1 DEF text
  <2> QED  BY <2>1 DEF Kept, Pending
<1>2. CASE FinalizePendingTranscript /\ (UNCHANGED isClosed \/ isClosed' = TRUE)
  <2>1. isClosed \in BOOLEAN  BY DEF Kept
  <2>2. CASE isClosed' = isClosed  BY <1>2, <2>1, <2>2, FinalizeKept
  <2>3. CASE isClosed' = TRUE  BY <1>2, <2>3, FinalizeKept
  <2> QED  BY <1>2, <2>2, <2>3
<1>3. CASE Tick \/ EncoderReady  BY <1>1, <1>3 DEF Tick, EncoderReady
<1>4. CASE TalkTimeout  BY <1>2, <1>4 DEF TalkTimeout, EndTalk
<1>5. CASE EncoderFails \/ Close  BY <1>1, <1>2, <1>5 DEF EncoderFails, Close, DoClose, EndTalk
<1>6. ASSUME NEW size \in FrameSizes, AudioFrame(size) PROVE Kept'  BY <1>1, <1>6 DEF AudioFrame
<1>7. CASE TranscriptDelta  BY <1>7, DeltaKept
<1>8. CASE UNCHANGED vars  BY <1>1, <1>8 DEF vars
<1> QED  BY <1>3, <1>4, <1>5, <1>6, <1>7, <1>8 DEF Next

\* Whatever ends a talk (its timer, close(), an error), and whatever fragments
\* come without audio, after a talk or after a close: the finals say what the
\* interims said, once and in order.
THEOREM TranscriptKeptHolds == Spec => []TranscriptKept
<1>1. Kept => TranscriptKept
  <2> SUFFICES ASSUME Kept PROVE TranscriptKept  OBVIOUS
  <2>1. PICK f : SaidBy(f, finals, Len(finals)) /\ interims = f[Len(finals)] \o Pending
    BY DEF Kept
  <2>2. Len(finals) \in Nat  BY DEF Kept
  <2>3. Said(finals) = f[Len(finals)]  BY <2>1, <2>2, SaidIs
  <2> QED  BY <2>1, <2>3 DEF TranscriptKept, Pending
<1> QED  BY <1>1, InitKept, KeptStep, PTL DEF Spec
-----------------------------------------------------------------------------
(* The stream.  StreamSound speaks of all of out; what is carried along the   *)
(* steps is that the frames are numbered up to the clock, that every talk up  *)
(* to now is well formed, and how out ends while a talk is open and after it. *)

\* Counting on modulo M.
LEMMA Wrapped ==
    ASSUME NEW x \in Int, NEW M \in Nat \ {0}
    PROVE  /\ ((x % M) + 1) % M = (x + 1) % M
           /\ x % M \in 0..(M - 1)
<1>1. PICK r : r = x % M  OBVIOUS
<1>2. PICK q : q = x \div M  OBVIOUS
<1>3. q \in Int /\ r \in Int /\ x = M * q + r /\ 0 <= r /\ r <= M - 1  BY <1>1, <1>2
<1>4. CASE r + 1 < M
  <2>1. x + 1 = M * q + (r + 1)  BY <1>3
  <2>2. (x + 1) % M = r + 1  BY <1>3, <1>4, <2>1
  <2>3. (r + 1) % M = r + 1  BY <1>3, <1>4
  <2> QED  BY <1>1, <1>3, <2>2, <2>3
<1>5. CASE r + 1 = M
  <2>1. x + 1 = M * (q + 1)  BY <1>3, <1>5
  <2>2. (x + 1) % M = 0  BY <1>3, <2>1
  <2>3. (r + 1) % M = 0  BY <1>3, <1>5
  <2> QED  BY <1>1, <1>3, <2>2, <2>3
<1> QED  BY <1>3, <1>4, <1>5

LEMMA InRange == ASSUME NEW x \in Nat, NEW M \in Nat \ {0}, x < M PROVE x % M = x
OBVIOUS

\* A span of whole milliseconds.
Whole(x) == \E a \in Nat : x = TicksPerMs * a

LEMMA Spans ==
    ASSUME NEW x \in Nat, NEW y \in Nat, Whole(x), Whole(y), x <= y
    PROVE  (y - x) \div TicksPerMs \in Nat /\ ((y - x) \div TicksPerMs) * TicksPerMs = y - x
<1>1. PICK a \in Nat : x = TicksPerMs * a  BY DEF Whole
<1>2. PICK b \in Nat : y = TicksPerMs * b  BY DEF Whole
<1>3. y - x = TicksPerMs * (b - a)  BY <1>1, <1>2
<1>4. b - a \in Nat
  <2> SUFFICES ASSUME b < a PROVE FALSE  OBVIOUS
  <2>1. TicksPerMs * (a - b) > 0  OBVIOUS
  <2> QED  BY <1>3, <2>1, <1>1, <1>2
<1>5. PICK c : c = (y - x) \div TicksPerMs  OBVIOUS
<1>6. PICK r : r = (y - x) % TicksPerMs  OBVIOUS
<1>7. /\ c \in Int /\ r \in Int /\ 0 <= r /\ r < TicksPerMs
      /\ y - x = TicksPerMs * c + r
  BY <1>5, <1>6
<1>8. r = TicksPerMs * (b - a - c)  BY <1>3, <1>7
<1>9. b - a = c
  <2>1. CASE b - a - c >= 1
    <3>1. TicksPerMs * (b - a - c) >= TicksPerMs  BY <1>7, <2>1
    <3> QED  BY <3>1, <1>7, <1>8
  <2>2. CASE b - a - c <= -1
    <3>1. TicksPerMs * (b - a - c) <= -TicksPerMs  BY <1>7, <2>2
    <3> QED  BY <3>1, <1>7, <1>8
  <2> QED  BY <1>7, <2>1, <2>2
<1> QED  BY <1>3, <1>4, <1>5, <1>9
-----------------------------------------------------------------------------
\* f[k] is the sum of the bytes at positions s + 1 to k of o.
SumBy(f, o, s, t) == f = [k \in s..t |-> IF k = s THEN 0 ELSE f[k - 1] + o[k].bytes]

BytesOf(o, s, t, b) == \E f : SumBy(f, o, s, t) /\ f[t] = b

LEMMA SumOnce ==
    ASSUME NEW o, NEW s \in Nat, NEW t \in Nat, s <= t,
           NEW f, NEW g, SumBy(f, o, s, t), SumBy(g, o, s, t)
    PROVE  f[t] = g[t]
<1> DEFINE Differ == {k \in s..t : f[k] # g[k]}
<1> SUFFICES ASSUME Differ # {} PROVE FALSE  OBVIOUS
<1>1. PICK k \in Differ : \A y \in Differ : k <= y
  <2>1. Differ \subseteq Nat  OBVIOUS
  <2> HIDE DEF Differ
  <2> QED  BY <2>1, LeastOf
<1>2. /\ k \in s..t /\ f[k] = IF k = s THEN 0 ELSE f[k - 1] + o[k].bytes
      /\ g[k] = IF k = s THEN 0 ELSE g[k - 1] + o[k].bytes
  BY DEF SumBy
<1>3. CASE k = s  BY <1>2, <1>3
<1>4. CASE k # s
  <2>1. k - 1 \in s..t /\ ~(k <= k - 1)  BY <1>2, <1>4
  <2>2. f[k - 1] = g[k - 1]  BY <1>1, <2>1
  <2> QED  BY <1>2, <1>4, <2>2
<1> QED  BY <1>3, <1>4

LEMMA BytesAre ==
    ASSUME NEW s \in Nat, NEW t \in Nat, s <= t, NEW b, BytesOf(out, s, t, b)
    PROVE  BytesBetween(s, t) = b
<1> DEFINE g == CHOOSE h : h = [k \in s..t |-> IF k = s THEN 0 ELSE h[k - 1] + out[k].bytes]
<1>1. PICK f : SumBy(f, out, s, t) /\ f[t] = b  BY DEF BytesOf
<1>2. g = [k \in s..t |-> IF k = s THEN 0 ELSE g[k - 1] + out[k].bytes]  BY <1>1 DEF SumBy
<1>3. BytesBetween(s, t) = g[t]  BY DEF BytesBetween
<1> HIDE DEF g
<1>4. SumBy(g, out, s, t)  BY <1>2 DEF SumBy
<1> QED  BY <1>1, <1>3, <1>4, SumOnce

\* o is what o2 starts with.
Begins(o, o2) ==
    /\ o \in Seq(Events) /\ o2 \in Seq(Events)
    /\ Len(o) \in Nat /\ Len(o2) \in Nat /\ Len(o) <= Len(o2)
    /\ \A i \in 1..Len(o) : o2[i] = o[i]

LEMMA BytesKept ==
    ASSUME NEW o, NEW o2, Begins(o, o2), NEW s \in Nat \ {0}, NEW t \in Nat, t <= Len(o),
           NEW b, BytesOf(o, s, t, b)
    PROVE  BytesOf(o2, s, t, b)
<1>1. PICK f : SumBy(f, o, s, t) /\ f[t] = b  BY DEF BytesOf
<1>2. \A k \in s..t : o2[k] = o[k]  BY DEF Begins
<1>3. SumBy(f, o2, s, t)  BY <1>1, <1>2 DEF SumBy
<1> QED  BY <1>1, <1>3 DEF BytesOf

\* One more frame.
LEMMA BytesNext ==
    ASSUME NEW o, NEW s \in Nat, NEW t \in Nat, s <= t, NEW b, BytesOf(o, s, t, b)
    PROVE  BytesOf(o, s, t + 1, b + o[t + 1].bytes)
<1>1. PICK f : SumBy(f, o, s, t) /\ f[t] = b  BY DEF BytesOf
<1> DEFINE g == [k \in s..(t + 1) |-> IF k <= t THEN f[k] ELSE b + o[t + 1].bytes]
<1>2. \A k \in s..t : f[k] = IF k = s THEN 0 ELSE f[k - 1] + o[k].bytes  BY <1>1 DEF SumBy
<1>3. ASSUME NEW k \in s..(t + 1)
      PROVE  g[k] = IF k = s THEN 0 ELSE g[k - 1] + o[k].bytes
  <2>1. CASE k = s  BY <1>2, <2>1
  <2>2. CASE k # s /\ k <= t
    <3>1. k - 1 \in s..(t + 1) /\ k - 1 <= t /\ k \in s..t  BY <2>2
    <3>2. g[k] = f[k] /\ g[k - 1] = f[k - 1]  BY <2>2, <3>1
    <3>3. f[k] = f[k - 1] + o[k].bytes  BY <1>2, <2>2, <3>1
    <3> HIDE DEF g
    <3> QED  BY <2>2, <3>2, <3>3
  <2>3. CASE k = t + 1
    <3>1. k - 1 = t /\ t \in s..(t + 1) /\ ~(k <= t) /\ k # s /\ t <= t  BY <2>3
    <3>2. g[k] = b + o[k].bytes /\ g[t] = f[t]  BY <2>3, <3>1
    <3> HIDE DEF g
    <3> QED  BY <1>1, <2>3, <3>1, <3>2
  <2> QED  BY <2>1, <2>2, <2>3
<1>4. g = [k \in s..(t + 1) |-> IF k = s THEN 0 ELSE g[k - 1] + o[k].bytes]
  <2>1. g = [k \in s..(t + 1) |-> g[k]]  OBVIOUS
  <2> HIDE DEF g
  <2> QED  BY <1>3, <2>1
<1>5. g[t + 1] = b + o[t + 1].bytes  OBVIOUS
<1> HIDE DEF g
<1> QED  BY <1>4, <1>5 DEF SumBy, BytesOf

LEMMA BytesFirst ==
    ASSUME NEW o, NEW s \in Nat
    PROVE  BytesOf(o, s, s, 0)
<1> DEFINE f == [k \in s..s |-> 0]
<1>1. \A k \in s..s : k = s  OBVIOUS
<1>2. SumBy(f, o, s, s)  BY <1>1 DEF SumBy
<1>3. f[s] = 0  OBVIOUS
<1> HIDE DEF f
<1> QED  BY <1>2, <1>3 DEF BytesOf
-----------------------------------------------------------------------------
\* The talks of o.

Starts(o, i) ==
    /\ i = 1 \/ o[i - 1].kind = "stop"
    /\ i < Len(o) /\ o[i + 1].kind = "frame" /\ o[i + 1].ts = o[i].ts

\* Positions s to t hold a start and the frames that follow it, b bytes of them.
Run(o, s, t, b) ==
    /\ o[s].kind = "start"
    /\ \A k \in (s + 1)..t : o[k].kind = "frame"
    /\ BytesOf(o, s, t, b)

Stops(o, i) == \E s \in 1..(i - 2) :
    /\ Run(o, s, i - 1, o[i].bytes)
    /\ o[i].ts = o[i - 1].ts + SamplesPerFrame
    /\ o[i].duration * TicksPerMs = o[i].ts - o[s].ts

Apart(o, i, silence) ==
    (i > 1 /\ silence > GapThreshold) => o[i].ts - o[i - 1].ts >= TicksPerMs * silence

Talks(o, silence) == \A i \in 1..Len(o) :
    /\ o[i].kind = "start" => Starts(o, i) /\ Apart(o, i, silence)
    /\ o[i].kind = "stop" => Stops(o, i)

LEMMA RunKept ==
    ASSUME NEW o, NEW o2, Begins(o, o2), NEW s \in Nat \ {0}, NEW t \in Nat, s <= t, t <= Len(o),
           NEW b, Run(o, s, t, b)
    PROVE  Run(o2, s, t, b)
<1>1. BytesOf(o2, s, t, b)  BY BytesKept DEF Run
<1>2. \A k \in s..t : o2[k] = o[k]  BY DEF Begins
<1> QED  BY <1>1, <1>2 DEF Run

LEMMA StopsKept ==
    ASSUME NEW o, NEW o2, Begins(o, o2), NEW i \in 1..Len(o), Stops(o, i)
    PROVE  Stops(o2, i)
<1>1. PICK s \in 1..(i - 2) :
        /\ Run(o, s, i - 1, o[i].bytes)
        /\ o[i].ts = o[i - 1].ts + SamplesPerFrame
        /\ o[i].duration * TicksPerMs = o[i].ts - o[s].ts
  BY DEF Stops
<1>2. Len(o) \in Nat  BY DEF Begins
<1>3. s \in Nat \ {0} /\ i - 1 \in Nat /\ s <= i - 1 /\ i - 1 <= Len(o)  BY <1>2
<1>4. o2[i] = o[i] /\ o2[i - 1] = o[i - 1] /\ o2[s] = o[s]  BY <1>2 DEF Begins
<1>5. Run(o2, s, i - 1, o2[i].bytes)  BY <1>1, <1>3, <1>4, RunKept
<1> QED  BY <1>1, <1>4, <1>5 DEF Stops

LEMMA TalksKept ==
    ASSUME NEW o, NEW o2, Begins(o, o2), NEW silence, Talks(o, silence), NEW i \in 1..Len(o)
    PROVE  /\ o2[i].kind = "start" => Starts(o2, i) /\ Apart(o2, i, silence)
           /\ o2[i].kind = "stop" => Stops(o2, i)
<1>1. o2[i] = o[i] /\ Len(o) \in Nat  BY DEF Begins
<1>2. ASSUME o[i].kind = "start" PROVE Starts(o2, i) /\ Apart(o2, i, silence)
  <2>1. Starts(o, i) /\ Apart(o, i, silence)  BY <1>2 DEF Talks
  <2>2. i < Len(o)  BY <2>1 DEF Starts
  <2>3. i + 1 \in 1..Len(o) /\ (i # 1 => i - 1 \in 1..Len(o))  BY <1>1, <2>2
  <2>4. o2[i + 1] = o[i + 1] /\ (i # 1 => o2[i - 1] = o[i - 1]) /\ i < Len(o2)
    BY <1>1, <2>2, <2>3 DEF Begins
  <2>5. Starts(o2, i)  BY <1>1, <2>1, <2>4 DEF Starts
  <2>6. Apart(o2, i, silence)  BY <1>1, <2>1, <2>4 DEF Apart
  <2> QED  BY <2>5, <2>6
<1>3. o[i].kind = "stop" => Stops(o2, i)  BY StopsKept DEF Talks
<1> QED  BY <1>1, <1>2, <1>3
-----------------------------------------------------------------------------
\* The frames of o.

Frames(o) == {i \in DOMAIN o : o[i].kind = "frame"}
CountTo(S, i) == Cardinality({j \in S : j <= i})

Ordered(o) == \A i, j \in Frames(o) :
    i < j => /\ o[j].ts >= o[i].ts + SamplesPerFrame
             /\ o[j].seq = (o[i].seq + CountTo(Frames(o), j) - CountTo(Frames(o), i)) % SeqModulus

\* The next frame follows on every frame of o.
Follows(o, next, seq) == \A i \in Frames(o) :
    /\ o[i].ts + SamplesPerFrame <= next
    /\ seq = (o[i].seq + Cardinality(Frames(o)) - CountTo(Frames(o), i)) % SeqModulus

LEMMA FramesFinite ==
    ASSUME NEW o \in Seq(Events)
    PROVE  /\ IsFiniteSet(Frames(o)) /\ Cardinality(Frames(o)) \in Nat
           /\ Frames(o) \subseteq 1..Len(o) /\ Len(o) \in Nat
           /\ \A i : CountTo(Frames(o), i) \in Nat
<1>1. DOMAIN o = 1..Len(o) /\ Len(o) \in Nat  OBVIOUS
<1>2. IsFiniteSet(1..Len(o))  BY <1>1, FS_Interval
<1>3. Frames(o) \subseteq 1..Len(o)  BY <1>1 DEF Frames
<1>4. IsFiniteSet(Frames(o))  BY <1>2, <1>3, FS_Subset
<1>5. ASSUME NEW i PROVE CountTo(Frames(o), i) \in Nat
  <2>1. {j \in Frames(o) : j <= i} \subseteq Frames(o)  OBVIOUS
  <2>2. IsFiniteSet({j \in Frames(o) : j <= i})  BY <1>4, <2>1, FS_Subset
  <2> QED  BY <2>2, FS_CardinalityType DEF CountTo
<1> QED  BY <1>1, <1>3, <1>4, <1>5, FS_CardinalityType

\* A later position does not change what is counted before it.
LEMMA CountedBefore ==
    ASSUME NEW n \in Nat, NEW S, S \subseteq 1..n, NEW m \in Nat, m > n, NEW i \in S
    PROVE  CountTo(S \cup {m}, i) = CountTo(S, i)
<1>1. {j \in S \cup {m} : j <= i} = {j \in S : j <= i}  OBVIOUS
<1> QED  BY <1>1 DEF CountTo

LEMMA Counted ==
    ASSUME NEW n \in Nat, NEW S, S \subseteq 1..n, IsFiniteSet(S), NEW m \in Nat, m > n
    PROVE  /\ Cardinality(S \cup {m}) = Cardinality(S) + 1
           /\ CountTo(S \cup {m}, m) = Cardinality(S) + 1
<1>1. m \notin S  OBVIOUS
<1>2. Cardinality(S \cup {m}) = Cardinality(S) + 1  BY <1>1, FS_AddElement
<1>3. {j \in S \cup {m} : j <= m} = S \cup {m}
  <2>1. \A j \in S \cup {m} : j <= m  OBVIOUS
  <2> QED  BY <2>1
<1> QED  BY <1>2, <1>3 DEF CountTo

Successor(seq, seq2) == seq2 = (seq + 1) % SeqModulus

LEMMA Succeeds ==
    ASSUME NEW a \in Nat, NEW k \in Nat, NEW n \in Nat, NEW seq, NEW seq2,
           seq = (a + k - n) % SeqModulus, Successor(seq, seq2)
    PROVE  seq2 = (a + (k + 1) - n) % SeqModulus
<1>1. PICK x \in Int : x = a + k - n  OBVIOUS
<1>2. seq2 = (x + 1) % SeqModulus  BY <1>1, Wrapped DEF Successor
<1>3. x + 1 = a + (k + 1) - n  BY <1>1
<1> QED  BY <1>2, <1>3

\* Frame m, stamped as the clock says, follows on all the others.
LEMMA FrameFollows ==
    ASSUME NEW o, NEW o2, Begins(o, o2), NEW m \in Nat, m > Len(o), m \in 1..Len(o2),
           Frames(o2) = Frames(o) \cup {m},
           NEW next \in Nat, NEW seq \in Int, Follows(o, next, seq), Ordered(o),
           NEW ts \in Nat, ts >= next, o2[m].ts = ts,
           NEW seq2, o2[m].seq = seq2, Successor(seq, seq2)
    PROVE  Ordered(o2) /\ Follows(o2, ts + SamplesPerFrame, seq2)
<1> DEFINE S == Frames(o)
           K == Cardinality(S)
           T == Frames(o2)
<1>1. /\ o \in Seq(Events) /\ IsFiniteSet(S) /\ K \in Nat /\ S \subseteq 1..Len(o) /\ Len(o) \in Nat
      /\ \A i : CountTo(S, i) \in Nat
  BY FramesFinite DEF Begins
<1> HIDE DEF S, K, T
<1>2. /\ Cardinality(T) = K + 1 /\ CountTo(T, m) = K + 1
      /\ \A i \in S : CountTo(T, i) = CountTo(S, i)
  <2>1. PICK n \in Nat : n = Len(o)  BY <1>1
  <2>2. m > n /\ S \subseteq 1..n /\ T = S \cup {m}  BY <1>1, <2>1 DEF S, T
  <2>3. Cardinality(T) = Cardinality(S) + 1 /\ CountTo(T, m) = Cardinality(S) + 1
    BY <1>1, <2>2, Counted
  <2>4. ASSUME NEW i \in S PROVE CountTo(T, i) = CountTo(S, i)  BY <2>2, CountedBefore
  <2> QED  BY <2>3, <2>4 DEF K
<1>3. \A i \in S : o2[i] = o[i] /\ i < m  BY <1>1 DEF Begins
<1>4. \A i \in S : o[i].ts \in Nat /\ o[i].seq \in Nat
  <2>1. \A i \in S : o[i] \in Events  BY <1>1
  <2> QED  BY <2>1 DEF Events
<1>5. ASSUME NEW i \in S
      PROVE  /\ ts >= o[i].ts + SamplesPerFrame
             /\ seq2 = (o[i].seq + (K + 1) - CountTo(S, i)) % SeqModulus
  <2>1. o[i].ts + SamplesPerFrame <= next /\ seq = (o[i].seq + K - CountTo(S, i)) % SeqModulus
    BY DEF Follows, S, K
  <2>2. o[i].ts \in Nat /\ o[i].seq \in Nat /\ CountTo(S, i) \in Nat  BY <1>1, <1>4
  <2>3. seq2 = (o[i].seq + (K + 1) - CountTo(S, i)) % SeqModulus  BY <1>1, <2>1, <2>2, Succeeds
  <2>4. SamplesPerFrame \in Nat  BY DEF SamplesPerFrame
  <2>5. ts >= o[i].ts + SamplesPerFrame  BY <2>1, <2>2, <2>4
  <2> QED  BY <2>3, <2>5
<1>6. SamplesPerFrame \in Nat  BY DEF SamplesPerFrame
<1>7. seq2 \in 0..(SeqModulus - 1)
  <2>1. PICK x \in Int : x = seq + 1  OBVIOUS
  <2>2. seq2 = x % SeqModulus  BY <2>1 DEF Successor
  <2> QED  BY <2>2, Wrapped
<1>8. T = S \cup {m}  BY DEF S, T
<1>9. ASSUME NEW i \in T, NEW j \in T, i < j
      PROVE  /\ o2[j].ts >= o2[i].ts + SamplesPerFrame
             /\ o2[j].seq = (o2[i].seq + CountTo(T, j) - CountTo(T, i)) % SeqModulus
  <2>1. i \in S  BY <1>1, <1>3, <1>8, <1>9
  <2>2. CASE j \in S
    <3>1. /\ o[j].ts >= o[i].ts + SamplesPerFrame
          /\ o[j].seq = (o[i].seq + CountTo(S, j) - CountTo(S, i)) % SeqModulus
      BY <1>9, <2>1, <2>2 DEF Ordered, S
    <3> QED  BY <1>2, <1>3, <2>1, <2>2, <3>1
  <2>3. CASE j = m
    <3>1. o2[i] = o[i] /\ CountTo(T, i) = CountTo(S, i)  BY <1>2, <1>3, <2>1
    <3> QED  BY <1>2, <1>5, <2>1, <2>3, <3>1
  <2> QED  BY <1>8, <2>2, <2>3
<1>10. Ordered(o2)  BY <1>9 DEF Ordered, T
<1>11. ASSUME NEW i \in T
       PROVE  /\ o2[i].ts + SamplesPerFrame <= ts + SamplesPerFrame
              /\ seq2 = (o2[i].seq + Cardinality(T) - CountTo(T, i)) % SeqModulus
  <2>1. CASE i \in S
    <3>1. o2[i] = o[i] /\ CountTo(T, i) = CountTo(S, i)  BY <1>2, <1>3, <2>1
    <3>2. o2[i].ts \in Nat /\ ts >= o2[i].ts + SamplesPerFrame  BY <1>4, <1>5, <2>1, <3>1
    <3>3. o2[i].ts + SamplesPerFrame <= ts + SamplesPerFrame  BY <1>6, <3>2
    <3> QED  BY <1>2, <1>5, <2>1, <3>1, <3>3
  <2>2. CASE i = m
    <3>1. seq2 % SeqModulus = seq2  BY <1>7, InRange
    <3>2. seq2 + (K + 1) - (K + 1) = seq2  BY <1>1, <1>7
    <3>3. o2[m].ts + SamplesPerFrame <= ts + SamplesPerFrame  BY <1>6
    <3> QED  BY <1>2, <2>2, <3>1, <3>2, <3>3
  <2> QED  BY <1>8, <2>1, <2>2
<1> QED  BY <1>10, <1>11 DEF Follows, T

LEMMA NoFrameFollows ==
    ASSUME NEW o, NEW o2, Begins(o, o2), Frames(o2) = Frames(o),
           NEW next, NEW seq, Follows(o, next, seq), Ordered(o)
    PROVE  Ordered(o2) /\ Follows(o2, next, seq)
<1>1. \A i \in Frames(o) : o2[i] = o[i]  BY FramesFinite DEF Begins
<1> QED  BY <1>1 DEF Ordered, Follows

LEMMA Appended ==
    ASSUME NEW o \in Seq(Events), NEW e \in Events
    PROVE  /\ Begins(o, Append(o, e)) /\ Append(o, e) \in Seq(Events)
           /\ Len(o) \in Nat /\ Len(Append(o, e)) = Len(o) + 1
           /\ Append(o, e)[Len(o) + 1] = e
           /\ e.kind = "frame" => Frames(Append(o, e)) = Frames(o) \cup {Len(o) + 1}
           /\ e.kind # "frame" => Frames(Append(o, e)) = Frames(o)
<1> DEFINE o2 == Append(o, e)
<1>1. /\ o2 \in Seq(Events) /\ Len(o) \in Nat /\ Len(o2) = Len(o) + 1 /\ o2[Len(o) + 1] = e
      /\ \A i \in 1..Len(o) : o2[i] = o[i]
      /\ DOMAIN o = 1..Len(o) /\ DOMAIN o2 = 1..(Len(o) + 1)
  OBVIOUS
<1> HIDE DEF o2
<1>2. Begins(o, o2)  BY <1>1 DEF Begins
<1>3. ASSUME e.kind = "frame" PROVE Frames(o2) = Frames(o) \cup {Len(o) + 1}
  BY <1>1, <1>3 DEF Frames
<1>4. ASSUME e.kind # "frame" PROVE Frames(o2) = Frames(o)
  BY <1>1, <1>4 DEF Frames
<1> QED  BY <1>1, <1>2, <1>3, <1>4 DEF o2

LEMMA TwoAppended ==
    ASSUME NEW o \in Seq(Events), NEW a \in Events, NEW b \in Events
    PROVE  o \o <<a, b>> = Append(Append(o, a), b)
<1> DEFINE l == o \o <<a, b>>
           r == Append(Append(o, a), b)
<1>0. <<a, b>> \in Seq(Events) /\ Len(<<a, b>>) = 2 /\ <<a, b>>[1] = a /\ <<a, b>>[2] = b
      /\ Append(o, a) \in Seq(Events) /\ Len(Append(o, a)) = Len(o) + 1 /\ Len(o) \in Nat
  OBVIOUS
<1>1. l \in Seq(Events) /\ Len(l) = Len(o) + 2  BY <1>0
<1>2. r \in Seq(Events) /\ Len(r) = Len(o) + 2  BY <1>0
<1>3. ASSUME NEW i \in 1..Len(l) PROVE l[i] = r[i]
  <2>1. CASE i <= Len(o)  BY <1>0, <1>1, <2>1
  <2>2. CASE i = Len(o) + 1
    <3>1. l[i] = <<a, b>>[1]  BY <1>0, <2>2
    <3>2. r[i] = Append(o, a)[Len(o) + 1]  BY <1>0, <2>2
    <3> QED  BY <1>0, <3>1, <3>2
  <2>3. CASE i = Len(o) + 2
    <3>1. l[i] = <<a, b>>[2]  BY <1>0, <2>3
    <3>2. r[i] = b  BY <1>0, <2>3
    <3> QED  BY <1>0, <3>1, <3>2
  <2> QED  BY <1>0, <1>1, <2>1, <2>2, <2>3
<1> QED  BY <1>1, <1>2, <1>3, SeqEqual
-----------------------------------------------------------------------------
\* While a talk is open, out ends with its start and its frames, and the clock
\* stands at the end of the last one.
TalkOpen ==
    /\ talkStartTimestamp \in Nat /\ lastFrameTimestamp \in Nat /\ talkBytes \in Nat
    /\ talkStartTimestamp <= lastFrameTimestamp /\ Whole(talkStartTimestamp)
    /\ nextTimestamp = StopTimestamp
    /\ \E s \in 1..(Len(out) - 1) :
         Run(out, s, Len(out), talkBytes) /\ out[s].ts = talkStartTimestamp
    /\ out[Len(out)].ts = lastFrameTimestamp

\* Between talks the clock stands at the last stop; and, unless a close ended it,
\* the silence that ended the talk has passed.
TalkOver == out # <<>> =>
    /\ out[Len(out)].kind = "stop" /\ out[Len(out)].ts = nextTimestamp
    /\ (config.silence > 0 /\ ~isClosed) => now >= playoutEndWall + config.silence

Numbered ==
    /\ Ordered(out) /\ Follows(out, nextTimestamp, sequenceNumber)
    /\ sequenceNumber \in Int /\ Whole(nextTimestamp)

Streaming ==
    /\ out \in Seq(Events) /\ talkActive \in BOOLEAN /\ isClosed \in BOOLEAN
    /\ out # <<>> => playoutEndWall \in Nat
    /\ isClosed => ~talkActive
    /\ Numbered
    /\ Talks(out, config.silence)
    /\ talkActive => TalkOpen
    /\ ~talkActive => TalkOver

LEMMA WholePlus ==
    ASSUME NEW x, NEW y, Whole(x), Whole(y)
    PROVE  Whole(x + y)
<1>1. PICK a \in Nat : x = TicksPerMs * a  BY DEF Whole
<1>2. PICK b \in Nat : y = TicksPerMs * b  BY DEF Whole
<1>3. a + b \in Nat /\ x + y = TicksPerMs * (a + b)  BY <1>1, <1>2
<1> QED  BY <1>3 DEF Whole

LEMMA InitStreaming == Init => Streaming
<1> SUFFICES ASSUME Init PROVE Streaming  OBVIOUS
<1>1. /\ out = <<>> /\ talkActive = FALSE /\ isClosed = FALSE /\ nextTimestamp = 0 /\ sequenceNumber = -1
  BY DEF Init, RtpInit
<1>2. <<>> \in Seq(Events) /\ Len(<<>>) = 0 /\ DOMAIN <<>> = {}  OBVIOUS
<1>3. Frames(<<>>) = {}  BY <1>2 DEF Frames
<1>4. Whole(0)
  <2>1. 0 \in Nat /\ 0 = TicksPerMs * 0  OBVIOUS
  <2> QED  BY <2>1 DEF Whole
<1>5. Numbered  BY <1>1, <1>3, <1>4 DEF Numbered, Ordered, Follows
<1>6. Talks(<<>>, config.silence)  BY <1>2 DEF Talks
<1> QED  BY <1>1, <1>2, <1>5, <1>6 DEF Streaming, TalkOver

\* What a frame is stamped with.
LEMMA Stamp ==
    ASSUME TimingOK, Numbered, NEW size \in FrameSizes, AudioFrame(size)
    PROVE  /\ Timestamp \in Nat /\ Timestamp >= nextTimestamp /\ Whole(Timestamp)
           /\ nextTimestamp' = Timestamp + SamplesPerFrame
           /\ sequenceNumber' \in Int /\ Whole(nextTimestamp')
           /\ Successor(sequenceNumber, sequenceNumber') /\ sequenceNumber' = SequenceNumber
           /\ Frame(Timestamp, SequenceNumber, size) \in Events
           /\ Start(Timestamp) \in Events
           /\ playoutEndWall' \in Nat
<1>1. /\ nextTimestamp' = Timestamp + SamplesPerFrame /\ sequenceNumber' = SequenceNumber
      /\ playoutEndWall' = EndAfter /\ Timestamp = nextTimestamp + GapTicks
  BY DEF AudioFrame, NextFrameTimestamp, Timestamp
<1>2. nextTimestamp \in Nat /\ GapTicks \in Nat /\ EndAfter \in Nat /\ PlayoutEnd \in Nat /\ now \in Nat
  BY FramePlacement DEF TimingOK
<1>3. Timestamp \in Nat /\ Timestamp >= nextTimestamp  BY <1>1, <1>2
<1>4. Whole(GapTicks)
  <2>1. CASE Idle > GapThreshold
    <3>1. Idle \in Nat  BY <1>2, <2>1 DEF Idle
    <3> QED  BY <2>1, <3>1 DEF Whole, GapTicks
  <2>2. CASE ~(Idle > GapThreshold)
    <3>1. GapTicks = TicksPerMs * 0  BY <2>2 DEF GapTicks
    <3> QED  BY <3>1 DEF Whole
  <2> QED  BY <2>1, <2>2
<1>5. Whole(Timestamp)  BY <1>1, <1>4, WholePlus DEF Numbered
<1>6. Whole(SamplesPerFrame)  BY DEF Whole, SamplesPerFrame
<1>7. Whole(nextTimestamp')
  <2>1. Whole(Timestamp + SamplesPerFrame)  BY <1>5, <1>6, WholePlus
  <2> QED  BY <1>1, <2>1
<1>8. SequenceNumber \in Nat
  <2>1. PICK x \in Int : x = sequenceNumber + 1  BY DEF Numbered
  <2>2. SequenceNumber = x % SeqModulus  BY <2>1 DEF SequenceNumber
  <2>3. x % SeqModulus \in 0..(SeqModulus - 1)  BY Wrapped
  <2> QED  BY <2>2, <2>3
<1>9. Successor(sequenceNumber, sequenceNumber')  BY <1>1 DEF Successor, SequenceNumber
<1>10. size \in Nat  OBVIOUS
<1>11. Frame(Timestamp, SequenceNumber, size) \in Events /\ Start(Timestamp) \in Events
  BY <1>3, <1>8, <1>10 DEF Frame, Start, Events
<1> QED  BY <1>1, <1>2, <1>3, <1>5, <1>7, <1>8, <1>9, <1>11

\* The frames are one stream after one more frame.
LEMMA NumberedNext ==
    ASSUME TimingOK, Numbered, NEW size \in FrameSizes, AudioFrame(size),
           NEW o \in Seq(Events), Ordered(o), Follows(o, nextTimestamp, sequenceNumber),
           out' = Append(o, Frame(Timestamp, SequenceNumber, size))
    PROVE  Numbered'
<1> DEFINE f == Frame(Timestamp, SequenceNumber, size)
           o2 == Append(o, f)
           m == Len(o) + 1
<1>1. f \in Events /\ f.kind = "frame" /\ f.ts = Timestamp /\ f.seq = SequenceNumber
  BY Stamp DEF Frame
<1> HIDE DEF f
<1>2. /\ Begins(o, o2) /\ Len(o) \in Nat /\ Len(o2) = m /\ o2[m] = f
      /\ Frames(o2) = Frames(o) \cup {m}
  BY <1>1, Appended
<1>3. m \in Nat /\ m > Len(o) /\ m \in 1..Len(o2)  BY <1>2
<1> HIDE DEF m, o2
<1>4. PICK ts \in Nat : ts = Timestamp  BY Stamp
<1>5. PICK seq2 : seq2 = SequenceNumber  OBVIOUS
<1>6. nextTimestamp \in Nat /\ sequenceNumber \in Int  BY DEF TimingOK, Numbered
<1>7. /\ ts >= nextTimestamp /\ Successor(sequenceNumber, seq2) /\ o2[m].ts = ts /\ o2[m].seq = seq2
  BY <1>1, <1>2, <1>4, <1>5, Stamp
<1>8. Ordered(o2) /\ Follows(o2, ts + SamplesPerFrame, seq2)
  BY <1>2, <1>3, <1>6, <1>7, FrameFollows
<1>9. out' = o2 /\ nextTimestamp' = ts + SamplesPerFrame /\ sequenceNumber' = seq2
  BY <1>4, <1>5, Stamp DEF o2, f
<1> QED  BY <1>8, <1>9, Stamp DEF Numbered

\* A frame of the talk that is open.
LEMMA NextFrameStep ==
    ASSUME IInv, Streaming, NEW size \in FrameSizes, AudioFrame(size), talkActive
    PROVE  Streaming'
<1> DEFINE f == Frame(Timestamp, SequenceNumber, size)
           n == Len(out)
<1>1. TimingOK /\ Numbered /\ TalkOpen /\ out \in Seq(Events)  BY DEF IInv, Streaming
<1>2. /\ f \in Events /\ f.kind = "frame" /\ f.ts = Timestamp /\ f.bytes = size
  BY <1>1, Stamp DEF Frame
<1>3. /\ out' = Append(out, f) /\ talkActive' = TRUE /\ talkBytes' = talkBytes + size
      /\ lastFrameTimestamp' = Timestamp
      /\ UNCHANGED <<talkStartTimestamp, config, isClosed>> /\ ~isClosed
  BY DEF AudioFrame, BytesAfter
<1>4. Numbered'  BY <1>1, <1>3, NumberedNext DEF Numbered
<1> HIDE DEF f
<1>5. /\ Begins(out, out') /\ out' \in Seq(Events) /\ n \in Nat /\ Len(out') = n + 1 /\ out'[n + 1] = f
  BY <1>1, <1>2, <1>3, Appended
<1>6. Talks(out', config.silence)
  <2> SUFFICES ASSUME NEW i \in 1..Len(out')
               PROVE  /\ out'[i].kind = "start" => Starts(out', i) /\ Apart(out', i, config.silence)
                      /\ out'[i].kind = "stop" => Stops(out', i)
    BY DEF Talks
  <2>1. CASE i \in 1..n  BY <1>5, <2>1, TalksKept DEF Streaming
  <2>2. CASE i = n + 1  BY <1>2, <1>5, <2>2
  <2> QED  BY <1>5, <2>1, <2>2
<1>7. TalkOpen'
  <2>1. PICK s \in 1..(n - 1) : Run(out, s, n, talkBytes) /\ out[s].ts = talkStartTimestamp
    BY <1>1 DEF TalkOpen
  <2>2. s \in Nat \ {0} /\ s <= n /\ s \in 1..n  BY <1>5
  <2>3. Run(out', s, n, talkBytes) /\ out'[s] = out[s]  BY <1>5, <2>1, <2>2, RunKept DEF Begins
  <2>4. BytesOf(out', s, n + 1, talkBytes + size)
    <3>1. BytesOf(out', s, n + 1, talkBytes + out'[n + 1].bytes)  BY <1>5, <2>2, <2>3, BytesNext DEF Run
    <3> QED  BY <1>2, <1>5, <3>1
  <2>5. Run(out', s, n + 1, talkBytes + size)
    <3>1. ASSUME NEW k \in (s + 1)..(n + 1) PROVE out'[k].kind = "frame"
      <4>1. CASE k \in (s + 1)..n  BY <2>3, <4>1 DEF Run
      <4>2. CASE k = n + 1  BY <1>2, <1>5, <4>2
      <4> QED  BY <1>5, <2>2, <4>1, <4>2
    <3> QED  BY <2>3, <2>4, <3>1 DEF Run
  <2>6. s \in 1..(Len(out') - 1)  BY <1>5, <2>2
  <2>7. /\ talkBytes \in Nat /\ size \in Nat /\ talkStartTimestamp \in Nat /\ lastFrameTimestamp \in Nat
        /\ talkStartTimestamp <= lastFrameTimestamp /\ Whole(talkStartTimestamp)
        /\ nextTimestamp = lastFrameTimestamp + SamplesPerFrame
    BY <1>1 DEF TalkOpen, StopTimestamp
  <2>8. SamplesPerFrame \in Nat  BY DEF SamplesPerFrame
  <2>9. Timestamp \in Nat /\ Timestamp >= nextTimestamp /\ nextTimestamp' = Timestamp + SamplesPerFrame
    BY <1>1, Stamp
  <2>10. talkStartTimestamp <= Timestamp  BY <2>7, <2>8, <2>9
  <2>11. nextTimestamp' = StopTimestamp'  BY <1>3, <2>9 DEF StopTimestamp, SamplesPerFrame
  <2>12. talkBytes' \in Nat  BY <1>3, <2>7
  <2>13. out'[Len(out')].ts = lastFrameTimestamp'  BY <1>2, <1>3, <1>5
  <2>14. Run(out', s, Len(out'), talkBytes') /\ out'[s].ts = talkStartTimestamp'
    BY <1>3, <1>5, <2>1, <2>3, <2>5
  <2> QED  BY <1>3, <2>6, <2>7, <2>9, <2>10, <2>11, <2>12, <2>13, <2>14 DEF TalkOpen
<1>8. playoutEndWall' \in Nat  BY <1>1, Stamp
<1> QED  BY <1>3, <1>4, <1>5, <1>6, <1>7, <1>8 DEF Streaming

\* A frame that opens a talk.
LEMMA FirstFrameStep ==
    ASSUME IInv, Streaming, NEW size \in FrameSizes, AudioFrame(size), ~talkActive
    PROVE  Streaming'
<1> DEFINE a == Start(Timestamp)
           f == Frame(Timestamp, SequenceNumber, size)
           n == Len(out)
           o == Append(out, a)
<1>1. TimingOK /\ Numbered /\ TalkOver /\ out \in Seq(Events)  BY DEF IInv, Streaming
<1>2. /\ f \in Events /\ f.kind = "frame" /\ f.ts = Timestamp /\ f.bytes = size
      /\ a \in Events /\ a.kind = "start" /\ a.ts = Timestamp
  BY <1>1, Stamp DEF Frame, Start
<1>3. /\ out' = out \o <<a, f>> /\ talkActive' = TRUE /\ talkBytes' = size
      /\ lastFrameTimestamp' = Timestamp /\ talkStartTimestamp' = Timestamp
      /\ UNCHANGED <<config, isClosed>> /\ ~isClosed
  BY DEF AudioFrame, BytesAfter
<1>4. out' = Append(o, f)  BY <1>1, <1>2, <1>3, TwoAppended
<1>5. /\ Begins(out, o) /\ o \in Seq(Events) /\ n \in Nat /\ Len(o) = n + 1 /\ o[n + 1] = a
      /\ Frames(o) = Frames(out)
  BY <1>1, <1>2, Appended
<1>6. Ordered(o) /\ Follows(o, nextTimestamp, sequenceNumber)
  BY <1>1, <1>5, NoFrameFollows DEF Numbered
<1>7. Numbered'  BY <1>1, <1>4, <1>5, <1>6, NumberedNext
<1> HIDE DEF o, a, f
<1>8. /\ Begins(o, out') /\ out' \in Seq(Events) /\ Len(out') = n + 2 /\ out'[n + 2] = f
  <2>1. Begins(o, out') /\ out' \in Seq(Events) /\ Len(out') = n + 1 + 1 /\ out'[n + 1 + 1] = f
    BY <1>2, <1>4, <1>5, Appended
  <2>2. n + 1 + 1 = n + 2  BY <1>5
  <2> QED  BY <2>1, <2>2
<1>9. Begins(out, out') /\ out'[n + 1] = a  BY <1>5, <1>8 DEF Begins
<1>10. Starts(out', n + 1)
  <2>1. n + 1 = 1 \/ out'[n + 1 - 1].kind = "stop"
    <3>1. CASE n = 0  BY <3>1
    <3>2. CASE n # 0
      <4>1. out # <<>> /\ n \in 1..n /\ n + 1 - 1 = n  BY <1>5, <3>2
      <4> QED  BY <1>1, <1>9, <4>1 DEF TalkOver, Begins
    <3> QED  BY <3>1, <3>2
  <2>2. n + 1 < Len(out') /\ n + 1 + 1 = n + 2  BY <1>5, <1>8
  <2> QED  BY <1>2, <1>8, <1>9, <2>1, <2>2 DEF Starts
<1>11. Apart(out', n + 1, config.silence)
  <2> SUFFICES ASSUME n + 1 > 1, config.silence > GapThreshold
               PROVE  out'[n + 1].ts - out'[n + 1 - 1].ts >= TicksPerMs * config.silence
    BY DEF Apart
  <2>1. out # <<>> /\ n \in 1..n /\ n + 1 - 1 = n  BY <1>5
  <2>2. out'[n + 1 - 1] = out[n]  BY <1>9, <2>1 DEF Begins
  <2>3. config.silence \in Int /\ config.silence > 0  BY <1>1 DEF TimingOK
  <2>4. /\ out[n].ts = nextTimestamp /\ playoutEndWall \in Nat
        /\ now >= playoutEndWall + config.silence
    BY <1>1, <1>3, <2>1, <2>3 DEF TalkOver, Streaming
  <2>5. Idle = now - playoutEndWall /\ now \in Nat
    BY <1>1, <2>4 DEF Idle, PlayoutEnd, Undefined, TimingOK
  <2>6. Idle \in Nat /\ Idle >= config.silence /\ Idle > GapThreshold  BY <2>3, <2>4, <2>5
  <2>7. Timestamp = nextTimestamp + TicksPerMs * Idle  BY <2>6 DEF Timestamp, GapTicks
  <2>8. TicksPerMs * Idle >= TicksPerMs * config.silence
    <3>0. Idle - config.silence \in Nat /\ Idle = config.silence + (Idle - config.silence)
      BY <2>3, <2>6
    <3>1. PICK d \in Nat : Idle = config.silence + d  BY <3>0
    <3>2. TicksPerMs * Idle = TicksPerMs * config.silence + TicksPerMs * d  BY <2>3, <3>1
    <3>3. TicksPerMs * d \in Nat /\ TicksPerMs * config.silence \in Int  BY <2>3
    <3> QED  BY <3>2, <3>3
  <2>9. nextTimestamp \in Nat /\ TicksPerMs * Idle \in Nat /\ TicksPerMs * config.silence \in Int
    BY <1>1, <2>3, <2>6 DEF TimingOK
  <2>10. out'[n + 1].ts = Timestamp  BY <1>2, <1>9
  <2> QED  BY <2>2, <2>4, <2>7, <2>8, <2>9, <2>10
<1>12. Talks(out', config.silence)
  <2> SUFFICES ASSUME NEW i \in 1..Len(out')
               PROVE  /\ out'[i].kind = "start" => Starts(out', i) /\ Apart(out', i, config.silence)
                      /\ out'[i].kind = "stop" => Stops(out', i)
    BY DEF Talks
  <2>1. CASE i \in 1..n  BY <1>9, <2>1, TalksKept DEF Streaming
  <2>2. CASE i = n + 1  BY <1>2, <1>9, <1>10, <1>11, <2>2
  <2>3. CASE i = n + 2  BY <1>2, <1>8, <2>3
  <2> QED  BY <1>5, <1>8, <2>1, <2>2, <2>3
<1>13. TalkOpen'
  <2>1. BytesOf(out', n + 1, n + 1, 0)  BY <1>5, BytesFirst
  <2>2. BytesOf(out', n + 1, n + 2, size)
    <3>1. BytesOf(out', n + 1, n + 1 + 1, 0 + out'[n + 1 + 1].bytes)  BY <1>5, <2>1, BytesNext
    <3>2. n + 1 + 1 = n + 2 /\ 0 + size = size  BY <1>5
    <3> QED  BY <1>2, <1>8, <3>1, <3>2
  <2>3. Run(out', n + 1, n + 2, size)
    <3>1. \A k \in (n + 1 + 1)..(n + 2) : k = n + 2  BY <1>5
    <3> QED  BY <1>2, <1>8, <1>9, <2>2, <3>1 DEF Run
  <2>4. n + 1 \in 1..(Len(out') - 1)  BY <1>5, <1>8
  <2>5. Timestamp \in Nat /\ Whole(Timestamp) /\ nextTimestamp' = Timestamp + SamplesPerFrame
    BY <1>1, Stamp
  <2>6. nextTimestamp' = StopTimestamp'  BY <1>3, <2>5 DEF StopTimestamp, SamplesPerFrame
  <2>7. size \in Nat /\ Timestamp <= Timestamp  BY <2>5
  <2>8. Run(out', n + 1, Len(out'), talkBytes') /\ out'[n + 1].ts = talkStartTimestamp'
    BY <1>2, <1>3, <1>8, <1>9, <2>3
  <2>9. out'[Len(out')].ts = lastFrameTimestamp'  BY <1>2, <1>3, <1>8
  <2> QED  BY <1>3, <2>4, <2>5, <2>6, <2>7, <2>8, <2>9 DEF TalkOpen
<1>14. playoutEndWall' \in Nat  BY <1>1, Stamp
<1> QED  BY <1>3, <1>7, <1>8, <1>12, <1>13, <1>14 DEF Streaming

\* A talk's end: by its timer, after the silence, or by a close.
LEMMA EndTalkStreaming ==
    ASSUME IInv, Streaming, EndTalk, UNCHANGED <<now, clock, config>>,
           \/ timer # NoTimer /\ now >= timer /\ isClosed' = isClosed
           \/ isClosed' = TRUE
    PROVE  Streaming'
<1> DEFINE n == Len(out)
           e == Stop(StopTimestamp, talkBytes, (StopTimestamp - talkStartTimestamp) \div TicksPerMs)
<1>1. /\ TimingOK /\ TimerCoversPlayout /\ Numbered /\ out \in Seq(Events)
      /\ isClosed' \in BOOLEAN
  BY DEF IInv, Streaming
<1>2. /\ UNCHANGED <<nextTimestamp, sequenceNumber, playoutEndWall, now, config>>
      /\ talkActive' = FALSE
  BY DEF clock, EndTalk
<1>3. CASE ~talkActive
  <2>1. out' = out  BY <1>3 DEF EndTalk
  <2>2. TalkOver'  BY <1>2, <1>3, <2>1 DEF Streaming, TalkOver
  <2>3. Numbered'  BY <1>1, <1>2, <2>1 DEF Numbered
  <2> QED  BY <1>1, <1>2, <2>1, <2>2, <2>3 DEF Streaming
<1>4. CASE talkActive
  <2>1. TalkOpen /\ out' = Append(out, e)  BY <1>4 DEF Streaming, EndTalk
  <2>2. /\ talkStartTimestamp \in Nat /\ lastFrameTimestamp \in Nat /\ talkBytes \in Nat
        /\ talkStartTimestamp <= lastFrameTimestamp /\ Whole(talkStartTimestamp)
        /\ nextTimestamp = StopTimestamp /\ StopTimestamp = lastFrameTimestamp + SamplesPerFrame
    BY <2>1 DEF TalkOpen, StopTimestamp
  <2>3. StopTimestamp \in Nat /\ talkStartTimestamp <= StopTimestamp /\ Whole(StopTimestamp)
    <3>1. SamplesPerFrame \in Nat  BY DEF SamplesPerFrame
    <3>2. Whole(StopTimestamp)  BY <1>1, <2>2 DEF Numbered
    <3> QED  BY <2>2, <3>1, <3>2
  <2>4. PICK d : d = (StopTimestamp - talkStartTimestamp) \div TicksPerMs  OBVIOUS
  <2>5. d \in Nat /\ d * TicksPerMs = StopTimestamp - talkStartTimestamp  BY <2>2, <2>3, <2>4, Spans
  <2>6. /\ e \in Events /\ e.kind = "stop" /\ e.ts = StopTimestamp /\ e.bytes = talkBytes
        /\ e.duration = d
    BY <2>2, <2>3, <2>4, <2>5 DEF Stop, Events
  <2> HIDE DEF e
  <2>7. /\ Begins(out, out') /\ out' \in Seq(Events) /\ n \in Nat /\ Len(out') = n + 1
        /\ out'[n + 1] = e /\ Frames(out') = Frames(out)
    BY <1>1, <2>1, <2>6, Appended
  <2>8. Numbered'  BY <1>1, <1>2, <2>7, NoFrameFollows DEF Numbered
  <2>9. PICK s \in 1..(n - 1) : Run(out, s, n, talkBytes) /\ out[s].ts = talkStartTimestamp
    BY <2>1 DEF TalkOpen
  <2>10. /\ s \in Nat \ {0} /\ s <= n /\ s \in 1..n /\ n \in 1..n
         /\ n + 1 - 1 = n /\ n + 1 - 2 = n - 1
    BY <2>7
  <2>11. Stops(out', n + 1)
    <3>1. Run(out', s, n, talkBytes)  BY <2>7, <2>9, <2>10, RunKept
    <3>2. out'[s] = out[s] /\ out'[n] = out[n]  BY <2>7, <2>10 DEF Begins
    <3>3. out'[n + 1].ts = out'[n].ts + SamplesPerFrame
      BY <2>1, <2>2, <2>6, <2>7, <3>2 DEF TalkOpen
    <3>4. out'[n + 1].duration * TicksPerMs = out'[n + 1].ts - out'[s].ts
      BY <2>5, <2>6, <2>7, <2>9, <3>2
    <3>5. Run(out', s, n + 1 - 1, out'[n + 1].bytes)  BY <2>6, <2>7, <2>10, <3>1
    <3>6. s \in 1..(n + 1 - 2)  BY <2>10
    <3> QED  BY <2>10, <3>3, <3>4, <3>5, <3>6 DEF Stops
  <2>12. Talks(out', config.silence)
    <3> SUFFICES ASSUME NEW i \in 1..Len(out')
                 PROVE  /\ out'[i].kind = "start" => Starts(out', i) /\ Apart(out', i, config.silence)
                        /\ out'[i].kind = "stop" => Stops(out', i)
      BY DEF Talks
    <3>1. CASE i \in 1..n  BY <2>7, <3>1, TalksKept DEF Streaming
    <3>2. CASE i = n + 1  BY <2>6, <2>7, <2>11, <3>2
    <3> QED  BY <2>7, <3>1, <3>2
  <2>13. TalkOver'
    <3>1. out'[Len(out')].kind = "stop" /\ out'[Len(out')].ts = nextTimestamp'
      BY <1>2, <2>2, <2>6, <2>7
    <3>2. ASSUME config.silence > 0, ~isClosed' PROVE now >= playoutEndWall + config.silence
      <4>1. out # <<>>  BY <2>7, <2>10
      <4>2. playoutEndWall \in Nat  BY <4>1 DEF Streaming
      <4>3. timer \in Nat /\ now >= timer /\ timer >= playoutEndWall + config.silence
        BY <1>1, <1>4, <3>2 DEF TimingOK, TimerCoversPlayout, NoTimer
      <4>4. now \in Nat /\ config.silence \in Int  BY <1>1 DEF TimingOK
      <4> QED  BY <4>2, <4>3, <4>4
    <3> QED  BY <1>2, <3>1, <3>2 DEF TalkOver
  <2>14. playoutEndWall \in Nat
    <3>1. out # <<>>  BY <2>7, <2>10
    <3> QED  BY <3>1 DEF Streaming
  <2> QED  BY <1>1, <1>2, <2>7, <2>8, <2>12, <2>13, <2>14 DEF Streaming
<1> QED  BY <1>3, <1>4

LEMMA StreamingStep == IInv /\ Streaming /\ [Next]_vars => Streaming'
<1> SUFFICES ASSUME IInv, Streaming, [Next]_vars PROVE Streaming'  OBVIOUS
<1>1. CASE now' \in Int /\ now' >= now /\ UNCHANGED <<clock, config, isClosed, talk, out>>
  <2>1. UNCHANGED <<nextTimestamp, sequenceNumber, playoutEndWall, config, isClosed, talkActive,
                    talkStartTimestamp, lastFrameTimestamp, talkBytes, out>>
    BY <1>1 DEF clock, talk
  <2>2. Numbered'  BY <2>1 DEF Streaming, Numbered
  <2>3. TalkOpen => TalkOpen'  BY <2>1 DEF TalkOpen, StopTimestamp, SamplesPerFrame
  <2>4. TalkOver => TalkOver'
    <3>1. out # <<>> => playoutEndWall \in Nat  BY DEF Streaming
    <3>2. config.silence \in Int /\ now \in Nat  BY DEF IInv, TimingOK
    <3> QED  BY <1>1, <2>1, <3>1, <3>2 DEF TalkOver
  <2>5. /\ out \in Seq(Events) /\ talkActive \in BOOLEAN /\ isClosed \in BOOLEAN
        /\ (out # <<>> => playoutEndWall \in Nat) /\ (isClosed => ~talkActive)
        /\ Talks(out, config.silence) /\ (talkActive => TalkOpen) /\ (~talkActive => TalkOver)
    BY DEF Streaming
  <2> QED  BY <2>1, <2>2, <2>3, <2>4, <2>5 DEF Streaming
<1>2. now \in Nat  BY DEF IInv, TimingOK
<1>3. CASE Tick  BY <1>1, <1>2, <1>3 DEF Tick
<1>4. CASE TalkTimeout  BY <1>4, EndTalkStreaming DEF TalkTimeout
<1>5. CASE EncoderReady  BY <1>1, <1>2, <1>5 DEF EncoderReady
<1>6. CASE EncoderFails
  <2>1. CASE DoClose  BY <2>1, EndTalkStreaming DEF DoClose
  <2>2. CASE UNCHANGED <<now, clock, config, isClosed, talk, timer, out, text>>  BY <1>1, <1>2, <2>2
  <2> QED  BY <1>6, <2>1, <2>2 DEF EncoderFails
<1>7. CASE \E size \in FrameSizes : AudioFrame(size)
  BY <1>7, NextFrameStep, FirstFrameStep
<1>8. CASE TranscriptDelta  BY <1>1, <1>2, <1>8 DEF TranscriptDelta
<1>9. CASE Close  BY <1>9, EndTalkStreaming DEF Close, DoClose
<1>10. CASE UNCHANGED vars  BY <1>1, <1>2, <1>10 DEF vars
<1> QED  BY <1>3, <1>4, <1>5, <1>6, <1>7, <1>8, <1>9, <1>10 DEF Next

LEMMA StreamingSuffices == Streaming => StreamSound
<1> SUFFICES ASSUME Streaming PROVE StreamSound  OBVIOUS
<1>1. out \in Seq(Events) /\ Len(out) \in Nat /\ DOMAIN out = 1..Len(out)  BY DEF Streaming
<1>2. OneStream
  <2>1. FrameIndices = Frames(out)  BY DEF FrameIndices, Frames
  <2>2. \A i : FrameNo(i) = CountTo(Frames(out), i)  BY <2>1 DEF FrameNo, CountTo
  <2>3. Ordered(out)  BY DEF Streaming, Numbered
  <2> QED  BY <2>1, <2>2, <2>3 DEF Ordered, OneStream
<1>3. ASSUME NEW i \in 1..Len(out), out[i].kind = "stop"
      PROVE  \E s \in 1..(i - 2) :
                /\ out[s].kind = "start"
                /\ \A k \in (s + 1)..(i - 1) : out[k].kind = "frame"
                /\ out[i].ts = out[i - 1].ts + SamplesPerFrame
                /\ out[i].duration * TicksPerMs = out[i].ts - out[s].ts
                /\ out[i].bytes = BytesBetween(s, i - 1)
  <2>1. PICK s \in 1..(i - 2) :
          /\ Run(out, s, i - 1, out[i].bytes)
          /\ out[i].ts = out[i - 1].ts + SamplesPerFrame
          /\ out[i].duration * TicksPerMs = out[i].ts - out[s].ts
    BY <1>3 DEF Streaming, Talks, Stops
  <2>2. s \in Nat /\ i - 1 \in Nat /\ s <= i - 1  BY <1>1
  <2>3. BytesBetween(s, i - 1) = out[i].bytes  BY <2>1, <2>2, BytesAre DEF Run
  <2> QED  BY <2>1, <2>3 DEF Run
<1>4. ASSUME NEW i \in 1..Len(out), out[i].kind = "start"
      PROVE  Starts(out, i) /\ Apart(out, i, config.silence)
  BY <1>4 DEF Streaming, Talks
<1>5. ASSUME NEW i \in 1..Len(out), isClosed PROVE out[Len(out)].kind = "stop"
  <2>1. out # <<>>  BY <1>1
  <2> QED  BY <1>5, <2>1 DEF Streaming, TalkOver
<1>6. TalksWellFormed  BY <1>1, <1>3, <1>4, <1>5 DEF TalksWellFormed, Starts
<1>7. TalksApart  BY <1>1, <1>4 DEF TalksApart, Apart
<1> QED  BY <1>2, <1>6, <1>7 DEF StreamSound

\* Whatever bursts and pauses the audio comes in, and however talks end: the frames
\* are one RTP stream, cut into talks that each report their own span and bytes, and
\* set apart on the media timeline by the silence between them.
THEOREM StreamSoundHolds == Spec => []StreamSound
<1> QED  BY Invariance, InitStreaming, StreamingStep, StreamingSuffices, PTL DEF Spec
=============================================================================
