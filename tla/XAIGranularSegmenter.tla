------------------------ MODULE XAIGranularSegmenter ------------------------
(***************************************************************************)
(* What xAI's backend does to commit a long turn while it is spoken (class   *)
(* XAIGranularSegmenter): words of the growing hypothesis that have not      *)
(* changed for a while are frozen, all but the last GuardWords of them, and  *)
(* committed in batches; the end of the turn commits the rest.               *)
(*                                                                           *)
(* Each operator is a method, from the segmenter before it to the one after. *)
(* Words get their stableSince in order, so those that have aged enough are  *)
(* a prefix of the hypothesis: `stable' is its length and the clock is gone. *)
(* Words are compared as they are, punctuation and case included.            *)
(***************************************************************************)
EXTENDS Integers, SequencesExt, FiniteSetsExt

CONSTANTS GuardWords, MinWords,
          SentenceEnds   \* words that end a sentence

ASSUME SegmenterAssumption == GuardWords \in Nat /\ MinWords \in Nat \ {0}

Fresh == [baseText |-> <<>>, hyp |-> <<>>, stable |-> 0, emitted |-> 0, pending |-> <<>>]

FrozenCount(s) == s.emitted + Len(s.pending)

MergeBase(base, text) == IF IsPrefix(base, text) THEN text ELSE base \o text

\* The words up to the first one that differs keep their age.
UpdateHyp(s, words) ==
    [s EXCEPT !.hyp = words, !.stable = Min({@, Len(LongestCommonPrefix({s.hyp, words}))})]

\* How many words are in the buffer after i of the words p are batched.
Buffered(p) ==
    LET buf[i \in 0..Len(p)] ==
            IF i = 0 \/ buf[i - 1] + 1 >= MinWords \/ p[i] \in SentenceEnds THEN 0 ELSE buf[i - 1] + 1
    IN  buf[Len(p)]

\* freeze and batchPending: the segmenter after them, and the words committed.
Freeze(s) ==
    LET ceil == Min({Len(s.hyp) - GuardWords, s.stable})
        pending == s.pending \o SubSeq(s.hyp, FrozenCount(s) + 1, ceil)
        cut == Len(pending) - Buffered(pending)
    IN  [segmenter |-> [s EXCEPT !.emitted = @ + cut, !.pending = SubSeq(pending, cut + 1, Len(pending))],
         commits |-> SubSeq(pending, 1, cut)]

\* mutant: what is frozen but not committed counts as committed
AfterFrozen(s, text) ==
    [segmenter |-> Fresh, commits |-> SubSeq(text, FrozenCount(s) + 1, Len(text))]

EndTurn(s, text) ==
    [segmenter |-> Fresh, commits |-> SubSeq(text, s.emitted + 1, Len(text))]

PushPartial(s, text, isFinalSeg, speechFinal) ==
    LET hypothesis == MergeBase(s.baseText, text)
        base == IF isFinalSeg THEN hypothesis ELSE s.baseText
    IN  IF speechFinal THEN EndTurn(s, text)
        ELSE Freeze(UpdateHyp([s EXCEPT !.baseText = base], hypothesis))

\* nextDueTime() is not null: a word outside the guard is not frozen yet.
HasDue(s) == FrozenCount(s) < Len(s.hyp) - GuardWords

HasActiveTurn(s) == s.hyp # <<>> \/ s.emitted > 0
=============================================================================
