---------------------------- MODULE MessageRelay ----------------------------
(***************************************************************************)
(* What a component promises that takes numbered messages on one side and   *)
(* hands them on, when it can, on the other: it may drop messages (its      *)
(* queues are bounded, its peer may be away) and put fillers in their place, *)
(* but it invents none, repeats none and keeps their order.                 *)
(***************************************************************************)
EXTENDS Integers, Sequences

CONSTANTS Batch,  \* how much one step may hand on
          Filler

VARIABLES accepted,   \* the number of the last message taken
          delivered   \* the numbers handed on, and the fillers

Messages(s) == {i \in DOMAIN s : s[i] # Filler}

Increasing(s) == \A i, j \in Messages(s) : i < j => s[i] < s[j]

Init == accepted = 0 /\ delivered = <<>>

\* Takes newer messages, or none, ...
Accept == accepted' \in Nat /\ accepted' >= accepted

\* ... and hands on some of those taken that come after all it handed on before.
Deliver ==
    /\ delivered' \in Seq(Nat)
    /\ Len(delivered') \in Len(delivered)..(Len(delivered) + Batch)
    /\ \A i \in DOMAIN delivered : delivered'[i] = delivered[i]
    /\ Increasing(delivered')
    /\ \A i \in Messages(delivered') : delivered'[i] \in 1..accepted'

Next == Accept /\ Deliver

Spec == Init /\ [][Next]_<<accepted, delivered>>
=============================================================================
