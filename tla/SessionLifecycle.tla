-------------------------- MODULE SessionLifecycle --------------------------
(***************************************************************************)
(* What the server promises of a transcription session: it is opened for a  *)
(* client that has no session under its id, is detached when that client's  *)
(* connection is lost, is resumed or ends, and an ended session never comes *)
(* back.  SessionManager implements this when clients do not overlap their  *)
(* own connections, for each session that no error ends while it is         *)
(* detached: one of those the code closes and still resumes.                *)
(***************************************************************************)
EXTENDS Integers

CONSTANTS SessionIds, NoId, Sessions

VARIABLES phase,  \* of each session: unborn, attached, detached or ended
          owner   \* the session id it was opened for

Live(p) == phase[p] \in {"attached", "detached"}

Init == /\ phase = [p \in Sessions |-> "unborn"]
        /\ owner = [p \in Sessions |-> NoId]

\* At most one live session per id.
Open(p, id) ==
    /\ phase[p] = "unborn"
    /\ id # NoId => \A q \in Sessions : owner[q] = id => ~Live(q)
    /\ phase' = [phase EXCEPT ![p] = "attached"]
    /\ owner' = [owner EXCEPT ![p] = id]

\* Only a session with an id can be found again.
Detach(p) ==
    /\ phase[p] = "attached" /\ owner[p] # NoId
    /\ phase' = [phase EXCEPT ![p] = "detached"]
    /\ UNCHANGED owner

Resume(p) ==
    /\ phase[p] = "detached"
    /\ phase' = [phase EXCEPT ![p] = "attached"]
    /\ UNCHANGED owner

End(p) ==
    /\ Live(p)
    /\ phase' = [phase EXCEPT ![p] = "ended"]
    /\ UNCHANGED owner

Next == \E p \in Sessions : \/ \E id \in SessionIds \cup {NoId} : Open(p, id)
                            \/ Detach(p) \/ Resume(p) \/ End(p)

Steps == Init /\ [][Next]_<<phase, owner>>

\* A detached session does not stay so for ever.
Spec == /\ Steps
        /\ \A p \in Sessions : WF_<<phase, owner>>(phase[p] = "detached" /\ (Resume(p) \/ End(p)))
=============================================================================
