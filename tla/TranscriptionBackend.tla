------------------------ MODULE TranscriptionBackend ------------------------
(***************************************************************************)
(* What OutgoingConnection may rely on of the backend it connected, whatever *)
(* the provider (interface TranscriptionBackend): the stream opens at most   *)
(* once, ends at most once, hands over transcripts only in between, and the  *)
(* owner hears of its end in the very step that it ends, as what it was.  A  *)
(* stream that timed out is worth another one (recoverable), an error is     *)
(* fatal, and a stream that is closed, even one that never opened, is heard  *)
(* of through onClosed.                                                      *)
(***************************************************************************)
EXTENDS Naturals

VARIABLES stream,       \* "opening", "open", or how it ended
          heard,        \* what the owner knows of the end
          transcripts   \* how many final words it was handed

vars == <<stream, heard, transcripts>>

Live == stream \in {"opening", "open"}

(* A backend without a service is open at once; one without its key throws. *)
Init ==
    /\ \/ stream \in {"opening", "open"} /\ heard = "nothing"
       \/ stream = "no key" /\ heard = "rejected"
    /\ transcripts = 0

(* connect() resolves. *)
Opens == stream = "opening" /\ stream' = "open" /\ UNCHANGED <<heard, transcripts>>

(* onCompleteTranscription. *)
Transcribes ==
    /\ stream = "open"
    /\ transcripts' \in Nat /\ transcripts' > transcripts
    /\ UNCHANGED <<stream, heard>>

Over(end, told) == Live /\ stream' = end /\ heard' = told /\ UNCHANGED transcripts

TimesOut == Over("transient", "recoverable")
Fails == Over("fault", "error")
Ends == Over("end", "closed")
Released == Over("owner", "released")  \* detached and closed by its owner

Next == Opens \/ Transcribes \/ TimesOut \/ Fails \/ Ends \/ Released

Spec == Init /\ [][Next]_vars
=============================================================================
