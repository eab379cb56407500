--------------------------- MODULE WriterContract ---------------------------
(***************************************************************************)
(* What a writer session promises its owner, seen from outside the         *)
(* adapter.  The session is open, or it has ended with a verdict on the    *)
(* destination: published, unpublished, or unknown.  A verdict is final    *)
(* and true: published content was exposed at the destination (or written  *)
(* in place, which cannot be taken back), and unpublished content is not   *)
(* exposed, then or later, because only an open session can expose it.     *)
(***************************************************************************)

CONSTANT Writers

VARIABLES
    phase,     \* phase[w]: none, open, a verdict, or gone
    inPlace,   \* the sessions that write the destination in place
    exposed    \* the sessions with bytes at the destination

vars == <<phase, inPlace, exposed>>

Verdicts == {"published", "unpublished", "unknown"}

Init ==
    /\ phase = [w \in Writers |-> "none"]
    /\ inPlace = {}
    /\ exposed = {}

Open(w) ==
    /\ phase[w] = "none"
    /\ phase' = [phase EXCEPT ![w] = "open"]
    /\ inPlace' \in {inPlace, inPlace \cup {w}}
    /\ UNCHANGED exposed

\* Bytes reach the destination while the session stays open.
Expose(w) ==
    /\ phase[w] = "open"
    /\ exposed' = exposed \cup {w}
    /\ UNCHANGED <<phase, inPlace>>

\* The session ends with a verdict.
Finish(w) ==
    /\ phase[w] = "open"
    /\ exposed' \in {exposed, exposed \cup {w}}
    /\ \E v \in Verdicts :
          /\ v = "published" => w \in exposed' \cup inPlace
          /\ v = "unpublished" => w \notin exposed'
          /\ phase' = [phase EXCEPT ![w] = v]
    /\ UNCHANGED inPlace

\* Only an open session can still expose something when it is dropped.
Drop(w) ==
    /\ phase[w] \notin {"none", "gone"}
    /\ phase' = [phase EXCEPT ![w] = "gone"]
    /\ exposed' \in {exposed} \cup (IF phase[w] = "open" THEN {exposed \cup {w}} ELSE {})
    /\ UNCHANGED inPlace

Next == \E w \in Writers : Open(w) \/ Expose(w) \/ Finish(w) \/ Drop(w)

Spec == Init /\ [][Next]_vars
=============================================================================
