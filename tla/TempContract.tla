---------------------------- MODULE TempContract ----------------------------
(***************************************************************************)
(* What a temporary-resource session promises its owner, seen from outside *)
(* the adapter: who has authority over the private source, and whether the *)
(* content was ever installed under a public name.                         *)
(*                                                                         *)
(* A session is created holding its source.  It may publish once, and only *)
(* while it holds the source.  Authority is given up and never regained: a *)
(* session that has lost track of its source stays uncertain, one that has *)
(* released it stays released, and a session left with a private container *)
(* to remove can only remove it, lose track of it, or be dropped.          *)
(***************************************************************************)

CONSTANT Resources

VARIABLES
    phase,       \* phase[r]: the session's authority over its source
    published    \* the resources whose content was installed at a target

vars == <<phase, published>>

Phase == {"unborn", "held", "leftover", "uncertain", "released", "gone"}

TypeOK ==
    /\ phase \in [Resources -> Phase]
    /\ published \in SUBSET Resources

Init ==
    /\ phase = [r \in Resources |-> "unborn"]
    /\ published = {}

Create(r) ==
    /\ phase[r] = "unborn"
    /\ phase' = [phase EXCEPT ![r] = "held"]
    /\ UNCHANGED published

\* A publication that took effect, whatever was reported about it.
Publish(r) ==
    /\ phase[r] = "held"
    /\ r \notin published
    /\ \E p \in {"leftover", "uncertain", "released"} :
          phase' = [phase EXCEPT ![r] = p]
    /\ published' = published \cup {r}

\* Authority given up without a publication: cleaned up, or identity lost.
Relinquish(r) ==
    /\ \/ /\ phase[r] = "held"
          /\ \E p \in {"leftover", "uncertain", "released"} :
                phase' = [phase EXCEPT ![r] = p]
       \/ /\ phase[r] = "leftover"
          /\ \E p \in {"uncertain", "released"} :
                phase' = [phase EXCEPT ![r] = p]
    /\ UNCHANGED published

Drop(r) ==
    /\ phase[r] \notin {"unborn", "gone"}
    /\ phase' = [phase EXCEPT ![r] = "gone"]
    /\ UNCHANGED published

Next == \E r \in Resources : Create(r) \/ Publish(r) \/ Relinquish(r) \/ Drop(r)

Spec == Init /\ [][Next]_vars
=============================================================================
