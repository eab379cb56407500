---------------------------- MODULE MCNamespace ----------------------------
(* Instances of Namespace for TLC. *)
EXTENDS Namespace, TLC

MCSymmetry == Permutations(Clients) \cup Permutations(Paths)

\* Between two paths, each conflict policy with one combination of the
\* guarantees, and two copies that cannot be expressed.
Copies ==
    {q \in CopyRequest :
        /\ q.source # q.target
        /\ <<q.conflict, q.preserve, q.atomicity, q.durability, q.exotic>> \in
              {<<"Fail", "None", "NotRequired", "NotRequired", FALSE>>,
               <<"Overwrite", "Portable", "Required", "Required", FALSE>>,
               <<"Skip", "None", "Preferred", "Required", FALSE>>,
               <<"Fail", "None", "NotRequired", "NotRequired", TRUE>>,
               <<"Overwrite", "All", "NotRequired", "NotRequired", FALSE>>}}
Renames ==
    {q \in RenameRequest :
        /\ q.source # q.target
        /\ <<q.overwrite, q.durability>> \in {<<FALSE, "Required">>, <<TRUE, "NotRequired">>}}
Creates == {q \in CreateRequest : q.exotic => q.exists_ok /\ ~q.recursive}
Deletes == {q \in DeleteRequest : q.op = "delete_file" => ~q.recursive}

MCRequests == Copies \cup Renames \cup Creates \cup Deletes
=============================================================================
