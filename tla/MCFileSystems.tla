--------------------------- MODULE MCFileSystems ----------------------------
(* An instance of FileSystems. *)
EXTENDS FileSystems, TLC

CONSTANTS t1

MCUnlimited == 9
MCSteps == 4
Symmetric == Permutations(Systems)

\* One of the threads derives policies.  A request changes nothing that a
\* later step reads, so one request at the end of each history is enough.
\* Derivations and constructions are bounded together as well as each.
MCNext ==
    \/ /\ \A t \in Threads : job[t].stage = "idle"
       /\ Use
       /\ served' = served \/ served = None \/ served'.family = "cleanup"
    \/ /\ served = None
       /\ Configure(t1) \/ \E t \in Threads : Construct(t)
       /\ changes' + builds' <= MCSteps
MCSpec == Init /\ [][MCNext]_vars
=============================================================================
