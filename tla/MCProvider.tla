----------------------------- MODULE MCProvider -----------------------------
(* Small instances of Provider for TLC. *)
EXTENDS Provider, TLC

MCSymmetry == Permutations(Controls) \cup Permutations(Threads)

\* Every request is a sound one, and the root path stays what it is.
ReadyNext ==
    \/ \E p \in Providers : NewHost(p) \/ NewRooted(p)
    \/ \E t \in Threads : \/ Proceed(t)
                          \/ \E p \in Providers :
                                \/ StartControl(t, p)
                                \/ \E q \in Providers : StartClone(t, p, q)
                                \/ StartResolve(t, p, SoundConfig)
ReadySpec == Init /\ [][ReadyNext]_vars /\ CallsAdvance
=============================================================================
