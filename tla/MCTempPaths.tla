---------------------------- MODULE MCTempPaths -----------------------------
(* An instance of TempPaths: two directories, and a link to one of them. *)
EXTENDS TempPaths

MCDirs == {"a", "b"}
\* Flat, nested, unmappable, and one that looks like a path below "b".
MCLayouts == {<<"t">>, <<"n", "t">>, <<"bad">>, <<"b", "t">>}
MCBadNames == {"bad"}
=============================================================================
