--------------------------- MODULE MCReadSession ----------------------------
(* An instance of ReadSession: i64::MAX is 3 and u64::MAX is 5. *)
EXTENDS ReadSession

MCIMax == 3
MCUMax == 5
=============================================================================
