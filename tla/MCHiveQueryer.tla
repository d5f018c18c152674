--------------------------- MODULE MCHiveQueryer ---------------------------
(* Model-checking instance of HiveQueryer; the cfg files choose the        *)
(* callers and bounds.                                                     *)
EXTENDS HiveQueryer, TLC
=============================================================================
