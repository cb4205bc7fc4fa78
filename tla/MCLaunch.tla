------------------------------ MODULE MCLaunch ------------------------------
(***************************************************************************)
(* Values of Launch's constants for TLC: two indexes, in units of five     *)
(* seconds: 15 s to sync, 15 s to list, 30 s to submit.                    *)
(***************************************************************************)
EXTENDS Launch

TwoIndexes == <<"i1", "i2">>
=============================================================================
