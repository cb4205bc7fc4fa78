---------------------------- MODULE MCCachedRate ----------------------------
(***************************************************************************)
(* Values of CachedRate's constants for TLC: no amount at all, amounts     *)
(* below and above the dust floor, and rates that do not divide them. The  *)
(* larger amount fits in MaxAtoms at the higher rate, and overflows it at  *)
(* the lower one.                                                          *)
(***************************************************************************)
EXTENDS CachedRate

Amounts == {0, 7, 25000}
Rates   == {17, 41}
OtherRates == {29}
=============================================================================
