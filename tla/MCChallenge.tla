----------------------------- MODULE MCChallenge -----------------------------
(***************************************************************************)
(* Values of Challenge's constants for TLC: the two rails of the           *)
(* repository and a third, with extensions that overlap, as the seam       *)
(* allows.                                                                 *)
(***************************************************************************)
EXTENDS Challenge, TLC

ThreeRails == ("dcr402" :> {"bazaar"}) @@ ("x402" :> {"bazaar", "info"}) @@ ("third" :> {"info"})
=============================================================================
