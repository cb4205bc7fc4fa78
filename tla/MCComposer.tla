----------------------------- MODULE MCComposer -----------------------------
(***************************************************************************)
(* Values of Composer's constants for TLC: two sites at the same price, a  *)
(* path that is not sold, and the top-up at two amounts.                   *)
(***************************************************************************)
EXTENDS Composer, TLC

Prices == [r \in Resource |-> CASE r = "/hello" -> 1
                                [] r = "/other" -> 1
                                [] OTHER -> NoPrice]

DcrOnly   == <<"dcr402">>
UsdcOnly  == <<"x402">>

LightningProofs == {Absent} \cup Lightning
OnchainProofs   == {Absent} \cup Onchain
UsdcProofs      == {Absent} \cup Evm

(* A Decred payload with a malformed part is one the SDK cannot hold.      *)
ReadBySDK == {c \in Credential : c.kind \in {"evm", "lightning", "onchain", "otherNet", "foreign"}}

NoSignatures == [a \in Auth |-> NoSite]
Signatures ==
    [a \in Auth |-> [resource |-> "/hello", usd |-> IF a = "a1" THEN 1 ELSE 2]]

SymmetricRequests == Permutations(Request)
Symmetric         == SymmetricRequests \cup Permutations(Hash)
=============================================================================
