------------------------------ MODULE MCService ------------------------------
(***************************************************************************)
(* Values of Service's constants for TLC: a site, a top-up and a tool, all *)
(* at one price, so that a USDC authorisation fits each of them.           *)
(***************************************************************************)
EXTENDS Service, TLC

Prices == [r \in Resource |-> IF r = "/hello" THEN 1 ELSE NoPrice]

CallPrices == [r \in Tool |-> 1]

DcrOnly   == <<"dcr402">>
UsdcFirst == <<"x402", "dcr402">>

EveryCredential   == Credential
LightningProofs   == {Absent} \cup Lightning
DecredProofs      == LightningProofs \cup Onchain

(* A Decred payload with a malformed part is one the SDK cannot hold.      *)
ReadBySDK == {c \in Credential : c.kind \in {"evm", "lightning", "onchain", "otherNet", "foreign"}}

NoSignatures == [a \in Auth |-> NoSite]
Signatures   == [a \in Auth |-> [resource |-> "/hello", usd |-> 1]]

SymmetricRequests == Permutations(Request)
=============================================================================
