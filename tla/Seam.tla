-------------------------------- MODULE Seam --------------------------------
(***************************************************************************)
(* The vocabulary the composer and the rails share: the payment site a     *)
(* request is about, the credential its headers carry, and the external    *)
(* reference a settlement is billed under (seam/seam.go).                  *)
(*                                                                         *)
(* A URL, an amount, a payment hash, a deposit address, a transaction and  *)
(* a signed EVM authorisation are opaque values: the code only compares    *)
(* them.                                                                   *)
(***************************************************************************)
EXTENDS Integers, Sequences, FiniteSets

CONSTANTS
    Resource,     \* site URLs or paths
    USD,          \* amounts in USD micros
    Hash,         \* Lightning payment hashes
    Addr,         \* Decred deposit addresses
    Tx,           \* Decred transaction ids
    Auth,         \* EIP-3009 authorisations a buyer has signed
    Encoding      \* the bytes a USDC payload may be written in

(* The fields of a ChallengeSpec that some rail reads when it settles.     *)
ChallengeSpec == [resource : Resource, usd : USD]

(***************************************************************************)
(* What the Payment-Signature header holds. "good" says whether the        *)
(* Lightning payload carries the preimage of its hash; "raw" is how the    *)
(* buyer wrote a USDC payload down. "undecodable" is not base64 (per call: *)
(* the body is not JSON) and "shapeless" decodes to nothing a rail's types *)
(* hold; "otherNet" and "badDecred" are bip122 payloads of another network *)
(* and with a malformed part; "foreign" is on a network no rail serves.    *)
(***************************************************************************)
Lightning  == [kind : {"lightning"}, hash : Hash, good : BOOLEAN]
Onchain    == [kind : {"onchain"}, addr : Addr, tx : Tx]
Evm        == [kind : {"evm"}, auth : Auth, raw : Encoding]
Unclaimed  ==
    [kind : {"absent", "undecodable", "shapeless", "otherNet", "badDecred", "foreign"}]
Claimable  == Lightning \cup Onchain \cup Evm
Credential == Claimable \cup Unclaimed
Absent     == [kind |-> "absent"]

(***************************************************************************)
(* Settlement.ExternalRef; the prefix keeps the rails' references apart. A *)
(* USDC settlement is referred to by its transaction, of which every       *)
(* authorisation has one, or by a fingerprint of the payload's bytes.      *)
(***************************************************************************)
ExternalRef ==
    ({"lightning"} \X Hash) \cup ({"onchain"} \X Tx)
      \cup ({"evm"} \X Auth) \cup ({"fingerprint"} \X Auth \X Encoding)

NoRef == <<"none">>

(* Mutation: the reference carries the rest of the payload.                *)
DecredRefOfPayload(c) == <<c.kind, c>>

(* The payment hash, or the funding transaction.                           *)
DecredRef(c) ==
    IF c.kind = "lightning" THEN <<"lightning", c.hash>> ELSE <<"onchain", c.tx>>

TransactionRef(c) == <<"evm", c.auth>>
FingerprintRef(c) == <<"fingerprint", c.auth, c.raw>>

(* The money behind a reference.                                           *)
Payment == ({"lightning"} \X Hash) \cup ({"onchain"} \X Tx) \cup ({"evm"} \X Auth)

PaymentOf(r) == IF r[1] = "fingerprint" THEN <<"evm", r[2]>> ELSE r
=============================================================================
