------------------------------ MODULE X402Rail ------------------------------
(***************************************************************************)
(* The USDC rail (rails/x402usdc): payments are verified and settled by a  *)
(* facilitator over HTTP, after a sync of the supported kinds that may     *)
(* fail at boot and is retried in the background.                          *)
(*                                                                         *)
(* The facilitator and the chain are outside the repository. A settlement  *)
(* may be executed and its answer lost; an authorisation that was executed *)
(* may be answered as settled again or refused.                            *)
(***************************************************************************)
EXTENDS Seam

CONSTANTS
    SignedFor,    \* the challenge the buyer signed each authorisation for
    SDKReads,     \* the credentials the SDK's PaymentPayload type can hold
    NamesTx       \* the facilitator names the transaction of every settlement

ASSUME SignedForAssumption == SignedFor \in [Auth -> ChallengeSpec]
ASSUME NamesTxAssumption == NamesTx \in BOOLEAN

(***************************************************************************)
(* An EVM payment is one the type can hold; the Decred payloads it cannot  *)
(* hold (a field of another JSON type than the SDK's) are a parameter.     *)
(***************************************************************************)
ASSUME SDKAssumption ==
    /\ Evm \subseteq SDKReads
    /\ SDKReads \subseteq {c \in Credential : c.kind \notin {"absent", "undecodable", "shapeless"}}

VARIABLES
    synced,       \* Initialize has succeeded in this process
    consumed      \* the authorisations executed on chain

x402Vars == <<synced, consumed>>

X402TypeOK ==
    /\ synced \in BOOLEAN
    /\ consumed \subseteq Auth

X402Init ==
    /\ synced \in BOOLEAN
    /\ consumed = {}

(* The verdict TrySettle reaches from the header alone: the whole payload  *)
(* is read into the SDK's type before its network is looked at.            *)
X402Demux(c) ==
    IF c.kind = "absent" THEN "leave"
    ELSE IF c \notin SDKReads THEN "refuse"
    ELSE IF c.kind = "evm" THEN "claim"
    ELSE "leave"

(* Mutation: the amount is not enforced.                                   *)
MatchesAny(c, s) == c.auth \in Auth

(* FindMatchingRequirements: the requirements carry the amount, the asset, *)
(* the network and the payee, and not the resource.                        *)
Matches(c, s) == SignedFor[c.auth].usd = s.usd

(* VerifyPayment may succeed only once the facilitator's kinds are known.  *)
VerifyCanSucceed == synced

(* SettlePayment. "ok" is what the rail is told, not what happened.        *)
SettlePayment(c, ok) ==
    /\ \/ consumed' = consumed \cup {c.auth}
       \/ ~ok /\ UNCHANGED consumed
    /\ UNCHANGED synced

(* Mutation: the payload's fingerprint is the reference.                   *)
UsdcRefsOfPayload(c) == {FingerprintRef(c)}

(* The reference TrySettle gives a settlement: its transaction, or the     *)
(* payload's fingerprint when the facilitator names none.                  *)
UsdcRefs(c) ==
    IF NamesTx THEN {TransactionRef(c)} ELSE {TransactionRef(c), FingerprintRef(c)}

(* retryInitialize's loop ends on the first success.                       *)
Sync ==
    /\ ~synced
    /\ synced' = TRUE
    /\ UNCHANGED consumed

(* New: the sync at boot succeeds or fails.                                *)
X402Restart ==
    /\ synced' \in BOOLEAN
    /\ UNCHANGED consumed

(* The seller has been paid this price.                                    *)
X402PaidFor(c, s) ==
    /\ c.auth \in consumed
    /\ SignedFor[c.auth].usd = s.usd
=============================================================================
