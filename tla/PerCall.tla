------------------------------- MODULE PerCall -------------------------------
(***************************************************************************)
(* seam.PerCall under concurrent calls, as cmd/exampled's perCallHandler   *)
(* drives it: no payment, a merged challenge; a payment, verify, run the   *)
(* work, settle, and only then deliver the result. Sites are tools, and a  *)
(* payment is bound to its tool's key.                                     *)
(***************************************************************************)
EXTENDS PaymentSite

CONSTANT CallPrice    \* the price of each tool

ASSUME CallPriceAssumption == CallPrice \in [Tool -> USD]

-----------------------------------------------------------------------------
(* Verify: the walk over the rails' MCPVerify.                             *)

(* The payload is a field of the call's JSON body.                         *)
Call(q, r, c) ==
    /\ Presentable(c)
    /\ Start(q, [resource |-> r, usd |-> CallPrice[r]], c)

(* A body that does not decode carries no payment: the error is dropped.   *)
CarriesPayment(c) == c.kind \notin {"absent", "undecodable"}

(* No payment: the rails' MCPVerify is not asked.                          *)
Unpaid(q) ==
    /\ pc[q] = "walk"
    /\ ~CarriesPayment(cred[q])
    /\ Goto(q, "challenge")
    /\ UNCHANGED restVars

(* Mutation: the Decred rail refuses what it cannot read.                  *)
Dcr402MCPDemuxRefusesUnreadable(c) ==
    IF c.kind = "lightning" THEN "claim"
    ELSE IF c.kind \in {"shapeless", "otherNet", "badDecred", "onchain"} THEN "refuse"
    ELSE "leave"

(* Per-call payments are Lightning only; what the rail cannot parse is     *)
(* left for the next one.                                                  *)
Dcr402MCPDemux(c) ==
    IF c.kind = "lightning" THEN "claim"
    ELSE IF c.kind \in {"otherNet", "badDecred", "onchain"} THEN "refuse"
    ELSE "leave"

(* Here the USDC rail leaves what it cannot read, whatever its network.    *)
X402MCPDemux(c) == IF c.kind = "evm" THEN "claim" ELSE "leave"

MCPDemux(rail, c) == IF rail = "dcr402" THEN Dcr402MCPDemux(c) ELSE X402MCPDemux(c)

LeaveCall(q) ==
    /\ CarriesPayment(cred[q])
    /\ \E rail \in RailName : AtRail(q, rail) /\ MCPDemux(rail, cred[q]) = "leave"
    /\ TryNextRail(q)

RefuseCall(q) ==
    /\ \E rail \in RailName : AtRail(q, rail) /\ MCPDemux(rail, cred[q]) = "refuse"
    /\ Refuse(q)

(* ErrNoRail.                                                              *)
NoRailClaimsCall(q) ==
    /\ WalkEnded(q)
    /\ CarriesPayment(cred[q])
    /\ Reply(q, "400")
    /\ UNCHANGED restVars

Claims(q, rail) == AtRail(q, rail) /\ MCPDemux(rail, cred[q]) = "claim"

(* The offer is known and was minted for this call. The preimage is not    *)
(* looked at.                                                              *)
FindOfferForCall(q) == Claims(q, "dcr402") /\ OfferFound(q, "run")

MatchCall(q) == Claims(q, "x402") /\ RequirementsMet(q)

(* No such offer, another tool or price, or the rail's own failure.        *)
CallRefused(q) == (\E rail \in RailName : Claims(q, rail)) /\ Refuse(q)

(* Mutation: the payment is billed once it is verified, and never settled. *)
VerifyCallOnly(q) ==
    /\ pc[q] = "verify"
    /\ VerifyCanSucceed
    /\ Settled(q, TransactionRef(cred[q]))
    /\ UNCHANGED restVars

VerifyCall(q) == FacilitatorVerifies(q, "run")

-----------------------------------------------------------------------------
(* After the work: Settle and deliver. A failed settle withholds the       *)
(* result with 401: GateRefuses and FacilitatorFails, which here includes  *)
(* a settlement the facilitator reports without a transaction.             *)

SettleCallOnChain(q) == FacilitatorSettles(q, {TransactionRef(cred[q])})

(* Mutation: a replayed payment counts as revenue.                         *)
DeliverReplays(q) == Book(q, TRUE)

(* Mutation: a replayed payment is refused.                                *)
DeliverFirstOnly(q) ==
    \/ first[q] /\ Book(q, TRUE)
    \/ pc[q] = "serve" /\ ~first[q] /\ Refuse(q)

(* The result, and whether it was billed.                                  *)
Deliver(q) == Book(q, first[q])

(***************************************************************************)
(* challenge: every rail mints, the ones that fail are left out, and only  *)
(* when none is left is there no challenge.                                *)
(***************************************************************************)
ChallengeCall(q) ==
    /\ pc[q] = "challenge"
    /\ \E minted \in SUBSET Hash, offered \in SUBSET {Rails[i] : i \in 1 .. Len(Rails)} :
        /\ Cardinality(minted) <= 1
        /\ minted # {} <=> "dcr402" \in offered
        /\ Mint(minted, spec[q])
        /\ Reply(q, IF offered = {} THEN "500" ELSE "402")
    /\ UNCHANGED <<ledgerVars, x402Vars, lives>>

-----------------------------------------------------------------------------
HandleCall(q) ==
    /\ IsCall(q)
    /\ \/ Unpaid(q) \/ LeaveCall(q) \/ RefuseCall(q) \/ NoRailClaimsCall(q)
       \/ FindOfferForCall(q) \/ MatchCall(q) \/ CallRefused(q)
       \/ VerifyCall(q) \/ FacilitatorDeclines(q)
       \/ WorkDone(q)
       \/ GateSettles(q) \/ GateRefuses(q)
       \/ SettleCallOnChain(q) \/ FacilitatorFails(q)
       \/ Bill(q) \/ Deliver(q)
       \/ ChallengeCall(q)

CallNext ==
    \/ \E q \in Request, r \in Tool, c \in Presented : Call(q, r, c)
    \/ \E q \in Request : HandleCall(q)
    \/ Environment

CallSpec == Init /\ [][CallNext]_vars

-----------------------------------------------------------------------------
(***************************************************************************)
(* A call that carries a payment is never answered with a challenge; it is *)
(* refused by the rail that owns its payload and no other; and "no rail    *)
(* claims this" is said only of payloads that no composed rail owns. All   *)
(* hold whatever the order of the rails.                                   *)
(***************************************************************************)
OwnsCall(rail, c) ==
    \/ rail = "dcr402" /\ c.kind \in {"otherNet", "badDecred", "lightning", "onchain"}
    \/ rail = "x402" /\ c.kind = "evm"

CallAnswersMatchOwnership ==
    [][\A q \in Request : IsCall(q) =>
        /\ (Answers(q, "402") \/ Answers(q, "500")) => ~CarriesPayment(cred[q])
        /\ Answers(q, "401") => OwnsCall(Rails[at[q]], cred[q])
        /\ Answers(q, "400") =>
              \A i \in 1 .. Len(Rails) : ~OwnsCall(Rails[i], cred[q])]_vars

(* The invariant behind it.                                                *)
CallWalksInOrder(q) ==
    /\ pc[q] = "walk" => \A i \in 1 .. at[q] - 1 : ~OwnsCall(Rails[i], cred[q])
    /\ pc[q] = "challenge" => ~CarriesPayment(cred[q])
    /\ pc[q] \in {"gate", "verify", "run", "settle"} =>
          at[q] \in 1 .. Len(Rails) /\ OwnsCall(Rails[at[q]], cred[q])

CallOwnersDecide == \A q \in Request : IsCall(q) => CallWalksInOrder(q)

(***************************************************************************)
(* "A present-but-invalid payment surfaces as the rail's error" of Verify, *)
(* before the work: checked by a run that finds it violated.               *)
(***************************************************************************)
WorkIsForValidPayments ==
    \A q \in Request : (pc[q] = "run" /\ cred[q] \in Lightning) => cred[q].good

-----------------------------------------------------------------------------
(***************************************************************************)
(* Liveness. A call's goroutine keeps running, its work ends, a buyer who  *)
(* paid for a call keeps presenting the proof for it and sometimes finds a *)
(* free slot, and the store and the gate do not fail forever.              *)
(***************************************************************************)
CallRetries(c) ==
    \E q \in Request, r \in Tool :
        bound[OfferOf(c)] = <<r, CallPrice[r]>> /\ Call(q, r, c)

CallFinds(c)   == \E q \in Request : IsCall(q) /\ cred[q] = c /\ FindOfferForCall(q)
CallSettles(c) == \E q \in Request : cred[q] = c /\ GateSettles(q)

Proofs == {c \in Presented : c \in Lightning /\ c.good}

CallBuyers ==
    \A c \in Proofs : SF_vars(CallRetries(c)) /\ SF_vars(CallFinds(c)) /\ SF_vars(CallSettles(c))

CallFairSpec == CallSpec /\ CallBuyers /\ \A q \in Request : WF_vars(HandleCall(q))

(***************************************************************************)
(* A paid call delivers its result, and delivers it again as often as the  *)
(* proof is presented: a result withheld by a failed settle, or billed and *)
(* cut off before it was sent, is not lost to the buyer, although the      *)
(* guard answers "first time" for it once in each life at most.            *)
(***************************************************************************)
PaidCallDelivered ==
    \A c \in Proofs :
        <>(c.hash \in paid) =>
            []<><<\E q \in Request : cred[q] = c /\ Answers(q, "200")>>_vars
=============================================================================
