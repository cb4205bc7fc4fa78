---------------------------- MODULE PerCallProofs ----------------------------
(***************************************************************************)
(* Theorems of PerCall: every step of a per-call surface is a step of a    *)
(* payment site, so that it inherits what PaymentSiteProofs proves of one. *)
(***************************************************************************)
EXTENDS PerCall, PaymentSiteProofs

(* A rail claims only payloads it can name a payment of.                   *)
LEMMA MCPDemuxClaims ==
  ASSUME NEW c \in Credential
  PROVE  /\ MCPDemux("dcr402", c) = "claim" => c \in Lightning
         /\ MCPDemux("x402", c) = "claim" => c \in Evm
  BY DEF MCPDemux, Credential, Claimable, Lightning, Onchain, Evm, Unclaimed,
     Dcr402MCPDemux, X402MCPDemux

LEMMA CallIsSiteStep ==
  ASSUME NEW q \in Request, NEW r \in Tool, NEW c \in Presented, Call(q, r, c)
  PROVE  Passes(q)
  <1>1. [resource |-> r, usd |-> CallPrice[r]] \in ChallengeSpec
    BY CallPriceAssumption, ToolAssumption DEF ChallengeSpec
  <1> QED
    BY <1>1 DEF Call, Passes

LEMMA HandleCallIsSiteStep ==
  ASSUME TypeOK, NEW q \in Request, HandleCall(q)
  PROVE  SiteStep(q)
  <1>1. cred[q] \in Credential
    BY DEF TypeOK, RequestTypeOK
  <1>2. CASE Unpaid(q) \/ LeaveCall(q) \/ NoRailClaimsCall(q)
    BY <1>2 DEF Unpaid, LeaveCall, NoRailClaimsCall, AtRail, SiteStep, Passes, Status
  <1>3. CASE RefuseCall(q) \/ CallRefused(q) \/ GateRefuses(q) \/ FacilitatorDeclines(q)
    BY <1>3 DEF RefuseCall, CallRefused, GateRefuses, FacilitatorDeclines, Refuse,
       SiteStep, Passes, Status
  <1>4. CASE FindOfferForCall(q) \/ MatchCall(q) \/ VerifyCall(q)
    BY <1>1, <1>4, MCPDemuxClaims DEF FindOfferForCall, MatchCall, Claims, AtRail,
       VerifyCall, SiteStep, Checks
  <1>5. CASE \/ WorkDone(q) \/ GateSettles(q) \/ SettleCallOnChain(q) \/ FacilitatorFails(q)
             \/ Bill(q) \/ Deliver(q)
    <2>1. SettleCallOnChain(q) => FacilitatorSettles(q, UsdcRefs(cred[q]))
      BY DEF SettleCallOnChain, FacilitatorSettles, UsdcRefs
    <2> QED
      BY <1>5, <2>1 DEF Deliver, SiteStep
  <1>6. CASE ChallengeCall(q)
    <2>1. PICK minted \in SUBSET Hash, offered \in SUBSET {Rails[i] : i \in 1 .. Len(Rails)} :
            /\ Mint(minted, spec[q])
            /\ Reply(q, IF offered = {} THEN "500" ELSE "402")
      BY <1>6 DEF ChallengeCall
    <2>2. \E offers \in SUBSET Offer : Mint(offers, spec[q])
      BY <2>1 DEF Offer
    <2>3. \E status \in Status \ {"200"} : Reply(q, status)
      BY <2>1 DEF Status
    <2> QED
      BY <1>6, <2>2, <2>3 DEF ChallengeCall, Mints, SiteStep
  <1> QED
    BY <1>2, <1>3, <1>4, <1>5, <1>6 DEF HandleCall

LEMMA CallNextIsSiteNext ==
  ASSUME TypeOK, CallNext
  PROVE  SiteNext
  BY CallIsSiteStep, HandleCallIsSiteStep DEF CallNext, SiteNext, SiteStep

(* The inductive invariant holds of every behaviour of PerCall.            *)
THEOREM CallInductive == CallSpec => []IInv
  <1>1. IInv /\ [CallNext]_vars => IInv'
    BY CallNextIsSiteNext, NextIInv, StutterIInv DEF IInv
  <1> QED
    BY <1>1, InitIInv, PTL DEF CallSpec

(* PerCall's behaviours are behaviours of a payment site.                  *)
THEOREM CallSpecIsSiteSpec == CallSpec => SiteSpec
  <1>1. IInv /\ [CallNext]_vars => [SiteNext]_vars
    BY CallNextIsSiteNext DEF IInv
  <1> QED
    BY <1>1, CallInductive, PTL DEF CallSpec, SiteSpec

(* Every variable of PerCall keeps its type.                               *)
THEOREM CallTypeCorrect == CallSpec => []TypeOK
  BY CallSpecIsSiteSpec, SiteTypeCorrect, PTL

(* Revenue booked and about to be is backed by a bill of the same          *)
(* reference, and of its own.                                              *)
THEOREM CallCreditsAreBacked == CallSpec => []CreditsBacked
  BY CallSpecIsSiteSpec, SiteCreditsBacked, PTL

(* A result is delivered only for a payment that was made: a Decred one    *)
(* for its tool and price, a USDC one for its price (any site's will do).  *)
THEOREM CallGrantsPaid == CallSpec => GrantsArePaid
  BY CallSpecIsSiteSpec, SiteGrantsPaid, PTL

(* A call is over in a bounded number of steps.                            *)
THEOREM CallHandlersEnd == CallSpec => HandlersTerminate
  BY CallSpecIsSiteSpec, SiteHandlersTerminate, PTL

(* A per-call surface implements the seller's ledger, reference by         *)
(* reference.                                                              *)
THEOREM CallLedgerImplemented == CallSpec => ImplementsLedger
  BY CallSpecIsSiteSpec, SiteRefinement, PTL

-----------------------------------------------------------------------------
(* The rails' demultiplexing.                                              *)

(* A rail passes on exactly what it does not own.                          *)
LEMMA MCPDemuxOwns ==
  ASSUME NEW rail \in RailName, NEW c \in Credential
  PROVE  MCPDemux(rail, c) = "leave" <=> ~OwnsCall(rail, c)
  BY DEF RailName, Credential, Claimable, Lightning, Onchain, Evm, Unclaimed, MCPDemux,
     OwnsCall, Dcr402MCPDemux, X402MCPDemux

LEMMA CallHandlerWalks ==
  ASSUME NEW q \in Request, TypeOK, HandleCall(q), CallWalksInOrder(q)
  PROVE  CallWalksInOrder(q)'
  <1> USE DEF TypeOK, RequestTypeOK
  <1>1. CASE Unpaid(q)
    BY <1>1 DEF Unpaid, CarriesPayment, Goto, CallWalksInOrder
  <1>2. CASE LeaveCall(q)
    <2>1. PICK rail \in RailName : AtRail(q, rail) /\ MCPDemux(rail, cred[q]) = "leave"
      BY <1>2 DEF LeaveCall
    <2>2. ~OwnsCall(Rails[at[q]], cred[q])
      BY <2>1, MCPDemuxOwns DEF AtRail
    <2>3. pc'[q] = "walk" /\ cred'[q] = cred[q] /\ at'[q] = at[q] + 1 /\ at[q] \in Nat
      BY <1>2, <2>1, RailsAssumption DEF LeaveCall, TryNextRail, AtRail
    <2> QED
      BY <2>1, <2>2, <2>3 DEF CallWalksInOrder, AtRail, OwnsCall, CarriesPayment
  <1>3. CASE FindOfferForCall(q) \/ MatchCall(q)
    <2>1. PICK rail \in RailName : AtRail(q, rail) /\ MCPDemux(rail, cred[q]) = "claim"
      BY <1>3 DEF FindOfferForCall, MatchCall, Claims, RailName
    <2>2. at[q] \in 1 .. Len(Rails) /\ OwnsCall(Rails[at[q]], cred[q])
      BY <2>1, MCPDemuxOwns, RailsAssumption DEF AtRail
    <2> QED
      BY <1>3, <2>2 DEF FindOfferForCall, MatchCall, OfferFound, RequirementsMet, Goto,
         CallWalksInOrder, OwnsCall, CarriesPayment
  <1>4. CASE VerifyCall(q) \/ WorkDone(q)
    BY <1>4 DEF VerifyCall, WorkDone, FacilitatorVerifies, Goto, CallWalksInOrder, OwnsCall,
       CarriesPayment
  <1>5. CASE GateSettles(q) \/ SettleCallOnChain(q) \/ Bill(q)
    BY <1>5 DEF GateSettles, SettleCallOnChain, FacilitatorSettles, Bill, Settled,
       CallWalksInOrder
  <1>6. CASE \/ RefuseCall(q) \/ NoRailClaimsCall(q) \/ CallRefused(q) \/ GateRefuses(q)
             \/ FacilitatorDeclines(q) \/ FacilitatorFails(q) \/ Deliver(q) \/ ChallengeCall(q)
    BY <1>6 DEF RefuseCall, NoRailClaimsCall, CallRefused, GateRefuses, FacilitatorDeclines,
       FacilitatorFails, Refuse, Deliver, Book, ChallengeCall, Reply, CallWalksInOrder
  <1> QED
    BY <1>1, <1>2, <1>3, <1>4, <1>5, <1>6 DEF HandleCall

(* A step of one call's handler keeps the others' walks in order.          *)
LEMMA OtherCallsDecide ==
  ASSUME NEW q \in Request, TypeOK, CallOwnersDecide, SiteStep(q),
         IsCall(q)' => CallWalksInOrder(q)'
  PROVE  CallOwnersDecide'
  <1>1. ASSUME NEW p \in Request, p # q, IsCall(p)' PROVE CallWalksInOrder(p)'
    <2>1. /\ pc'[p] = pc[p] /\ spec'[p] = spec[p]
          /\ cred'[p] = cred[p] /\ at'[p] = at[p]
      BY <1>1, OthersUntouched
    <2>2. CallWalksInOrder(p)
      BY <1>1, <2>1 DEF CallOwnersDecide, IsCall
    <2> QED
      BY <2>1, <2>2 DEF CallWalksInOrder, OwnsCall, CarriesPayment
  <1> QED
    BY <1>1 DEF CallOwnersDecide

(* A call arrives, or its handler takes a step.                            *)
CallSteps(q) ==
  (\E r \in Tool, c \in Presented : Call(q, r, c)) \/ HandleCall(q)

LEMMA CallStepIsSiteStep ==
  ASSUME TypeOK, NEW q \in Request, CallSteps(q)
  PROVE  SiteStep(q)
  BY CallIsSiteStep, HandleCallIsSiteStep DEF CallSteps, SiteStep

LEMMA CallStepOwnersDecide ==
  ASSUME NEW q \in Request, TypeOK, CallOwnersDecide, CallSteps(q)
  PROVE  CallOwnersDecide'
  <1>1. CASE \E r \in Tool, c \in Presented : Call(q, r, c)
    <2>1. CallWalksInOrder(q)'
      BY <1>1 DEF Call, Start, CallWalksInOrder, TypeOK, RequestTypeOK
    <2> QED
      BY <2>1, CallStepIsSiteStep, OtherCallsDecide
  <1>2. CASE HandleCall(q)
    <2>1. CallWalksInOrder(q)
      BY <1>2 DEF HandleCall, CallOwnersDecide
    <2> QED
      BY <1>2, <2>1, CallHandlerWalks, CallStepIsSiteStep, OtherCallsDecide
  <1> QED
    BY <1>1, <1>2 DEF CallSteps

LEMMA EnvironmentCallOwnersDecide ==
  ASSUME TypeOK, CallOwnersDecide, Environment \/ UNCHANGED vars
  PROVE  CallOwnersDecide'
  <1>1. CASE UNCHANGED requestVars
    BY <1>1 DEF requestVars, CallOwnersDecide, IsCall, CallWalksInOrder, OwnsCall,
       CarriesPayment
  <1>2. CASE Restart
    BY <1>2 DEF Restart, CallOwnersDecide, CallWalksInOrder
  <1> QED
    BY <1>1, <1>2 DEF Environment, BuyerPays, BuyerDeposits, ChainConfirms,
       OfferExpires, RetryInitialize, vars

LEMMA NextCallOwnersDecide ==
  ASSUME TypeOK, CallOwnersDecide, [CallNext]_vars
  PROVE  CallOwnersDecide'
  BY CallStepOwnersDecide, EnvironmentCallOwnersDecide DEF CallNext, CallSteps

(* What a call is answered with shows whose payment it carried.            *)
CallOwnerAnswers(q) ==
  /\ (Answers(q, "402") \/ Answers(q, "500")) => ~CarriesPayment(cred[q])
  /\ Answers(q, "401") => OwnsCall(Rails[at[q]], cred[q])
  /\ Answers(q, "400") => \A i \in 1 .. Len(Rails) : ~OwnsCall(Rails[i], cred[q])

LEMMA CallHandlerAnswers ==
  ASSUME TypeOK, CallOwnersDecide, NEW q \in Request, HandleCall(q)
  PROVE  CallOwnerAnswers(q)
  <1> USE DEF TypeOK, RequestTypeOK, Answers, CallOwnerAnswers
  <1>0. CallWalksInOrder(q)
    BY DEF HandleCall, CallOwnersDecide
  <1>1. CASE ChallengeCall(q)
    BY <1>0, <1>1 DEF ChallengeCall, Reply, CallWalksInOrder
  <1>2. CASE GateRefuses(q) \/ FacilitatorDeclines(q) \/ FacilitatorFails(q)
    BY <1>0, <1>2 DEF GateRefuses, FacilitatorDeclines, FacilitatorFails, Refuse, Reply,
       CallWalksInOrder
  <1>3. CASE RefuseCall(q) \/ CallRefused(q)
    <2>1. PICK rail \in RailName : AtRail(q, rail) /\ MCPDemux(rail, cred[q]) # "leave"
      BY <1>3 DEF RefuseCall, CallRefused, Claims
    <2>2. OwnsCall(Rails[at[q]], cred[q])
      BY <2>1, MCPDemuxOwns DEF AtRail
    <2>3. answer'[q] = "401"
      BY <1>3 DEF RefuseCall, CallRefused, Refuse, Reply
    <2> QED
      BY <2>2, <2>3
  <1>4. CASE NoRailClaimsCall(q)
    <2>1. \A i \in 1 .. Len(Rails) : i \in 1 .. at[q] - 1
      BY <1>4, RailsAssumption DEF NoRailClaimsCall, WalkEnded
    <2>2. answer'[q] = "400"
      BY <1>4 DEF NoRailClaimsCall, Reply
    <2> QED
      BY <1>0, <1>4, <2>1, <2>2 DEF NoRailClaimsCall, WalkEnded, CallWalksInOrder
  <1>5. CASE \/ Unpaid(q) \/ LeaveCall(q) \/ FindOfferForCall(q) \/ MatchCall(q)
             \/ VerifyCall(q) \/ WorkDone(q) \/ GateSettles(q) \/ SettleCallOnChain(q)
             \/ Bill(q)
    BY <1>5 DEF Unpaid, LeaveCall, AtRail, FindOfferForCall, MatchCall, VerifyCall, WorkDone,
       GateSettles, SettleCallOnChain, FacilitatorSettles, Bill, TryNextRail, Goto, Settled,
       OfferFound, RequirementsMet, FacilitatorVerifies
  <1>6. CASE Deliver(q)
    BY <1>6 DEF Deliver, Book, Reply
  <1> QED
    BY <1>1, <1>2, <1>3, <1>4, <1>5, <1>6 DEF HandleCall

LEMMA CallStepAnswers ==
  ASSUME TypeOK, CallOwnersDecide, NEW q \in Request, CallSteps(q)
  PROVE  CallOwnerAnswers(q)
  <1>1. CASE \E r \in Tool, c \in Presented : Call(q, r, c)
    BY <1>1 DEF Call, Start, Answers, CallOwnerAnswers, TypeOK, RequestTypeOK
  <1> QED
    BY <1>1, CallHandlerAnswers DEF CallSteps

LEMMA OtherCallsQuiet ==
  ASSUME TypeOK, NEW q \in Request,
         Environment \/ \E p \in Request : p # q /\ SiteStep(p)
  PROVE  CallOwnerAnswers(q)
  <1>1. \A status \in {"400", "401", "402", "500"} : ~Answers(q, status)
    BY OthersQuiet DEF Status
  <1> QED
    BY <1>1 DEF CallOwnerAnswers

LEMMA CallOwnersAnswer ==
  ASSUME TypeOK, CallOwnersDecide, CallNext, NEW q \in Request
  PROVE  CallOwnerAnswers(q)
  <1>1. Environment \/ \E p \in Request : CallSteps(p)
    BY DEF CallNext, CallSteps
  <1> QED
    BY <1>1, CallStepAnswers, OtherCallsQuiet, CallStepIsSiteStep

(* Whatever the order of the rails, a call with a payment is not answered  *)
(* with a challenge, its payment is refused by its owner only, and "no     *)
(* rail claims this" is the answer to a payload without an owner.          *)
THEOREM CallOwnershipRespected == CallSpec => CallAnswersMatchOwnership
  <1>1. Init => CallOwnersDecide
    BY DEF Init, CallOwnersDecide, CallWalksInOrder
  <1>2. TypeOK /\ CallOwnersDecide /\ [CallNext]_vars => CallOwnersDecide'
    BY NextCallOwnersDecide
  <1>3. TypeOK /\ CallOwnersDecide /\ [CallNext]_vars =>
          [\A q \in Request : IsCall(q) =>
             /\ (Answers(q, "402") \/ Answers(q, "500")) => ~CarriesPayment(cred[q])
             /\ Answers(q, "401") => OwnsCall(Rails[at[q]], cred[q])
             /\ Answers(q, "400") =>
                   \A i \in 1 .. Len(Rails) : ~OwnsCall(Rails[i], cred[q])]_vars
    BY CallOwnersAnswer DEF CallOwnerAnswers
  <1> QED
    BY <1>1, <1>2, <1>3, CallTypeCorrect, PTL DEF CallSpec, CallAnswersMatchOwnership
=============================================================================
