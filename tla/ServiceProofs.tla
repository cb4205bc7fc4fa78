----------------------------- MODULE ServiceProofs -----------------------------
(***************************************************************************)
(* Theorems of Service: what ComposerProofs and PerCallProofs prove of one *)
(* surface alone holds of the service that offers both over shared rails,  *)
(* a shared store and a shared guard.                                      *)
(***************************************************************************)
EXTENDS Service, ComposerProofs, PerCallProofs

(* A web step concerns a site that is not a tool.                          *)
WebSteps(q) == Arrive(q) \/ Handle(q)

LEMMA ServiceStepIsOneOf ==
  ASSUME NEW q \in Request, ServiceArrive(q) \/ ServiceHandle(q)
  PROVE  WebSteps(q) \/ CallSteps(q)
  BY DEF ServiceArrive, ServiceHandle, WebSteps, CallSteps

LEMMA WebStepIsSiteStep ==
  ASSUME TypeOK, NEW q \in Request, WebSteps(q)
  PROVE  SiteStep(q)
  BY ArriveIsSiteStep, HandleIsSiteStep DEF WebSteps, SiteStep

LEMMA ServiceNextIsSiteNext ==
  ASSUME TypeOK, ServiceNext
  PROVE  SiteNext
  BY ServiceStepIsOneOf, WebStepIsSiteStep, CallStepIsSiteStep DEF ServiceNext, SiteNext

(* The inductive invariant holds of every behaviour of a service.          *)
THEOREM ServiceInductive == ServiceSpec => []IInv
  <1>1. IInv /\ [ServiceNext]_vars => IInv'
    BY ServiceNextIsSiteNext, NextIInv, StutterIInv DEF IInv
  <1> QED
    BY <1>1, InitIInv, PTL DEF ServiceSpec

(* A service that sells both ways is a payment site.                       *)
THEOREM ServiceSpecIsSiteSpec == ServiceSpec => SiteSpec
  <1>1. IInv /\ [ServiceNext]_vars => [SiteNext]_vars
    BY ServiceNextIsSiteNext DEF IInv
  <1> QED
    BY <1>1, ServiceInductive, PTL DEF ServiceSpec, SiteSpec

(* Every variable of the service keeps its type.                           *)
THEOREM ServiceTypeCorrect == ServiceSpec => []TypeOK
  BY ServiceSpecIsSiteSpec, SiteTypeCorrect, PTL

(* The shared guard admits a reference once in each life of the process,   *)
(* or once ever when it is durable, on whichever surface it is presented.  *)
THEOREM ServiceBillsOnce == ServiceSpec => []BillOnce
  BY ServiceSpecIsSiteSpec, SiteBillsOnce, PTL

(* With a facilitator that names the transaction of what it settles, a     *)
(* payment has one reference on both surfaces, so that the shared guard    *)
(* bounds the bills of the payment.                                        *)
THEOREM ServiceOneReference == NamesTx => (ServiceSpec => []OneReferencePerPayment)
  BY ServiceSpecIsSiteSpec, SiteOneReference, PTL

(* A reference presented as a top-up and as a call is booked by one. Of a  *)
(* payment with one reference (ServiceOneReference) this is revenue once.  *)
THEOREM ServiceCreditsAreBacked == ServiceSpec => []CreditsBacked
  BY ServiceSpecIsSiteSpec, SiteCreditsBacked, PTL

(* What either surface grants was paid: a Decred payment for this very     *)
(* site and price, so that an invoice of one surface buys nothing on the   *)
(* other; a USDC payment for this price, which may buy on the other.       *)
THEOREM ServiceGrantsPaid == ServiceSpec => GrantsArePaid
  BY ServiceSpecIsSiteSpec, SiteGrantsPaid, PTL

(* A handler of either surface is over in a bounded number of steps, never *)
(* walks back to a rail and never verifies or settles a second time.       *)
THEOREM ServiceHandlersEnd == ServiceSpec => HandlersTerminate
  BY ServiceSpecIsSiteSpec, SiteHandlersTerminate, PTL

(* The two surfaces together implement one seller's ledger, reference by   *)
(* reference.                                                              *)
THEOREM ServiceLedgerImplemented == ServiceSpec => ImplementsLedger
  BY ServiceSpecIsSiteSpec, SiteRefinement, PTL

-----------------------------------------------------------------------------
(* The surfaces keep out of each other's walks.                            *)

(* A web step leaves no call behind that has walked, and the reverse.      *)
LEMMA WebStepSite ==
  ASSUME TypeOK, NEW q \in Request, WebSteps(q), IsCall(q)'
  PROVE  pc'[q] = "idle"
  <1> USE DEF TypeOK, RequestTypeOK
  <1>1. CASE Arrive(q)
    BY <1>1, TopupAssumption DEF Arrive, Require, RequireUnpriced, Topup, TopupOutOfRange,
       Start, Reply, IsCall
  <1>2. CASE Handle(q)
    <2>1. ~IsCall(q) /\ pc[q] # "idle"
      BY <1>2 DEF Handle, LeaveToNextRail, RefuseUnreadable, NoRailClaims, WalkEnded, AtRail,
         FindOffer, OfferRefused, Dcr402Claims, GateSettles, GatePending, GateRefuses,
         MatchRequirements, RequirementsRefused, X402Claims, Verify, FacilitatorVerifies,
         FacilitatorDeclines, SettleOnChain, FacilitatorSettles, FacilitatorFails, Bill, Serve,
         Credit, Book, WriteChallenge, WriteTopup, WriteTopupFails
    <2> QED
      BY <1>2, <2>1, HandleIsSiteStep, SiteKept DEF IsCall
  <1> QED
    BY <1>1, <1>2 DEF WebSteps

LEMMA CallStepSite ==
  ASSUME TypeOK, NEW q \in Request, CallSteps(q), ~IsCall(q)'
  PROVE  pc'[q] = "idle"
  <1> USE DEF TypeOK, RequestTypeOK
  <1>1. CASE \E r \in Tool, c \in Presented : Call(q, r, c)
    BY <1>1 DEF Call, Start, IsCall
  <1>2. CASE HandleCall(q)
    <2>1. IsCall(q) /\ pc[q] # "idle"
      BY <1>2 DEF HandleCall, Unpaid, LeaveCall, RefuseCall, NoRailClaimsCall, WalkEnded,
         AtRail, FindOfferForCall, MatchCall, CallRefused, Claims, VerifyCall,
         FacilitatorVerifies, FacilitatorDeclines, WorkDone, GateSettles, GateRefuses,
         SettleCallOnChain, FacilitatorSettles, FacilitatorFails, Bill, Deliver, Book,
         ChallengeCall
    <2> QED
      BY <1>2, <2>1, HandleCallIsSiteStep, SiteKept DEF IsCall
  <1> QED
    BY <1>1, <1>2 DEF CallSteps

LEMMA WebStepKeepsCalls ==
  ASSUME TypeOK, NEW q \in Request, WebSteps(q), CallOwnersDecide
  PROVE  CallOwnersDecide'
  <1>1. IsCall(q)' => CallWalksInOrder(q)'
    BY WebStepSite DEF CallWalksInOrder
  <1> QED
    BY <1>1, WebStepIsSiteStep, OtherCallsDecide

LEMMA CallStepKeepsWeb ==
  ASSUME TypeOK, NEW q \in Request, CallSteps(q), OwnersDecide
  PROVE  OwnersDecide'
  <1>1. ~IsCall(q)' => WalksInOrder(q)'
    BY CallStepSite DEF WalksInOrder
  <1> QED
    BY <1>1, CallStepIsSiteStep, OthersDecide

LEMMA ServiceOwnersDecide ==
  ASSUME TypeOK, OwnersDecide, CallOwnersDecide, [ServiceNext]_vars
  PROVE  OwnersDecide' /\ CallOwnersDecide'
  <1>1. CASE Environment \/ UNCHANGED vars
    BY <1>1, EnvironmentOwnersDecide, EnvironmentCallOwnersDecide
  <1>2. ASSUME NEW q \in Request, WebSteps(q)
        PROVE  OwnersDecide' /\ CallOwnersDecide'
    BY <1>2, WebOwnersDecide, WebStepKeepsCalls DEF WebSteps
  <1>3. ASSUME NEW q \in Request, CallSteps(q)
        PROVE  OwnersDecide' /\ CallOwnersDecide'
    BY <1>3, CallStepOwnersDecide, CallStepKeepsWeb
  <1> QED
    BY <1>1, <1>2, <1>3, ServiceStepIsOneOf DEF ServiceNext

(* Each surface answers its own requests.                                  *)
LEMMA WebStepAnswers ==
  ASSUME TypeOK, OwnersDecide, NEW q \in Request, WebSteps(q)
  PROVE  OwnerAnswers(q) /\ (IsCall(q) => CallOwnerAnswers(q))
  <1>1. OwnerAnswers(q)
    BY ArrivalAnswers, HandlerAnswers DEF WebSteps
  <1>2. ASSUME IsCall(q) PROVE CallOwnerAnswers(q)
    <2>1. Arrive(q)
      BY <1>2 DEF WebSteps, Handle
    <2>2. pc[q] = "idle"
      BY <2>1 DEF Arrive, Require, RequireUnpriced, Topup, TopupOutOfRange, Start
    <2> QED
      BY <2>2 DEF CallOwnerAnswers, Answers
  <1> QED
    BY <1>1, <1>2

LEMMA CallStepAnswersCalls ==
  ASSUME TypeOK, CallOwnersDecide, NEW q \in Request, CallSteps(q)
  PROVE  CallOwnerAnswers(q) /\ (~IsCall(q) => OwnerAnswers(q))
  <1>1. CallOwnerAnswers(q)
    BY CallStepAnswers
  <1>2. ASSUME ~IsCall(q) PROVE OwnerAnswers(q)
    <2>1. PICK r \in Tool, c \in Presented : Call(q, r, c)
      BY <1>2 DEF CallSteps, HandleCall
    <2>2. pc[q] = "idle"
      BY <2>1 DEF Call, Start
    <2> QED
      BY <2>2 DEF OwnerAnswers, Answers
  <1> QED
    BY <1>1, <1>2

LEMMA ServiceAnswers ==
  ASSUME TypeOK, OwnersDecide, CallOwnersDecide, ServiceNext, NEW q \in Request
  PROVE  /\ ~IsCall(q) => OwnerAnswers(q)
         /\ IsCall(q) => CallOwnerAnswers(q)
  <1>1. CASE WebSteps(q)
    BY <1>1, WebStepAnswers
  <1>2. CASE CallSteps(q)
    BY <1>2, CallStepAnswersCalls
  <1>3. CASE Environment \/ \E p \in Request : p # q /\ SiteStep(p)
    <2>1. ~Answers(q, "402") /\ ~Answers(q, "401")
      BY <1>3, OthersQuiet DEF Status
    <2> QED
      BY <1>3, <2>1, OtherCallsQuiet DEF OwnerAnswers
  <1>4. Environment \/ \E p \in Request : WebSteps(p) \/ CallSteps(p)
    BY ServiceStepIsOneOf DEF ServiceNext
  <1> QED
    BY <1>1, <1>2, <1>3, <1>4, WebStepIsSiteStep, CallStepIsSiteStep

(* Beside the calls, a web request's challenge and refusals still follow   *)
(* the ownership of its header; and beside the web requests, a call's      *)
(* follow that of its payload.                                             *)
THEOREM ServiceOwnershipRespected ==
  ServiceSpec => AnswerMatchesOwnership /\ CallAnswersMatchOwnership
  <1>1. Init => OwnersDecide /\ CallOwnersDecide
    BY DEF Init, OwnersDecide, WalksInOrder, CallOwnersDecide, CallWalksInOrder
  <1>2. /\ TypeOK /\ OwnersDecide /\ CallOwnersDecide
        /\ [ServiceNext]_vars
        => OwnersDecide' /\ CallOwnersDecide'
    BY ServiceOwnersDecide
  <1>3. TypeOK /\ OwnersDecide /\ CallOwnersDecide /\ [ServiceNext]_vars =>
          [\A q \in Request : ~IsCall(q) =>
             /\ Answers(q, "402") => \A i \in 1 .. Len(Rails) : ~Owns(Rails[i], cred[q])
             /\ Answers(q, "401") => Owns(Rails[at[q]], cred[q])]_vars
    BY ServiceAnswers DEF OwnerAnswers
  <1>4. TypeOK /\ OwnersDecide /\ CallOwnersDecide /\ [ServiceNext]_vars =>
          [\A q \in Request : IsCall(q) =>
             /\ (Answers(q, "402") \/ Answers(q, "500")) => ~CarriesPayment(cred[q])
             /\ Answers(q, "401") => OwnsCall(Rails[at[q]], cred[q])
             /\ Answers(q, "400") =>
                   \A i \in 1 .. Len(Rails) : ~OwnsCall(Rails[i], cred[q])]_vars
    BY ServiceAnswers DEF CallOwnerAnswers
  <1> QED
    BY <1>1, <1>2, <1>3, <1>4, ServiceTypeCorrect, PTL
       DEF ServiceSpec, AnswerMatchesOwnership, CallAnswersMatchOwnership
=============================================================================
