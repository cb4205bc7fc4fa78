---------------------------- MODULE ComposerProofs ----------------------------
(***************************************************************************)
(* Theorems of Composer: every step of a composer is a step of a payment   *)
(* site, so that it inherits what PaymentSiteProofs proves of one.         *)
(***************************************************************************)
EXTENDS Composer, PaymentSiteProofs

(* A rail claims only credentials it can name a payment of.                *)
LEMMA DemuxClaims ==
  ASSUME NEW c \in Credential
  PROVE  /\ Dcr402Demux(c) = "claim" => c \in Lightning \cup Onchain
         /\ X402Demux(c) = "claim" => c \in Evm
  BY SDKAssumption DEF Credential, Claimable, Lightning, Onchain, Evm, Unclaimed,
     Dcr402Demux, X402Demux

LEMMA ArriveIsSiteStep ==
  ASSUME NEW q \in Request, Arrive(q)
  PROVE  Passes(q)
  <1>1. CASE \E r \in Resource, c \in Presented : Require(q, r, c)
    <2>1. PICK r \in Resource, c \in Presented : Require(q, r, c)
      BY <1>1
    <2>2. [resource |-> r, usd |-> Price[r]] \in ChallengeSpec
      BY <2>1, PriceAssumption DEF Require, ChallengeSpec
    <2> QED
      BY <2>1, <2>2 DEF Require, Passes
  <1>2. CASE \E u \in USD, c \in Presented : Topup(q, u, c)
    <2>1. PICK u \in USD, c \in Presented : Topup(q, u, c)
      BY <1>2
    <2>2. [resource |-> TopupSite, usd |-> u] \in ChallengeSpec
      BY TopupAssumption DEF ChallengeSpec
    <2> QED
      BY <2>1, <2>2 DEF Topup, Passes
  <1>3. CASE (\E r \in Resource : RequireUnpriced(q, r)) \/ TopupOutOfRange(q)
    BY <1>3 DEF RequireUnpriced, TopupOutOfRange, Passes, Status
  <1> QED
    BY <1>1, <1>2, <1>3 DEF Arrive

LEMMA HandleIsSiteStep ==
  ASSUME TypeOK, NEW q \in Request, Handle(q)
  PROVE  SiteStep(q)
  <1>1. cred[q] \in Credential
    BY DEF TypeOK, RequestTypeOK
  <1>2. CASE LeaveToNextRail(q) \/ NoRailClaims(q)
    BY <1>2 DEF LeaveToNextRail, NoRailClaims, WalkEnded, AtRail, SiteStep, Passes
  <1>3. CASE \/ RefuseUnreadable(q) \/ OfferRefused(q) \/ GatePending(q) \/ GateRefuses(q)
             \/ RequirementsRefused(q) \/ FacilitatorDeclines(q)
    BY <1>3 DEF RefuseUnreadable, OfferRefused, GatePending, GateRefuses,
       RequirementsRefused, FacilitatorDeclines, Refuse, SiteStep, Passes, Status
  <1>4. CASE FindOffer(q) \/ MatchRequirements(q) \/ Verify(q)
    BY <1>1, <1>4, DemuxClaims DEF FindOffer, Dcr402Claims, MatchRequirements, X402Claims,
       AtRail, Verify, SiteStep, Checks
  <1>5. CASE \/ GateSettles(q) \/ SettleOnChain(q) \/ FacilitatorFails(q)
             \/ Bill(q) \/ Serve(q) \/ Credit(q)
    BY <1>5 DEF SettleOnChain, Serve, Credit, SiteStep
  <1>6. CASE WriteChallenge(q) \/ WriteTopup(q) \/ WriteTopupFails(q)
    <2>1. CASE WriteChallenge(q)
      <3>1. PICK minted \in SUBSET Hash : Mint(minted, spec[q])
        BY <2>1 DEF WriteChallenge
      <3> QED
        BY <2>1, <3>1 DEF WriteChallenge, Offer, Mints, SiteStep, Status
    <2>2. CASE WriteTopup(q)
      <3>1. PICK h \in Hash, addrs \in SUBSET Addr : Mint({h} \cup addrs, spec[q])
        BY <2>2 DEF WriteTopup
      <3> QED
        BY <2>2, <3>1 DEF WriteTopup, Offer, Mints, SiteStep, Status
    <2>3. CASE WriteTopupFails(q)
      <3>1. PICK hashes \in SUBSET Hash : Mint(hashes, spec[q])
        BY <2>3 DEF WriteTopupFails
      <3> QED
        BY <2>3, <3>1 DEF WriteTopupFails, Offer, Mints, SiteStep, Status
    <2> QED
      BY <1>6, <2>1, <2>2, <2>3
  <1> QED
    BY <1>2, <1>3, <1>4, <1>5, <1>6 DEF Handle

LEMMA NextIsSiteNext ==
  ASSUME TypeOK, Next
  PROVE  SiteNext
  BY ArriveIsSiteStep, HandleIsSiteStep DEF Next, SiteNext, SiteStep

(* The inductive invariant holds of every behaviour of a composer.         *)
THEOREM Inductive == Spec => []IInv
  <1>1. IInv /\ [Next]_vars => IInv'
    BY NextIsSiteNext, NextIInv, StutterIInv DEF IInv
  <1> QED
    BY <1>1, InitIInv, PTL DEF Spec

(* A composer's behaviours are behaviours of a payment site.               *)
THEOREM SpecIsSiteSpec == Spec => SiteSpec
  <1>1. IInv /\ [Next]_vars => [SiteNext]_vars
    BY NextIsSiteNext DEF IInv
  <1> QED
    BY <1>1, Inductive, PTL DEF Spec, SiteSpec

(* Every variable of a composer keeps its type.                            *)
THEOREM TypeCorrect == Spec => []TypeOK
  BY SpecIsSiteSpec, SiteTypeCorrect, PTL

(* The guard answers "first time" at most once for a reference: in each    *)
(* life of the process with memSeen, ever with the durable table.          *)
THEOREM BillsOnce == Spec => []BillOnce
  BY SpecIsSiteSpec, SiteBillsOnce, PTL

(* Every top-up credited or about to be is backed by a bill of the same    *)
(* reference, and of its own.                                              *)
THEOREM CreditsAreBacked == Spec => []CreditsBacked
  BY SpecIsSiteSpec, SiteCreditsBacked, PTL

(* Only a request whose payment was made is served or credited: a Decred   *)
(* payment for its site and price, a USDC payment for its price.           *)
THEOREM GrantsPaid == Spec => GrantsArePaid
  BY SpecIsSiteSpec, SiteGrantsPaid, PTL

(* A request that a composer handles is over in a bounded number of steps. *)
THEOREM HandlersEnd == Spec => HandlersTerminate
  BY SpecIsSiteSpec, SiteHandlersTerminate, PTL

(* A composer implements the seller's ledger, reference by reference.      *)
THEOREM LedgerImplemented == Spec => ImplementsLedger
  BY SpecIsSiteSpec, SiteRefinement, PTL

-----------------------------------------------------------------------------
(* The rails' demultiplexing.                                              *)

(* A rail passes on exactly what it does not own.                          *)
LEMMA DemuxOwns ==
  ASSUME NEW rail \in RailName, NEW c \in Credential
  PROVE  Demux(rail, c) = "leave" <=> ~Owns(rail, c)
  <1>1. c.kind = "absent" <=> c = Absent
    BY DEF Credential, Claimable, Lightning, Onchain, Evm, Unclaimed, Absent
  <1>2. CASE rail = "dcr402"
    BY <1>2 DEF Credential, Claimable, Lightning, Onchain, Evm, Unclaimed, Demux, Owns,
       Dcr402Demux
  <1>3. CASE rail = "x402"
    BY <1>1, <1>3, SDKAssumption DEF Credential, Claimable, Lightning, Onchain, Evm,
       Unclaimed, Demux, Owns, X402Demux
  <1> QED
    BY <1>2, <1>3 DEF RailName

(* An arriving request has walked past nothing.                            *)
LEMMA ArrivalWalks ==
  ASSUME NEW q \in Request, TypeOK, Arrive(q)
  PROVE  WalksInOrder(q)'
  BY DEF Arrive, Require, RequireUnpriced, Topup, TopupOutOfRange, Start, Reply,
     WalksInOrder, TypeOK, RequestTypeOK

LEMMA HandlerWalks ==
  ASSUME NEW q \in Request, TypeOK, Handle(q), WalksInOrder(q)
  PROVE  WalksInOrder(q)'
  <1> USE DEF TypeOK, RequestTypeOK
  <1>2. CASE LeaveToNextRail(q)
    <2>1. PICK rail \in RailName : AtRail(q, rail) /\ Demux(rail, cred[q]) = "leave"
      BY <1>2 DEF LeaveToNextRail
    <2>2. ~Owns(Rails[at[q]], cred[q])
      BY <2>1, DemuxOwns DEF AtRail
    <2>3. pc'[q] = "walk" /\ cred'[q] = cred[q] /\ at'[q] = at[q] + 1 /\ at[q] \in Nat
      BY <1>2, <2>1, RailsAssumption DEF LeaveToNextRail, TryNextRail, AtRail
    <2> QED
      BY <2>1, <2>2, <2>3 DEF WalksInOrder, AtRail
  <1>3. CASE NoRailClaims(q)
    <2>1. \A i \in 1 .. Len(Rails) : i \in 1 .. at[q] - 1
      BY <1>3, RailsAssumption DEF NoRailClaims, WalkEnded
    <2> QED
      BY <1>3, <2>1 DEF NoRailClaims, WalkEnded, Goto, WalksInOrder, Owns
  <1>4. CASE FindOffer(q) \/ MatchRequirements(q)
    <2>1. PICK rail \in RailName : AtRail(q, rail) /\ Demux(rail, cred[q]) = "claim"
      BY <1>4 DEF FindOffer, MatchRequirements, Dcr402Claims, X402Claims, RailName, Demux
    <2>2. at[q] \in 1 .. Len(Rails) /\ Owns(Rails[at[q]], cred[q])
      BY <2>1, DemuxOwns, RailsAssumption DEF AtRail
    <2> QED
      BY <1>4, <2>2 DEF FindOffer, MatchRequirements, OfferFound, RequirementsMet, Goto,
         WalksInOrder, Owns
  <1>5. CASE Verify(q)
    BY <1>5 DEF Verify, FacilitatorVerifies, Goto, WalksInOrder, Owns
  <1>6. CASE GateSettles(q) \/ SettleOnChain(q) \/ Bill(q)
    BY <1>6 DEF GateSettles, SettleOnChain, FacilitatorSettles, Bill, Settled, WalksInOrder
  <1>7. CASE \/ RefuseUnreadable(q) \/ OfferRefused(q) \/ GatePending(q) \/ GateRefuses(q)
             \/ RequirementsRefused(q) \/ FacilitatorDeclines(q) \/ FacilitatorFails(q)
             \/ Serve(q) \/ Credit(q)
             \/ WriteChallenge(q) \/ WriteTopup(q) \/ WriteTopupFails(q)
    BY <1>7 DEF RefuseUnreadable, OfferRefused, GatePending, GateRefuses, RequirementsRefused,
       FacilitatorDeclines, FacilitatorFails, Refuse, Serve, Credit, Book, WriteChallenge,
       WriteTopup, WriteTopupFails, Reply, WalksInOrder
  <1> QED
    BY <1>2, <1>3, <1>4, <1>5, <1>6, <1>7 DEF Handle

(* A step of one request's handler keeps the others' walks in order.       *)
LEMMA OthersDecide ==
  ASSUME NEW q \in Request, TypeOK, OwnersDecide, SiteStep(q),
         ~IsCall(q)' => WalksInOrder(q)'
  PROVE  OwnersDecide'
  <1>1. ASSUME NEW p \in Request, p # q, ~IsCall(p)' PROVE WalksInOrder(p)'
    <2>1. /\ pc'[p] = pc[p] /\ spec'[p] = spec[p]
          /\ cred'[p] = cred[p] /\ at'[p] = at[p]
      BY <1>1, OthersUntouched
    <2>2. WalksInOrder(p)
      BY <1>1, <2>1 DEF OwnersDecide, IsCall
    <2> QED
      BY <2>1, <2>2 DEF WalksInOrder, Owns
  <1> QED
    BY <1>1 DEF OwnersDecide

LEMMA WebOwnersDecide ==
  ASSUME NEW q \in Request, TypeOK, OwnersDecide, Arrive(q) \/ Handle(q)
  PROVE  OwnersDecide'
  <1>1. SiteStep(q)
    BY ArriveIsSiteStep, HandleIsSiteStep DEF SiteStep
  <1>2. CASE Arrive(q)
    BY <1>1, <1>2, ArrivalWalks, OthersDecide
  <1>3. CASE Handle(q)
    <2>1. WalksInOrder(q)
      BY <1>3 DEF Handle, OwnersDecide
    <2> QED
      BY <1>1, <1>3, <2>1, HandlerWalks, OthersDecide
  <1> QED
    BY <1>2, <1>3

LEMMA EnvironmentOwnersDecide ==
  ASSUME TypeOK, OwnersDecide, Environment \/ UNCHANGED vars
  PROVE  OwnersDecide'
  <1>1. CASE UNCHANGED requestVars
    BY <1>1 DEF requestVars, OwnersDecide, IsCall, WalksInOrder, Owns
  <1>2. CASE Restart
    BY <1>2 DEF Restart, OwnersDecide, WalksInOrder
  <1> QED
    BY <1>1, <1>2 DEF Environment, BuyerPays, BuyerDeposits, ChainConfirms,
       OfferExpires, RetryInitialize, vars

LEMMA NextOwnersDecide ==
  ASSUME TypeOK, OwnersDecide, [Next]_vars
  PROVE  OwnersDecide'
  BY WebOwnersDecide, EnvironmentOwnersDecide DEF Next

(* What a request is answered with shows whose credential it carried.      *)
OwnerAnswers(q) ==
  /\ Answers(q, "402") => \A i \in 1 .. Len(Rails) : ~Owns(Rails[i], cred[q])
  /\ Answers(q, "401") => Owns(Rails[at[q]], cred[q])

LEMMA ArrivalAnswers ==
  ASSUME TypeOK, NEW q \in Request, Arrive(q)
  PROVE  OwnerAnswers(q)
  BY DEF OwnerAnswers, Answers, Arrive, Require, RequireUnpriced, Topup, TopupOutOfRange,
     Start, TypeOK, RequestTypeOK

LEMMA HandlerAnswers ==
  ASSUME TypeOK, OwnersDecide, NEW q \in Request, Handle(q)
  PROVE  OwnerAnswers(q)
  <1> USE DEF TypeOK, RequestTypeOK, Answers, OwnerAnswers
  <1>0. WalksInOrder(q)
    BY DEF Handle, OwnersDecide
  <1>1. CASE WriteChallenge(q) \/ WriteTopup(q) \/ WriteTopupFails(q)
    BY <1>0, <1>1 DEF WriteChallenge, WriteTopup, WriteTopupFails, Reply, WalksInOrder
  <1>2. CASE \/ GatePending(q) \/ GateRefuses(q) \/ FacilitatorDeclines(q)
             \/ FacilitatorFails(q)
    BY <1>0, <1>2 DEF GatePending, GateRefuses, FacilitatorDeclines, FacilitatorFails, Refuse,
       Reply, WalksInOrder
  <1>3. CASE RefuseUnreadable(q) \/ OfferRefused(q) \/ RequirementsRefused(q)
    <2>1. PICK rail \in RailName : AtRail(q, rail) /\ Demux(rail, cred[q]) # "leave"
      BY <1>3 DEF RefuseUnreadable, OfferRefused, RequirementsRefused, Dcr402Claims,
         X402Claims, RailName, Demux
    <2>2. Owns(Rails[at[q]], cred[q])
      BY <2>1, DemuxOwns DEF AtRail
    <2>3. answer'[q] = "401"
      BY <1>3 DEF RefuseUnreadable, OfferRefused, RequirementsRefused, Refuse, Reply
    <2> QED
      BY <2>2, <2>3
  <1>4. CASE \/ LeaveToNextRail(q) \/ NoRailClaims(q) \/ FindOffer(q) \/ GateSettles(q)
             \/ MatchRequirements(q) \/ Verify(q) \/ SettleOnChain(q) \/ Bill(q)
    BY <1>4 DEF LeaveToNextRail, NoRailClaims, AtRail, FindOffer, GateSettles,
       MatchRequirements, Verify, SettleOnChain, FacilitatorSettles, Bill, TryNextRail, Goto,
       Settled, OfferFound, RequirementsMet, FacilitatorVerifies
  <1>5. CASE Serve(q) \/ Credit(q)
    BY <1>5 DEF Serve, Credit, Book, Reply
  <1> QED
    BY <1>1, <1>2, <1>3, <1>4, <1>5 DEF Handle

LEMMA OwnersAnswer ==
  ASSUME TypeOK, OwnersDecide, Next, NEW q \in Request
  PROVE  OwnerAnswers(q)
  <1>1. CASE Arrive(q) \/ Handle(q)
    BY <1>1, ArrivalAnswers, HandlerAnswers
  <1>2. CASE Environment \/ \E p \in Request : p # q /\ SiteStep(p)
    <2>1. ~Answers(q, "402") /\ ~Answers(q, "401")
      BY <1>2, OthersQuiet DEF Status
    <2> QED
      BY <2>1 DEF OwnerAnswers
  <1> QED
    BY <1>1, <1>2, ArriveIsSiteStep, HandleIsSiteStep DEF Next, SiteStep

(* Whatever the order of the rails, a request with a credential of some    *)
(* composed rail is not answered with a challenge, and the rail that       *)
(* refuses one is an owner of it. Two rails may own what the SDK's type    *)
(* cannot hold, and then their order decides (the run Foreign).            *)
THEOREM OwnershipRespected == Spec => AnswerMatchesOwnership
  <1>1. Init => OwnersDecide
    BY DEF Init, OwnersDecide, WalksInOrder
  <1>2. TypeOK /\ OwnersDecide /\ [Next]_vars => OwnersDecide'
    BY NextOwnersDecide
  <1>3. TypeOK /\ OwnersDecide /\ [Next]_vars =>
          [\A q \in Request : ~IsCall(q) =>
             /\ Answers(q, "402") => \A i \in 1 .. Len(Rails) : ~Owns(Rails[i], cred[q])
             /\ Answers(q, "401") => Owns(Rails[at[q]], cred[q])]_vars
    BY OwnersAnswer DEF OwnerAnswers
  <1> QED
    BY <1>1, <1>2, <1>3, TypeCorrect, PTL DEF Spec, AnswerMatchesOwnership
-----------------------------------------------------------------------------
(***************************************************************************)
(* Without the USDC rail, as services/dcr402svc composes its sites, no     *)
(* USDC authorisation gets past the walk.                                  *)
(***************************************************************************)
UsdcUnclaimed == \A q \in Request : cred[q] \in Evm => pc[q] \in {"idle", "walk", "challenge"}

LEMMA WebUsdcUnclaimed ==
  ASSUME TypeOK, UsdcUnclaimed, ~Composes("x402"),
         NEW q \in Request, Arrive(q) \/ Handle(q)
  PROVE  (cred[q] \in Evm => pc[q] \in {"idle", "walk", "challenge"})'
  <1> USE DEF TypeOK, RequestTypeOK
  <1>1. CASE Arrive(q)
    BY <1>1 DEF Arrive, Require, RequireUnpriced, Topup, TopupOutOfRange, Start, Reply
  <1>2. CASE LeaveToNextRail(q) \/ NoRailClaims(q)
    BY <1>2 DEF LeaveToNextRail, NoRailClaims, WalkEnded, AtRail, TryNextRail, Goto
  <1>3. CASE FindOffer(q)
    <2>1. cred[q] \in Lightning \cup Onchain
      BY <1>3, DemuxClaims DEF FindOffer, Dcr402Claims
    <2>2. cred'[q] \notin Evm
      BY <1>3, <2>1 DEF FindOffer, OfferFound, Goto, Lightning, Onchain, Evm
    <2> QED
      BY <2>2
  <1>4. CASE MatchRequirements(q)
    <2>1. at[q] \in 1 .. Len(Rails) /\ Rails[at[q]] = "x402"
      BY <1>4, RailsAssumption DEF MatchRequirements, X402Claims, AtRail
    <2> QED
      BY <2>1 DEF Composes
  <1>5. CASE Verify(q) \/ SettleOnChain(q) \/ GateSettles(q) \/ Bill(q)
    <2>1. pc[q] \in {"verify", "settle", "gate", "bill"} /\ cred'[q] = cred[q]
      BY <1>5 DEF Verify, FacilitatorVerifies, SettleOnChain, FacilitatorSettles, GateSettles,
         Bill, Settled, Goto
    <2> QED
      BY <2>1 DEF UsdcUnclaimed
  <1>6. CASE \/ RefuseUnreadable(q) \/ OfferRefused(q) \/ GatePending(q) \/ GateRefuses(q)
             \/ RequirementsRefused(q) \/ FacilitatorDeclines(q) \/ FacilitatorFails(q)
             \/ Serve(q) \/ Credit(q)
             \/ WriteChallenge(q) \/ WriteTopup(q) \/ WriteTopupFails(q)
    BY <1>6 DEF RefuseUnreadable, OfferRefused, GatePending, GateRefuses, RequirementsRefused,
       FacilitatorDeclines, FacilitatorFails, Refuse, Serve, Credit, Book, WriteChallenge,
       WriteTopup, WriteTopupFails, Reply
  <1> QED
    BY <1>1, <1>2, <1>3, <1>4, <1>5, <1>6 DEF Handle

(* The other requests keep theirs, and a restart ends them all.            *)
LEMMA OthersUsdcUnclaimed ==
  ASSUME TypeOK, UsdcUnclaimed, NEW q \in Request, SiteStep(q),
         (cred[q] \in Evm => pc[q] \in {"idle", "walk", "challenge"})'
  PROVE  UsdcUnclaimed'
  <1>1. ASSUME NEW p \in Request, p # q
        PROVE  (cred[p] \in Evm => pc[p] \in {"idle", "walk", "challenge"})'
    <2>1. pc'[p] = pc[p] /\ cred'[p] = cred[p]
      BY <1>1, OthersUntouched
    <2> QED
      BY <2>1 DEF UsdcUnclaimed, Evm
  <1> QED
    BY <1>1 DEF UsdcUnclaimed

LEMMA EnvironmentUsdcUnclaimed ==
  ASSUME UsdcUnclaimed, Environment \/ UNCHANGED vars
  PROVE  UsdcUnclaimed'
  <1>1. CASE UNCHANGED requestVars
    BY <1>1 DEF requestVars, UsdcUnclaimed, Evm
  <1>2. CASE Restart
    BY <1>2 DEF Restart, UsdcUnclaimed
  <1> QED
    BY <1>1, <1>2 DEF Environment, BuyerPays, BuyerDeposits, ChainConfirms,
       OfferExpires, RetryInitialize, vars

(* What is granted was paid in Decred, and so for this very site.          *)
LEMMA GrantsAreBound ==
  ASSUME IInv, UsdcUnclaimed, SiteNext, NEW q \in Request, Answers(q, "200")
  PROVE  spec[q] = IF cred[q].kind = "evm" THEN SignedFor[cred[q].auth]
                   ELSE LET b == bound[OfferOf(cred[q])]
                        IN [resource |-> b[1], usd |-> b[2]]
  <1>1. pc[q] = "serve"
    BY GrantsServed DEF IInv
  <1>2. cred[q] \in Claimable /\ PaidFor(cred[q], spec[q]) /\ cred[q] \notin Evm
    BY <1>1 DEF IInv, CarriesItsPayment, Carries, UsdcUnclaimed
  <1>3. cred[q].kind # "evm"
    BY <1>2 DEF Claimable, Lightning, Onchain
  <1>4. bound[OfferOf(cred[q])] = <<spec[q].resource, spec[q].usd>>
    BY <1>2, <1>3 DEF PaidFor, Dcr402PaidFor, BoundResource
  <1>5. spec[q] = [resource |-> spec[q].resource, usd |-> spec[q].usd]
    BY DEF IInv, TypeOK, RequestTypeOK, ChallengeSpec
  <1> QED
    BY <1>3, <1>4, <1>5

(***************************************************************************)
(* "rails bind challenges to site and amount", where it is true: without   *)
(* the USDC rail, every site served and every top-up credited was paid for *)
(* by an offer made for that site and that amount. The run Site binding    *)
(* shows that the USDC rail breaks it.                                     *)
(***************************************************************************)
THEOREM DecredBindsToSite ==
  ASSUME ~Composes("x402")
  PROVE  Spec => BoundToSite
  <1>1. Init => UsdcUnclaimed
    BY DEF Init, UsdcUnclaimed
  <1>2. IInv /\ UsdcUnclaimed /\ [Next]_vars => UsdcUnclaimed'
    <2> SUFFICES ASSUME IInv, UsdcUnclaimed, [Next]_vars PROVE UsdcUnclaimed'
      OBVIOUS
    <2>1. TypeOK
      BY DEF IInv
    <2>2. ASSUME NEW q \in Request, Arrive(q) \/ Handle(q) PROVE UsdcUnclaimed'
      <3>1. SiteStep(q)
        BY <2>1, <2>2, ArriveIsSiteStep, HandleIsSiteStep DEF SiteStep
      <3> QED
        BY <2>1, <2>2, <3>1, WebUsdcUnclaimed, OthersUsdcUnclaimed
    <2> QED
      BY <2>2, EnvironmentUsdcUnclaimed DEF Next
  <1>3. IInv /\ UsdcUnclaimed /\ [Next]_vars =>
          [\A q \in Request : Answers(q, "200") =>
             spec[q] = IF cred[q].kind = "evm" THEN SignedFor[cred[q].auth]
                       ELSE LET b == bound[OfferOf(cred[q])]
                            IN [resource |-> b[1], usd |-> b[2]]]_vars
    BY GrantsAreBound, NextIsSiteNext DEF IInv
  <1> QED
    BY <1>1, <1>2, <1>3, Inductive, PTL DEF Spec, BoundToSite
=============================================================================
