-------------------------- MODULE PaymentSiteProofs --------------------------
(***************************************************************************)
(* Theorems of PaymentSite's SiteSpec, for every set of sites, requests,   *)
(* credentials and rails and any number of process lives. What is proved   *)
(* here is inherited by Composer and PerCall, whose steps are SiteSteps.   *)
(***************************************************************************)
EXTENDS PaymentSite, FiniteSetTheorems, TLAPS

-----------------------------------------------------------------------------
(* Type correctness.                                                       *)

LEMMA NoSiteType == NoSite \in ChallengeSpec
  BY SiteAssumption DEF NoSite, ChallengeSpec

LEMMA AbsentType == Absent \in Credential
  BY DEF Absent, Credential, Unclaimed

LEMMA StartAt == 1 \in 1 .. Len(Rails) + 1
  BY RailsAssumption

(* What a reference of a USDC settlement is, and which payment it names.   *)
LEMMA UsdcRefsType ==
  ASSUME NEW c \in Evm, NEW r \in UsdcRefs(c)
  PROVE  /\ r \in ExternalRef
         /\ PaymentOf(r) = <<"evm", c.auth>>
         /\ NamesTx => r[1] # "fingerprint"
  <1>1. c.auth \in Auth /\ c.raw \in Encoding
    BY DEF Evm
  <1>2. CASE r = TransactionRef(c)
    BY <1>1, <1>2 DEF TransactionRef, ExternalRef, PaymentOf
  <1>3. CASE r = FingerprintRef(c) /\ ~NamesTx
    BY <1>1, <1>3 DEF FingerprintRef, ExternalRef, PaymentOf
  <1> QED
    BY <1>2, <1>3 DEF UsdcRefs

(* The same of a Decred settlement.                                        *)
LEMMA DecredRefType ==
  ASSUME NEW c \in Lightning \cup Onchain
  PROVE  /\ DecredRef(c) \in ExternalRef
         /\ PaymentOf(DecredRef(c)) = DecredRef(c)
         /\ DecredRef(c)[1] # "fingerprint"
  BY DEF Lightning, Onchain, DecredRef, ExternalRef, PaymentOf

(* The references a claimable credential may settle under.                 *)
LEMMA RefsOfType ==
  ASSUME NEW c \in Claimable, NEW r \in RefsOf(c)
  PROVE  r \in ExternalRef /\ (NamesTx => r[1] # "fingerprint")
  <1>1. CASE c \in Evm
    BY <1>1, UsdcRefsType DEF RefsOf, Evm
  <1>2. CASE c \in Lightning \cup Onchain
    BY <1>2, DecredRefType DEF RefsOf, Lightning, Onchain
  <1> QED
    BY <1>1, <1>2 DEF Claimable

LEMMA ReplyType ==
  ASSUME NEW q \in Request, NEW status \in Status, RequestTypeOK, Reply(q, status)
  PROVE  RequestTypeOK'
  BY NoSiteType, AbsentType, StartAt DEF RequestTypeOK, Reply, Control

LEMMA GotoType ==
  ASSUME NEW q \in Request, NEW next \in Control, RequestTypeOK, Goto(q, next)
  PROVE  RequestTypeOK'
  BY DEF RequestTypeOK, Goto

LEMMA SettledType ==
  ASSUME NEW q \in Request, NEW r \in ExternalRef, RequestTypeOK, Settled(q, r)
  PROVE  RequestTypeOK'
  BY DEF RequestTypeOK, Settled, Control

LEMMA StartType ==
  ASSUME NEW q \in Request, NEW s \in ChallengeSpec, NEW c \in Credential,
         RequestTypeOK, Start(q, s, c)
  PROVE  RequestTypeOK'
  BY StartAt DEF RequestTypeOK, Start, Control, Status

(* Minting keeps the Decred rail's state well typed.                       *)
LEMMA MintType ==
  ASSUME NEW offers, NEW s \in ChallengeSpec, Dcr402TypeOK, Mint(offers, s)
  PROVE  Dcr402TypeOK'
  BY DEF Mint, Fresh, Dcr402TypeOK, BoundResource, ChallengeSpec

LEMMA RestUnchanged ==
  ASSUME TypeOK, RequestTypeOK', UNCHANGED restVars
  PROVE  TypeOK'
  BY DEF TypeOK, LedgerTypeOK, Dcr402TypeOK, X402TypeOK, restVars, ledgerVars,
     dcr402Vars, x402Vars

LEMMA StepType ==
  ASSUME TypeOK, NEW q \in Request, SiteStep(q), Carries(q)
  PROVE  TypeOK'
  <1> USE DEF TypeOK
  <1>1. CASE Passes(q)
    <2>1. CASE \E s \in ChallengeSpec, c \in Presented : Presentable(c) /\ Start(q, s, c)
      <3>1. RequestTypeOK' /\ UNCHANGED restVars
        BY <2>1, StartType, PresentedAssumption DEF Start
      <3> QED
        BY <3>1, RestUnchanged
    <2>2. CASE pc[q] = "walk" /\ at[q] <= Len(Rails) /\ TryNextRail(q)
      <3>1. RequestTypeOK'
        BY <2>2, RailsAssumption DEF TryNextRail, RequestTypeOK
      <3> QED
        BY <2>2, <3>1, RestUnchanged DEF TryNextRail
    <2>3. CASE Goto(q, "challenge") /\ UNCHANGED restVars
      BY <2>3, GotoType, RestUnchanged DEF Control
    <2>4. CASE \E status \in Status \ {"200"} : Reply(q, status) /\ UNCHANGED restVars
      BY <2>4, ReplyType, RestUnchanged
    <2> QED
      BY <1>1, <2>1, <2>2, <2>3, <2>4 DEF Passes
  <1>2. CASE Checks(q) \/ WorkDone(q)
    <2>1. PICK next \in Control : Goto(q, next) /\ UNCHANGED restVars
      BY <1>2 DEF Checks, WorkDone, OfferFound, RequirementsMet, FacilitatorVerifies,
         Control
    <2> QED
      BY <2>1, GotoType, RestUnchanged
  <1>7. CASE GateSettles(q)
    <2>1. DecredRef(cred[q]) \in ExternalRef
      BY <1>7, DecredRefType DEF GateSettles, Carries, DecredInHand
    <2> QED
      BY <1>7, <2>1, SettledType, RestUnchanged DEF GateSettles
  <1>3. CASE Mints(q)
    <2>1. RequestTypeOK'
      BY <1>3, ReplyType DEF Mints
    <2>2. Dcr402TypeOK'
      BY <1>3, MintType DEF Mints, RequestTypeOK
    <2> QED
      BY <1>3, <2>1, <2>2 DEF Mints, LedgerTypeOK, X402TypeOK, ledgerVars, x402Vars
  <1>4. CASE FacilitatorSettles(q, UsdcRefs(cred[q])) \/ FacilitatorFails(q)
    <2>2. cred[q] \in Evm /\ cred[q].auth \in Auth
      BY <1>4 DEF FacilitatorSettles, FacilitatorFails, Carries, UsdcInHand, Evm
    <2>1. RequestTypeOK'
      BY <1>4, <2>2, UsdcRefsType, SettledType, ReplyType
      DEF FacilitatorSettles, FacilitatorFails, Status
    <2>3. X402TypeOK'
      BY <1>4, <2>2 DEF FacilitatorSettles, FacilitatorFails, SettlePayment, X402TypeOK
    <2> QED
      BY <1>4, <2>1, <2>3 DEF FacilitatorSettles, FacilitatorFails,
         LedgerTypeOK, Dcr402TypeOK, ledgerVars, dcr402Vars
  <1>5. CASE Bill(q)
    <2>1. PICK isFirst \in BOOLEAN :
            /\ MarkSettled(ref[q], isFirst)
            /\ first' = [first EXCEPT ![q] = isFirst]
            /\ billed' = IF isFirst
                         THEN [billed EXCEPT ![ref[q]] = @ + 1]
                         ELSE billed
      BY <1>5 DEF Bill
    <2>2. RequestTypeOK'
      BY <1>5, <2>1 DEF Bill, RequestTypeOK, Control
    <2>3. ref[q] \in ExternalRef
      BY <1>5, RefsOfType DEF Bill, Carries
    <2>4. LedgerTypeOK'
      BY <1>5, <2>1, <2>3 DEF Bill, LedgerTypeOK, MarkSettled, SqlMarkSettled, MemMarkSettled
    <2> QED
      BY <1>5, <2>2, <2>4 DEF Bill, Dcr402TypeOK, X402TypeOK, dcr402Vars, x402Vars
  <1>6. CASE Book(q, FALSE) \/ Book(q, first[q])
    <2>1. RequestTypeOK'
      BY <1>6, ReplyType DEF Book, Status
    <2>2. ref[q] \in ExternalRef
      BY <1>6, RefsOfType DEF Book, Carries
    <2>3. LedgerTypeOK'
      BY <1>6, <2>2 DEF Book, LedgerTypeOK
    <2> QED
      BY <1>6, <2>1, <2>3 DEF Book, Dcr402TypeOK, X402TypeOK, dcr402Vars, x402Vars
  <1> QED
    BY <1>1, <1>2, <1>3, <1>4, <1>5, <1>6, <1>7 DEF SiteStep

LEMMA EnvironmentType ==
  ASSUME TypeOK, Environment
  PROVE  TypeOK'
  <1>1. CASE \/ \E h \in Hash : BuyerPays(h)
             \/ \E t \in Tx : BuyerDeposits(t) \/ ChainConfirms(t)
             \/ \E o \in Offer : OfferExpires(o)
    <2>1. Dcr402TypeOK'
      BY <1>1, DepthAssumption DEF BuyerPays, BuyerDeposits, ChainConfirms, OfferExpires,
         PayInvoice, Deposit, Confirm, Expire, TypeOK, Dcr402TypeOK
    <2>2. UNCHANGED <<requestVars, ledgerVars, x402Vars, lives>>
      BY <1>1 DEF BuyerPays, BuyerDeposits, ChainConfirms, OfferExpires
    <2> QED
      BY <2>1, <2>2 DEF TypeOK, RequestTypeOK, LedgerTypeOK, X402TypeOK,
         requestVars, ledgerVars, x402Vars
  <1>2. CASE RetryInitialize
    BY <1>2 DEF RetryInitialize, Sync, TypeOK, RequestTypeOK, LedgerTypeOK,
       Dcr402TypeOK, X402TypeOK, requestVars, ledgerVars, dcr402Vars
  <1>3. CASE Restart
    <2>1. RequestTypeOK'
      BY <1>3, NoSiteType, AbsentType, StartAt
      DEF Restart, RequestTypeOK, Control, Status
    <2>2. LedgerTypeOK'
      BY <1>3 DEF Restart, GuardRestart, TypeOK, LedgerTypeOK
    <2>3. lives' \in 1 .. MaxLives
      BY <1>3, LivesAssumption DEF Restart, TypeOK
    <2> QED
      BY <1>3, <2>1, <2>2, <2>3 DEF Restart, X402Restart, TypeOK, Dcr402TypeOK,
         X402TypeOK, dcr402Vars
  <1> QED
    BY <1>1, <1>2, <1>3 DEF Environment

LEMMA InitType == Init => TypeOK
  <1> SUFFICES ASSUME Init PROVE TypeOK
    OBVIOUS
  <1>1. RequestTypeOK
    BY NoSiteType, AbsentType, StartAt DEF Init, RequestTypeOK, Control, Status
  <1>2. LedgerTypeOK /\ lives \in 1 .. MaxLives
    BY LivesAssumption DEF Init, LedgerTypeOK
  <1>3. Dcr402TypeOK /\ X402TypeOK
    BY DepthAssumption DEF Init, Dcr402Init, X402Init, Dcr402TypeOK, X402TypeOK
  <1> QED
    BY <1>1, <1>2, <1>3 DEF TypeOK

-----------------------------------------------------------------------------
(* Money that was received, and what was minted, stays.                    *)

MoneyStays ==
    /\ \A o \in Offer : bound[o] # NotMinted => bound'[o] = bound[o]
    /\ paid \subseteq paid'
    /\ deposits \subseteq deposits'
    /\ \A t \in Tx : confs[t] = Depth => confs'[t] = Depth
    /\ consumed \subseteq consumed'

LEMMA MintKeepsMoney ==
  ASSUME NEW offers, NEW s \in ChallengeSpec, Dcr402TypeOK, Mint(offers, s), UNCHANGED x402Vars
  PROVE  MoneyStays
  BY DEF Mint, Fresh, Dcr402TypeOK, MoneyStays, x402Vars

LEMMA MoneyStaysNext ==
  ASSUME TypeOK, SiteNext
  PROVE  MoneyStays
  <1>1. ASSUME NEW q \in Request, SiteStep(q) PROVE MoneyStays
    <2>1. CASE Mints(q)
      <3>1. spec[q] \in ChallengeSpec /\ Dcr402TypeOK
        BY DEF TypeOK, RequestTypeOK
      <3> QED
        BY <2>1, <3>1, MintKeepsMoney DEF Mints
    <2>2. CASE FacilitatorSettles(q, UsdcRefs(cred[q])) \/ FacilitatorFails(q)
      BY <2>2 DEF FacilitatorSettles, FacilitatorFails, SettlePayment, MoneyStays, dcr402Vars
    <2>3. CASE Bill(q) \/ Book(q, FALSE) \/ Book(q, first[q])
      BY <2>3 DEF Bill, Book, MoneyStays, dcr402Vars, x402Vars
    <2>4. CASE Passes(q) \/ Checks(q) \/ WorkDone(q) \/ GateSettles(q)
      <3>1. UNCHANGED restVars
        BY <2>4 DEF Passes, Checks, WorkDone, GateSettles, Start, TryNextRail, OfferFound,
           RequirementsMet, FacilitatorVerifies
      <3> QED
        BY <3>1 DEF MoneyStays, restVars, dcr402Vars, x402Vars
    <2> QED
      BY <1>1, <2>1, <2>2, <2>3, <2>4 DEF SiteStep
  <1>2. CASE Environment
    <2>1. CASE \/ \E h \in Hash : BuyerPays(h)
               \/ \E t \in Tx : BuyerDeposits(t) \/ ChainConfirms(t)
               \/ \E o \in Offer : OfferExpires(o)
      BY <2>1 DEF BuyerPays, BuyerDeposits, ChainConfirms, OfferExpires, PayInvoice,
         Deposit, Confirm, Expire, MoneyStays, TypeOK, Dcr402TypeOK, x402Vars
    <2>2. CASE RetryInitialize \/ Restart
      BY <2>2 DEF RetryInitialize, Sync, Restart, X402Restart, MoneyStays, dcr402Vars
    <2> QED
      BY <1>2, <2>1, <2>2 DEF Environment
  <1> QED
    BY <1>1, <1>2 DEF SiteNext

(* A payment made stays made.                                              *)
LEMMA PaidStays ==
  ASSUME TypeOK, MoneyStays, NEW c \in Claimable, NEW s \in ChallengeSpec, PaidFor(c, s)
  PROVE  PaidFor(c, s)'
  <1>1. CASE c \in Evm
    BY <1>1 DEF Evm, PaidFor, X402PaidFor, MoneyStays
  <1>2. CASE c \in Lightning
    <2>1. c.kind = "lightning" /\ c.hash \in Offer
      BY <1>2 DEF Lightning, Offer
    <2>2. bound[c.hash] # NotMinted
      BY <2>1, NotMintedAssumption DEF PaidFor, Dcr402PaidFor, OfferOf, BoundResource, ChallengeSpec
    <2> QED
      BY <2>1, <2>2 DEF PaidFor, Dcr402PaidFor, OfferOf, BoundResource, MoneyStays
  <1>3. CASE c \in Onchain
    <2>1. c.kind = "onchain" /\ c.addr \in Offer /\ c.tx \in Tx
      BY <1>3 DEF Onchain, Offer
    <2>2. bound[c.addr] # NotMinted
      BY <2>1, NotMintedAssumption DEF PaidFor, Dcr402PaidFor, OfferOf, BoundResource, ChallengeSpec
    <2> QED
      BY <2>1, <2>2 DEF PaidFor, Dcr402PaidFor, OfferOf, BoundResource, MoneyStays
  <1> QED
    BY <1>1, <1>2, <1>3 DEF Claimable

-----------------------------------------------------------------------------
(* A request that left the walk carries its payment.                       *)

(* A step that leaves a request alone leaves what it carries.              *)
LEMMA CarriesKept ==
  ASSUME TypeOK, MoneyStays, NEW p \in Request, Carries(p),
         pc'[p] = pc[p], spec'[p] = spec[p], cred'[p] = cred[p], ref'[p] = ref[p]
  PROVE  Carries(p)'
  <1>1. spec[p] \in ChallengeSpec
    BY DEF TypeOK, RequestTypeOK
  <1>2. DecredInHand(p) => DecredInHand(p)'
    <2> SUFFICES ASSUME DecredInHand(p) PROVE DecredInHand(p)'
      OBVIOUS
    <2>1. OfferOf(cred[p]) \in Offer
      BY DEF DecredInHand, OfferOf, Lightning, Onchain, Offer
    <2>2. bound[OfferOf(cred[p])] # NotMinted
      BY <1>1, NotMintedAssumption DEF DecredInHand, BoundResource, ChallengeSpec
    <2> QED
      BY <2>1, <2>2 DEF DecredInHand, MoneyStays, OfferOf, BoundResource
  <1>3. UsdcInHand(p) => UsdcInHand(p)'
    BY DEF UsdcInHand
  <1>4. CASE pc[p] \in {"bill", "serve"}
    BY <1>1, <1>4, PaidStays DEF Carries, PaidFor, Dcr402PaidFor, X402PaidFor,
       OfferOf, BoundResource, RefsOf, UsdcRefs
  <1>5. CASE pc[p] \notin {"bill", "serve"}
    BY <1>2, <1>3, <1>5 DEF Carries
  <1> QED
    BY <1>4, <1>5

LEMMA CarriesNothing ==
  ASSUME NEW p \in Request, pc'[p] \in {"idle", "walk", "challenge"}
  PROVE  Carries(p)'
  BY DEF Carries

(* A handler touches its own request only.                                 *)
LEMMA OthersUntouched ==
  ASSUME TypeOK, NEW q \in Request, SiteStep(q), NEW p \in Request, p # q
  PROVE  /\ pc'[p] = pc[p] /\ spec'[p] = spec[p] /\ cred'[p] = cred[p]
         /\ at'[p] = at[p] /\ ref'[p] = ref[p] /\ first'[p] = first[p]
  <1> USE DEF TypeOK, RequestTypeOK
  <1>1. CASE Passes(q) \/ Mints(q) \/ Book(q, FALSE) \/ Book(q, first[q])
    BY <1>1 DEF Passes, Mints, Book, Start, TryNextRail, Goto, Reply
  <1>2. CASE Checks(q) \/ WorkDone(q)
    BY <1>2 DEF Checks, WorkDone, OfferFound, RequirementsMet, FacilitatorVerifies, Goto
  <1>3. CASE \/ GateSettles(q) \/ FacilitatorSettles(q, UsdcRefs(cred[q]))
             \/ FacilitatorFails(q) \/ Bill(q)
    BY <1>3 DEF GateSettles, FacilitatorSettles, FacilitatorFails, Bill, Settled, Reply
  <1> QED
    BY <1>1, <1>2, <1>3 DEF SiteStep

(* Neither another request's handler nor the environment answers a request. *)
LEMMA OthersQuiet ==
  ASSUME TypeOK, NEW q \in Request,
         Environment \/ \E p \in Request : p # q /\ SiteStep(p)
  PROVE  \A status \in Status \ {"none"} : ~Answers(q, status)
  <1> USE DEF TypeOK, RequestTypeOK, Answers
  <1>1. CASE Environment
    BY <1>1 DEF Environment, BuyerPays, BuyerDeposits, ChainConfirms,
       OfferExpires, RetryInitialize, Restart, requestVars
  <1>2. CASE \E p \in Request : p # q /\ SiteStep(p)
    BY <1>2, OthersUntouched
  <1> QED
    BY <1>1, <1>2

(* A step of a request's handler is one of the steps that were left to it. *)
LEMMA StepIsCounted ==
  ASSUME TypeOK, NEW q \in Request, SiteStep(q), pc[q] # "idle", StepTaken(q)
  PROVE  StepsLeft(q)' < StepsLeft(q)
  <1> USE DEF TypeOK, RequestTypeOK, StepsLeft, StepTaken
  <1>0. /\ Len(Rails) \in Nat /\ pc[q] \in Control
        /\ at[q] \in 1 .. Len(Rails) + 1
    BY RailsAssumption
  <1>1. CASE \/ \E status \in Status \ {"200"} : Reply(q, status)
             \/ pc[q] = "walk" /\ Goto(q, "challenge")
    <2>1. pc'[q] \in {"idle", "challenge"} /\ (pc'[q] = "challenge" => pc[q] = "walk")
      BY <1>1 DEF Reply, Goto
    <2> QED
      BY <1>0, <2>1 DEF Control
  <1>4. CASE pc[q] = "walk" /\ at[q] <= Len(Rails) /\ TryNextRail(q)
    <2>1. pc'[q] = "walk" /\ at'[q] = at[q] + 1
      BY <1>0, <1>4 DEF TryNextRail
    <2> QED
      BY <1>0, <1>4, <2>1
  <1>2. CASE Checks(q) \/ WorkDone(q)
    <2>1. \/ pc[q] = "walk" /\ pc'[q] \in {"run", "gate", "verify"}
          \/ pc[q] = "verify" /\ pc'[q] \in {"run", "settle"}
          \/ pc[q] = "run" /\ pc'[q] \in {"settle", "gate"}
      BY <1>2 DEF Checks, WorkDone, OfferFound, RequirementsMet, FacilitatorVerifies, Goto
    <2> QED
      BY <1>0, <2>1
  <1>3. CASE \/ GateSettles(q) \/ FacilitatorSettles(q, UsdcRefs(cred[q]))
             \/ FacilitatorFails(q) \/ Bill(q) \/ Book(q, FALSE) \/ Book(q, first[q])
    <2>1. \/ pc[q] \in {"gate", "settle"} /\ pc'[q] \in {"bill", "idle"}
          \/ pc[q] = "bill" /\ pc'[q] = "serve"
          \/ pc[q] = "serve" /\ pc'[q] = "idle"
      BY <1>3 DEF GateSettles, FacilitatorSettles, FacilitatorFails, Bill, Book, Settled, Reply
    <2> QED
      BY <1>0, <2>1
  <1> QED
    BY <1>1, <1>2, <1>3, <1>4 DEF SiteStep, Passes, Mints, Start

LEMMA StepsCounted ==
  ASSUME TypeOK, [SiteNext]_vars, NEW q \in Request, pc[q] # "idle", StepTaken(q)
  PROVE  StepsLeft(q)' < StepsLeft(q)
  <1>1. CASE Environment
    <2>1. pc'[q] = "idle"
      BY <1>1 DEF Environment, BuyerPays, BuyerDeposits, ChainConfirms, OfferExpires,
         RetryInitialize, Restart, requestVars, StepTaken
    <2>2. StepsLeft(q)' = 0
      BY <2>1 DEF StepsLeft
    <2>3. /\ Len(Rails) \in Nat /\ pc[q] \in Control
          /\ at[q] \in 1 .. Len(Rails) + 1
      BY RailsAssumption DEF TypeOK, RequestTypeOK
    <2>4. StepsLeft(q) > 0
      BY <2>3 DEF StepsLeft, Control
    <2> QED
      BY <2>2, <2>4
  <1>2. CASE \E p \in Request : SiteStep(p)
    BY <1>2, StepIsCounted, OthersUntouched DEF StepTaken
  <1>3. CASE UNCHANGED vars
    BY <1>3 DEF vars, requestVars, StepTaken
  <1> QED
    BY <1>1, <1>2, <1>3 DEF SiteNext

(* A handler keeps its request's site until it has answered it.            *)
LEMMA SiteKept ==
  ASSUME TypeOK, NEW q \in Request, SiteStep(q), pc[q] # "idle"
  PROVE  spec'[q] = spec[q] \/ pc'[q] = "idle"
  <1> USE DEF TypeOK, RequestTypeOK
  <1>1. CASE Passes(q) \/ Mints(q) \/ Book(q, FALSE) \/ Book(q, first[q])
    BY <1>1 DEF Passes, Mints, Book, Start, TryNextRail, Goto, Reply
  <1>2. CASE Checks(q) \/ WorkDone(q)
    BY <1>2 DEF Checks, WorkDone, OfferFound, RequirementsMet, FacilitatorVerifies, Goto
  <1>3. CASE \/ GateSettles(q) \/ FacilitatorSettles(q, UsdcRefs(cred[q]))
             \/ FacilitatorFails(q) \/ Bill(q)
    BY <1>3 DEF GateSettles, FacilitatorSettles, FacilitatorFails, Bill, Settled, Reply
  <1> QED
    BY <1>1, <1>2, <1>3 DEF SiteStep

LEMMA HandlerCarries ==
  ASSUME TypeOK, MoneyStays, PreimagesAreBought, NEW q \in Request, SiteStep(q), Carries(q)
  PROVE  Carries(q)'
  <1> USE DEF TypeOK, RequestTypeOK
  <1>1. CASE Passes(q)
    BY <1>1, CarriesNothing DEF Passes, Start, TryNextRail, Goto, Reply
  <1>2. CASE Mints(q) \/ Book(q, FALSE) \/ Book(q, first[q]) \/ FacilitatorFails(q)
    BY <1>2, CarriesNothing DEF Mints, Book, FacilitatorFails, Reply
  <1>3. CASE Checks(q)
    <2>1. cred' = cred /\ spec' = spec /\ bound' = bound
      BY <1>3 DEF Checks, OfferFound, RequirementsMet, FacilitatorVerifies, Goto,
         restVars, dcr402Vars
    <2>2. /\ DecredInHand(q) => DecredInHand(q)'
          /\ UsdcInHand(q) => UsdcInHand(q)'
      BY <2>1 DEF DecredInHand, UsdcInHand, OfferOf, BoundResource
    <2>3. CASE /\ cred[q] \in Lightning \cup Onchain
               /\ \E next \in {"run", "gate"} : OfferFound(q, next)
      BY <2>2, <2>3 DEF OfferFound, OfferedFor, DecredInHand, Goto, Carries
    <2>4. CASE cred[q] \in Evm /\ RequirementsMet(q)
      BY <2>2, <2>4 DEF RequirementsMet, Matches, UsdcInHand, Goto, Carries
    <2>5. CASE \E next \in {"run", "settle"} : FacilitatorVerifies(q, next)
      BY <2>2, <2>5 DEF FacilitatorVerifies, Goto, Carries
    <2> QED
      BY <1>3, <2>3, <2>4, <2>5 DEF Checks
  <1>4. CASE WorkDone(q)
    <2>1. cred' = cred /\ spec' = spec /\ bound' = bound
      BY <1>4 DEF WorkDone, Goto, restVars, dcr402Vars
    <2>2. /\ DecredInHand(q) => DecredInHand(q)'
          /\ UsdcInHand(q) => UsdcInHand(q)'
      BY <2>1 DEF DecredInHand, UsdcInHand, OfferOf, BoundResource
    <2>3. DecredInHand(q) => cred[q].kind # "evm"
      BY DEF DecredInHand, Lightning, Onchain
    <2>4. UsdcInHand(q) => cred[q].kind = "evm"
      BY DEF UsdcInHand, Evm
    <2> QED
      BY <1>4, <2>2, <2>3, <2>4 DEF WorkDone, Goto, Carries
  <1>5. CASE GateSettles(q)
    <2>1. PaidFor(cred[q], spec[q])
      <3>1. CASE cred[q] \in Lightning
        BY <1>5, <3>1 DEF GateSettles, Carries, DecredInHand, GateAccepts, PaidFor,
           Dcr402PaidFor, Lightning, PreimagesAreBought
      <3>2. CASE cred[q] \in Onchain
        BY <1>5, <3>2 DEF GateSettles, Carries, DecredInHand, GateAccepts, PaidFor,
           Dcr402PaidFor, Onchain
      <3> QED
        BY <1>5, <3>1, <3>2 DEF GateSettles, Carries, DecredInHand
    <2>2. cred[q] \in Claimable /\ cred[q].kind # "evm"
      BY <1>5 DEF GateSettles, Carries, DecredInHand, Claimable, Lightning, Onchain
    <2>3. PaidFor(cred[q], spec[q])'
      BY <1>5, <2>1, <2>2 DEF GateSettles, Settled, restVars, dcr402Vars, x402Vars, PaidFor,
         Dcr402PaidFor, X402PaidFor, OfferOf, BoundResource
    <2>4. pc'[q] = "bill" /\ cred' = cred /\ ref'[q] = DecredRef(cred[q])
      BY <1>5 DEF GateSettles, Settled
    <2> QED
      BY <2>2, <2>3, <2>4 DEF Carries, RefsOf
  <1>6. CASE FacilitatorSettles(q, UsdcRefs(cred[q]))
    <2>1. cred[q] \in Evm /\ SignedFor[cred[q].auth].usd = spec[q].usd
      BY <1>6 DEF FacilitatorSettles, Carries, UsdcInHand
    <2>2. cred[q].auth \in consumed'
      BY <1>6 DEF FacilitatorSettles, SettlePayment
    <2>3. pc'[q] = "bill" /\ cred' = cred /\ spec' = spec /\ ref'[q] \in UsdcRefs(cred[q])
      BY <1>6 DEF FacilitatorSettles, Settled
    <2> QED
      BY <2>1, <2>2, <2>3 DEF Carries, PaidFor, X402PaidFor, Claimable, Evm, RefsOf, UsdcRefs
  <1>7. CASE Bill(q)
    <2>1. PaidFor(cred[q], spec[q]) /\ cred[q] \in Claimable /\ ref[q] \in RefsOf(cred[q])
      BY <1>7 DEF Bill, Carries
    <2>2. pc'[q] = "serve" /\ cred' = cred /\ spec' = spec /\ ref' = ref
      BY <1>7 DEF Bill
    <2>3. PaidFor(cred[q], spec[q])'
      BY <1>7, <2>1, <2>2 DEF Bill, dcr402Vars, x402Vars, PaidFor, Dcr402PaidFor, X402PaidFor,
         OfferOf, BoundResource
    <2> QED
      BY <2>1, <2>2, <2>3 DEF Carries, RefsOf, UsdcRefs
  <1> QED
    BY <1>1, <1>2, <1>3, <1>4, <1>5, <1>6, <1>7 DEF SiteStep

-----------------------------------------------------------------------------
(* The buyer holds preimages of paid invoices only.                        *)

LEMMA PreimagesNext ==
  ASSUME TypeOK, MoneyStays, PreimagesAreBought, SiteNext
  PROVE  PreimagesAreBought'
  <1> DEFINE Bought(c) == c \in Lightning /\ c.good => c.hash \in paid
  <1>1. Bought(Absent)
    BY DEF Absent, Lightning
  <1>2. ASSUME NEW p \in Request, cred'[p] = cred[p] \/ Bought(cred'[p])
        PROVE  cred'[p] \in Lightning /\ cred'[p].good => cred'[p].hash \in paid'
    BY <1>2 DEF PreimagesAreBought, MoneyStays
  <1>3. ASSUME NEW q \in Request, NEW status, Reply(q, status)
        PROVE  cred'[q] = cred[q] \/ Bought(cred'[q])
    BY <1>1, <1>3 DEF Reply, TypeOK, RequestTypeOK
  <1>4. ASSUME NEW q \in Request, SiteStep(q), NEW p \in Request
        PROVE  cred'[p] = cred[p] \/ Bought(cred'[p])
    <2>1. CASE p # q
      BY <1>4, <2>1, OthersUntouched
    <2>2. CASE p = q
      <3>1. CASE \E s \in ChallengeSpec, c \in Presented : Presentable(c) /\ Start(q, s, c)
        <4>1. PICK s \in ChallengeSpec, c \in Presented : Presentable(c) /\ Start(q, s, c)
          BY <3>1
        <4>2. Bought(c)
          BY <4>1 DEF Presentable, Dcr402Presentable, Lightning
        <4> QED
          BY <2>2, <4>1, <4>2 DEF Start, TypeOK, RequestTypeOK
      <3>2. CASE cred' = cred
        BY <3>2
      <3>3. CASE \E status : Reply(q, status)
        BY <1>3, <2>2, <3>3
      <3> HIDE DEF Bought
      <3> QED
        BY <1>4, <3>1, <3>2, <3>3 DEF SiteStep, Passes, Checks, WorkDone, Mints, GateSettles,
           FacilitatorSettles, FacilitatorFails, Bill, Book, TryNextRail, OfferFound,
           RequirementsMet, FacilitatorVerifies, Settled, Goto
    <2> QED
      BY <2>1, <2>2
  <1>5. ASSUME Environment, NEW p \in Request
        PROVE  cred'[p] = cred[p] \/ Bought(cred'[p])
    <2>1. CASE Restart
      BY <1>1, <2>1 DEF Restart
    <2>2. CASE UNCHANGED requestVars
      BY <2>2 DEF requestVars
    <2> QED
      BY <1>5, <2>1, <2>2 DEF Environment, BuyerPays, BuyerDeposits, ChainConfirms,
         OfferExpires, RetryInitialize
  <1> HIDE DEF Bought
  <1>6. \A p \in Request : cred'[p] = cred[p] \/ Bought(cred'[p])
    BY <1>4, <1>5 DEF SiteNext
  <1> QED
    BY <1>2, <1>6 DEF PreimagesAreBought

-----------------------------------------------------------------------------
(* The ledger: bills and credits.                                          *)

(* A step that bills, credits and forgets nothing keeps the counts.        *)
LEMMA QuietLedger ==
  ASSUME BillsAreCounted, CreditsAreCounted, UNCHANGED <<ledgerVars, lives>>,
         \A p \in Request, r \in ExternalRef : FirstTimer(p, r)' => FirstTimer(p, r)
  PROVE  BillsAreCounted' /\ CreditsAreCounted'
  <1> USE DEF ledgerVars
  <1>1. BillsAreCounted'
    BY DEF BillsAreCounted, Epochs
  <1>2. CreditsAreCounted'
    BY DEF CreditsAreCounted
  <1> QED
    BY <1>1, <1>2

(* Only Bill brings a request to "serve".                                  *)
LEMMA QuietRequest ==
  ASSUME TypeOK, NEW q \in Request, SiteStep(q), ~Bill(q)
  PROVE  \A p \in Request, r \in ExternalRef : FirstTimer(p, r)' => FirstTimer(p, r)
  <1>1. pc'[q] # "serve"
    <2> USE DEF TypeOK, RequestTypeOK
    <2>1. CASE Passes(q) \/ Mints(q) \/ Book(q, FALSE) \/ Book(q, first[q])
      BY <2>1 DEF Passes, Mints, Book, Start, TryNextRail, Goto, Reply
    <2>2. CASE Checks(q) \/ WorkDone(q)
      BY <2>2 DEF Checks, WorkDone, OfferFound, RequirementsMet, FacilitatorVerifies, Goto
    <2>3. CASE \/ GateSettles(q) \/ FacilitatorSettles(q, UsdcRefs(cred[q]))
               \/ FacilitatorFails(q)
      BY <2>3 DEF GateSettles, FacilitatorSettles, FacilitatorFails, Settled, Reply
    <2> QED
      BY <2>1, <2>2, <2>3 DEF SiteStep
  <1> QED
    BY <1>1, OthersUntouched DEF FirstTimer

LEMMA BillCounts ==
  ASSUME TypeOK, CarriesItsPayment, BillsAreCounted, CreditsAreCounted,
         NEW q \in Request, Bill(q)
  PROVE  BillsAreCounted' /\ CreditsAreCounted'
  <1> DEFINE r0 == ref[q]
  <1>1. r0 \in ExternalRef
    BY RefsOfType DEF Bill, CarriesItsPayment, Carries
  <1>2. PICK isFirst \in BOOLEAN :
          /\ MarkSettled(r0, isFirst)
          /\ first' = [first EXCEPT ![q] = isFirst]
          /\ billed' = IF isFirst THEN [billed EXCEPT ![r0] = @ + 1] ELSE billed
    BY DEF Bill
  <1>3. seen \subseteq seen' /\ (isFirst => r0 \notin seen /\ r0 \in seen')
    BY <1>2, DurableAssumption DEF MarkSettled, SqlMarkSettled, MemMarkSettled
  <1>4. /\ credits' = credits /\ lives' = lives /\ ref' = ref
        /\ pc'[q] = "serve" /\ first'[q] = isFirst
        /\ \A p \in Request : p # q => pc'[p] = pc[p] /\ first'[p] = first[p]
    BY <1>2 DEF Bill, TypeOK, RequestTypeOK
  <1>5. billed \in [ExternalRef -> Nat] /\ credits \in [ExternalRef -> Nat] /\ lives \in Nat
    BY LivesAssumption DEF TypeOK, LedgerTypeOK
  <1>6. \A r \in ExternalRef :
          billed'[r] = IF isFirst /\ r = r0 THEN billed[r] + 1 ELSE billed[r]
    BY <1>1, <1>2, <1>5
  <1>7. \A p \in Request, r \in ExternalRef :
          FirstTimer(p, r)' => (FirstTimer(p, r) \/ (p = q /\ isFirst /\ r = r0))
    BY <1>4 DEF FirstTimer
  <1> HIDE DEF r0
  <1>8. BillsAreCounted'
    <2> SUFFICES ASSUME NEW r \in ExternalRef
                 PROVE  billed'[r] + (IF r \in seen' THEN 0 ELSE 1) <= Epochs'
      BY DEF BillsAreCounted
    <2>1. Epochs' = Epochs /\ Epochs \in Nat
      BY <1>4, <1>5 DEF Epochs
    <2>2. billed[r] + (IF r \in seen THEN 0 ELSE 1) <= Epochs
      BY DEF BillsAreCounted
    <2> QED
      BY <1>3, <1>5, <1>6, <2>1, <2>2
  <1>9. CreditsAreCounted'
    <2>1. \A r \in ExternalRef : credits'[r] <= billed'[r]
      BY <1>4, <1>5, <1>6 DEF CreditsAreCounted
    <2>2. ASSUME NEW r \in ExternalRef, NEW p \in Request, FirstTimer(p, r)'
          PROVE  r \in seen' /\ credits'[r] < billed'[r]
      <3>1. CASE FirstTimer(p, r)
        BY <1>3, <1>4, <1>5, <1>6, <3>1 DEF CreditsAreCounted
      <3>2. CASE p = q /\ isFirst /\ r = r0
        BY <1>3, <1>4, <1>5, <1>6, <3>2 DEF CreditsAreCounted
      <3> QED
        BY <1>7, <2>2, <3>1, <3>2
    <2>3. ASSUME NEW r \in ExternalRef, NEW p1 \in Request, NEW p2 \in Request,
                 FirstTimer(p1, r)', FirstTimer(p2, r)'
          PROVE  p1 = p2
      BY <1>3, <1>7, <2>3 DEF CreditsAreCounted
    <2> QED
      BY <2>1, <2>2, <2>3 DEF CreditsAreCounted
  <1> QED
    BY <1>8, <1>9

LEMMA BookCounts ==
  ASSUME TypeOK, CarriesItsPayment, BillsAreCounted, CreditsAreCounted,
         NEW q \in Request, NEW books \in BOOLEAN, books => first[q], Book(q, books)
  PROVE  BillsAreCounted' /\ CreditsAreCounted'
  <1> DEFINE r0 == ref[q]
  <1>1. r0 \in ExternalRef
    BY RefsOfType DEF Book, CarriesItsPayment, Carries
  <1>2. /\ seen' = seen /\ billed' = billed /\ lives' = lives
        /\ pc'[q] = "idle"
        /\ \A p \in Request :
             p # q => pc'[p] = pc[p] /\ first'[p] = first[p] /\ ref'[p] = ref[p]
    BY DEF Book, Reply, TypeOK, RequestTypeOK
  <1>3. billed \in [ExternalRef -> Nat] /\ credits \in [ExternalRef -> Nat]
    BY DEF TypeOK, LedgerTypeOK
  <1>4. \A r \in ExternalRef :
          credits'[r] = IF books /\ r = r0 THEN credits[r] + 1 ELSE credits[r]
    BY <1>1, <1>3 DEF Book
  <1>5. \A p \in Request, r \in ExternalRef :
          FirstTimer(p, r)' => p # q /\ FirstTimer(p, r)
    BY <1>2 DEF FirstTimer
  <1>6. books => FirstTimer(q, r0)
    BY DEF Book, FirstTimer
  <1> HIDE DEF r0
  <1>7. BillsAreCounted'
    BY <1>2 DEF BillsAreCounted, Epochs
  <1>8. CreditsAreCounted'
    <2>1. ASSUME NEW r \in ExternalRef
          PROVE  credits'[r] <= billed'[r]
      BY <1>2, <1>3, <1>4, <1>6 DEF CreditsAreCounted
    <2>2. ASSUME NEW r \in ExternalRef, NEW p \in Request, FirstTimer(p, r)'
          PROVE  r \in seen' /\ credits'[r] < billed'[r]
      <3>1. p # q /\ FirstTimer(p, r) /\ ~(books /\ r = r0)
        BY <1>5, <1>6, <2>2 DEF CreditsAreCounted
      <3> QED
        BY <1>2, <1>4, <3>1 DEF CreditsAreCounted
    <2>3. ASSUME NEW r \in ExternalRef, NEW p1 \in Request, NEW p2 \in Request,
                 FirstTimer(p1, r)', FirstTimer(p2, r)'
          PROVE  p1 = p2
      BY <1>5, <2>3 DEF CreditsAreCounted
    <2> QED
      BY <2>1, <2>2, <2>3 DEF CreditsAreCounted
  <1> QED
    BY <1>7, <1>8

LEMMA RestartCounts ==
  ASSUME TypeOK, BillsAreCounted, CreditsAreCounted, Restart
  PROVE  BillsAreCounted' /\ CreditsAreCounted'
  <1>1. billed' = billed /\ credits' = credits /\ lives' = lives + 1 /\ lives \in Nat
    BY LivesAssumption DEF Restart, TypeOK
  <1>2. \A p \in Request, r \in ExternalRef : ~FirstTimer(p, r)'
    BY DEF Restart, FirstTimer
  <1>3. billed \in [ExternalRef -> Nat]
    BY DEF TypeOK, LedgerTypeOK
  <1>4. BillsAreCounted'
    BY <1>1, <1>3 DEF BillsAreCounted, Epochs, Restart, GuardRestart
  <1>5. CreditsAreCounted'
    BY <1>1, <1>2 DEF CreditsAreCounted
  <1> QED
    BY <1>4, <1>5

(* What is billed under a fingerprint was settled without a transaction.   *)
LEMMA FallbacksNext ==
  ASSUME TypeOK, CarriesItsPayment, FingerprintsAreFallbacks, SiteNext
  PROVE  FingerprintsAreFallbacks'
  <1>1. CASE billed' = billed
    BY <1>1 DEF FingerprintsAreFallbacks
  <1>2. ASSUME NEW q \in Request, Bill(q) PROVE FingerprintsAreFallbacks'
    <2>1. ref[q] \in ExternalRef /\ (NamesTx => ref[q][1] # "fingerprint")
      BY <1>2, RefsOfType DEF Bill, CarriesItsPayment, Carries
    <2>2. \A r \in ExternalRef : r # ref[q] => billed'[r] = billed[r]
      BY <1>2, <2>1 DEF Bill, TypeOK, LedgerTypeOK
    <2> QED
      BY <2>1, <2>2, Zenon DEF FingerprintsAreFallbacks
  <1>3. CASE Environment
    <2>1. billed' = billed
      BY <1>3 DEF Environment, BuyerPays, BuyerDeposits, ChainConfirms, OfferExpires,
         RetryInitialize, Restart, ledgerVars
    <2> QED
      BY <1>1, <2>1
  <1>4. ASSUME NEW q \in Request, SiteStep(q), ~Bill(q) PROVE billed' = billed
    BY <1>4 DEF SiteStep, Passes, Checks, WorkDone, Mints, GateSettles, FacilitatorSettles,
       FacilitatorFails, Book, Start, TryNextRail, OfferFound, RequirementsMet,
       FacilitatorVerifies, Refuse, restVars, ledgerVars
  <1> QED
    BY <1>1, <1>2, <1>3, <1>4 DEF SiteNext

-----------------------------------------------------------------------------
(* The inductive invariant.                                                *)

LEMMA InitIInv == Init => IInv
  <1> SUFFICES ASSUME Init PROVE IInv
    OBVIOUS
  <1>1. TypeOK
    BY InitType
  <1>2. CarriesItsPayment
    BY CarriesNothing DEF Init, CarriesItsPayment, Carries
  <1>3. PreimagesAreBought
    BY DEF Init, PreimagesAreBought, Absent, Lightning
  <1>4. BillsAreCounted
    BY DurableAssumption DEF Init, BillsAreCounted, Epochs
  <1>5. CreditsAreCounted
    BY DEF Init, CreditsAreCounted, FirstTimer
  <1>6. FingerprintsAreFallbacks
    BY DEF Init, FingerprintsAreFallbacks
  <1> QED
    BY <1>1, <1>2, <1>3, <1>4, <1>5, <1>6 DEF IInv

LEMMA NextIInv ==
  ASSUME IInv, SiteNext
  PROVE  IInv'
  <1> USE DEF IInv
  <1>1. MoneyStays
    BY MoneyStaysNext
  <1>2. PreimagesAreBought'
    BY <1>1, PreimagesNext
  <1>5. FingerprintsAreFallbacks'
    BY FallbacksNext
  <1>3. ASSUME NEW q \in Request, SiteStep(q)
        PROVE  TypeOK' /\ CarriesItsPayment' /\ BillsAreCounted' /\ CreditsAreCounted'
    <2>1. Carries(q)
      BY DEF CarriesItsPayment
    <2>2. TypeOK'
      BY <1>3, <2>1, StepType
    <2>3. ASSUME NEW p \in Request PROVE Carries(p)'
      <3>1. CASE p = q
        BY <1>1, <1>3, <2>1, <3>1, HandlerCarries
      <3>2. CASE p # q
        BY <1>1, <1>3, <3>2, OthersUntouched, CarriesKept DEF CarriesItsPayment
      <3> QED
        BY <3>1, <3>2
    <2>4. BillsAreCounted' /\ CreditsAreCounted'
      <3>1. CASE Bill(q)
        BY <3>1, BillCounts
      <3>2. CASE Book(q, FALSE) \/ Book(q, first[q])
        <4>1. PICK books \in BOOLEAN : (books => first[q]) /\ Book(q, books)
          BY <3>2 DEF TypeOK, RequestTypeOK
        <4> QED
          BY <4>1, BookCounts
      <3>3. CASE ~Bill(q) /\ ~Book(q, FALSE) /\ ~Book(q, first[q])
        <4>1. UNCHANGED <<ledgerVars, lives>>
          BY <1>3, <3>3 DEF SiteStep, Passes, Checks, WorkDone, Mints, GateSettles,
             FacilitatorSettles, FacilitatorFails, Start, TryNextRail, OfferFound,
             RequirementsMet, FacilitatorVerifies, restVars
        <4> QED
          BY <1>3, <3>3, <4>1, QuietRequest, QuietLedger
      <3> QED
        BY <3>1, <3>2, <3>3
    <2> QED
      BY <2>2, <2>3, <2>4 DEF CarriesItsPayment
  <1>4. CASE Environment
    <2>1. TypeOK'
      BY <1>4, EnvironmentType
    <2>2. CASE Restart
      <3>1. CarriesItsPayment'
        BY <2>2, CarriesNothing DEF CarriesItsPayment, Restart
      <3> QED
        BY <1>2, <1>5, <2>1, <2>2, <3>1, RestartCounts
    <2>3. CASE UNCHANGED <<requestVars, ledgerVars, lives>>
      <3>1. CarriesItsPayment'
        BY <1>1, <2>3, CarriesKept DEF CarriesItsPayment, requestVars
      <3>2. \A p \in Request, r \in ExternalRef : FirstTimer(p, r)' => FirstTimer(p, r)
        BY <2>3 DEF FirstTimer, requestVars
      <3> QED
        BY <1>2, <1>5, <2>1, <2>3, <3>1, <3>2, QuietLedger
    <2> QED
      BY <1>4, <2>2, <2>3 DEF Environment, BuyerPays, BuyerDeposits, ChainConfirms,
         OfferExpires, RetryInitialize
  <1> QED
    BY <1>2, <1>3, <1>4, <1>5 DEF SiteNext

LEMMA StutterIInv ==
  ASSUME IInv, UNCHANGED vars
  PROVE  IInv'
  BY DEF vars, requestVars, ledgerVars, dcr402Vars, x402Vars, IInv, TypeOK, RequestTypeOK,
     LedgerTypeOK, Dcr402TypeOK, X402TypeOK, CarriesItsPayment, Carries, DecredInHand, UsdcInHand, PaidFor,
     Dcr402PaidFor, X402PaidFor, OfferOf, BoundResource, PreimagesAreBought,
     BillsAreCounted, Epochs, CreditsAreCounted, FirstTimer, FingerprintsAreFallbacks,
     RefsOf, UsdcRefs

(* The inductive invariant holds of every behaviour of a payment site.     *)
THEOREM SiteInductive == SiteSpec => []IInv
  BY InitIInv, NextIInv, StutterIInv, PTL DEF SiteSpec

-----------------------------------------------------------------------------
(* What follows from the invariant.                                        *)

LEMMA InvBillOnce == IInv => BillOnce
  <1> SUFFICES ASSUME IInv, NEW r \in ExternalRef
               PROVE  billed[r] <= Epochs
    BY DEF BillOnce
  <1>1. billed[r] \in Nat /\ Epochs \in Nat
    BY LivesAssumption DEF IInv, TypeOK, LedgerTypeOK, Epochs
  <1> QED
    BY <1>1 DEF IInv, BillsAreCounted

LEMMA InvCreditsBacked == IInv => CreditsBacked
  <1> SUFFICES ASSUME IInv, NEW r \in ExternalRef
               PROVE  credits[r] + Cardinality({q \in Request : FirstTimer(q, r)}) <= billed[r]
    BY DEF CreditsBacked
  <1> DEFINE Timers == {q \in Request : FirstTimer(q, r)}
  <1>1. billed[r] \in Nat /\ credits[r] \in Nat /\ credits[r] <= billed[r]
    BY DEF IInv, TypeOK, LedgerTypeOK, CreditsAreCounted
  <1>2. CASE Timers = {}
    <2>1. Cardinality(Timers) = 0
      BY <1>2, FS_EmptySet
    <2> QED
      BY <1>1, <2>1
  <1>3. CASE Timers # {}
    <2>1. PICK q \in Timers : TRUE
      BY <1>3
    <2>2. Timers = {q} /\ credits[r] < billed[r]
      BY <2>1 DEF IInv, CreditsAreCounted
    <2>3. Cardinality(Timers) = 1
      BY <2>2, FS_Singleton
    <2> QED
      BY <1>1, <2>2, <2>3
  <1> QED
    BY <1>2, <1>3

LEMMA InvOneReference ==
  ASSUME NamesTx, IInv
  PROVE  OneReferencePerPayment
  <1>1. \A r \in ExternalRef : billed[r] > 0 => PaymentOf(r) = r
    BY DEF IInv, FingerprintsAreFallbacks, PaymentOf
  <1> QED
    BY <1>1 DEF OneReferencePerPayment

(* Only a request that has been billed is answered with 200.               *)
LEMMA GrantsServed ==
  ASSUME TypeOK, SiteNext, NEW q \in Request, Answers(q, "200")
  PROVE  pc[q] = "serve"
  <1>1. CASE Environment
    BY <1>1 DEF Answers, Environment, BuyerPays, BuyerDeposits, ChainConfirms,
       OfferExpires, RetryInitialize, Restart, requestVars
  <1>2. CASE \E p \in Request : SiteStep(p)
    <2> USE DEF TypeOK, RequestTypeOK, Answers
    <2>1. SiteStep(q)
      BY <1>2, OthersUntouched
    <2>2. CASE Passes(q) \/ Mints(q) \/ FacilitatorFails(q)
      BY <2>2 DEF Passes, Mints, FacilitatorFails, Start, TryNextRail, Goto, Reply
    <2>3. CASE \/ Checks(q) \/ WorkDone(q) \/ GateSettles(q)
               \/ FacilitatorSettles(q, UsdcRefs(cred[q])) \/ Bill(q)
      BY <2>3 DEF Checks, WorkDone, GateSettles, FacilitatorSettles, Bill, OfferFound,
         RequirementsMet, FacilitatorVerifies, Settled, Goto
    <2>4. CASE Book(q, FALSE) \/ Book(q, first[q])
      BY <2>4 DEF Book
    <2> QED
      BY <2>1, <2>2, <2>3, <2>4 DEF SiteStep
  <1> QED
    BY <1>1, <1>2 DEF SiteNext

LEMMA InvGrants ==
  ASSUME IInv, [SiteNext]_vars
  PROVE  [\A q \in Request : Answers(q, "200") => PaidFor(cred[q], spec[q])]_vars
  <1> SUFFICES ASSUME SiteNext, NEW q \in Request, Answers(q, "200")
               PROVE  PaidFor(cred[q], spec[q])
    OBVIOUS
  <1>1. pc[q] = "serve"
    BY GrantsServed DEF IInv
  <1> QED
    BY <1>1 DEF IInv, CarriesItsPayment, Carries

(* Every variable keeps its type.                                          *)
THEOREM SiteTypeCorrect == SiteSpec => []TypeOK
  BY SiteInductive, PTL DEF IInv

(* The guard answers "first time" at most once for a reference: in each    *)
(* life of the process with memSeen, ever with the durable table.          *)
THEOREM SiteBillsOnce == SiteSpec => []BillOnce
  BY SiteInductive, InvBillOnce, PTL

(* With a facilitator that names the transaction of what it settles, no    *)
(* payment is billed under two references, so once a reference is once a   *)
(* payment.                                                                *)
THEOREM SiteOneReference == NamesTx => (SiteSpec => []OneReferencePerPayment)
  <1> SUFFICES ASSUME NamesTx PROVE SiteSpec => []OneReferencePerPayment
    OBVIOUS
  <1>1. IInv => OneReferencePerPayment
    BY InvOneReference
  <1> QED
    BY <1>1, SiteInductive, PTL

(* Of a reference, bookings made and about to be made are backed by bills  *)
(* of their own.                                                           *)
THEOREM SiteCreditsBacked == SiteSpec => []CreditsBacked
  BY SiteInductive, InvCreditsBacked, PTL

(* Only a request whose payment was made is answered with 200.             *)
THEOREM SiteGrantsPaid == SiteSpec => GrantsArePaid
  BY SiteInductive, InvGrants, PTL DEF SiteSpec, GrantsArePaid

(* No handler takes more steps than it had left when it started.           *)
THEOREM SiteHandlersTerminate == SiteSpec => HandlersTerminate
  <1>1. TypeOK /\ [SiteNext]_vars =>
          [\A q \in Request :
             pc[q] # "idle" /\ StepTaken(q) => StepsLeft(q)' < StepsLeft(q)]_vars
    BY StepsCounted
  <1> QED
    BY <1>1, SiteTypeCorrect, PTL DEF SiteSpec, HandlersTerminate

-----------------------------------------------------------------------------
(* A payment site implements the seller's ledger.                          *)

(* Money arrives when an invoice is paid, a deposit reaches its depth, or  *)
(* an authorisation is executed.                                           *)
LEMMA ReceivedGrows ==
  ASSUME NEW p \in Payment, Received' = Received \cup {p}, UNCHANGED <<billed, credits>>
  PROVE  [Ledger!Next]_Ledger!vars
  <1>1. CASE p \in Received
    BY <1>1 DEF Ledger!vars
  <1>2. CASE p \notin Received
    <2>1. p \in ExternalRef /\ PaymentOf(p) = p
      BY DEF Payment, ExternalRef, PaymentOf
    <2>2. Ledger!Receive(p)
      BY <1>2 DEF Ledger!Receive
    <2> QED
      BY <2>1, <2>2 DEF Ledger!Next
  <1> QED
    BY <1>1, <1>2

LEMMA ReceivedKept ==
  ASSUME paid' = paid, confs' = confs, consumed' = consumed
  PROVE  Received' = Received
  BY DEF Received

(* What the seller has received, by the kind of payment.                   *)
LEMMA ReceivedPayments ==
  /\ \A h \in Hash : h \in paid => <<"lightning", h>> \in Received
  /\ \A t \in Tx : confs[t] = Depth => <<"onchain", t>> \in Received
  /\ \A a \in Auth : a \in consumed => <<"evm", a>> \in Received
  <1>1. ASSUME NEW h \in Hash, h \in paid PROVE <<"lightning", h>> \in Received
    <2>1. <<"lightning", h>> \in Payment
      BY DEF Payment
    <2> QED
      BY <1>1, <2>1 DEF Received
  <1>2. ASSUME NEW t \in Tx, confs[t] = Depth PROVE <<"onchain", t>> \in Received
    <2>1. <<"onchain", t>> \in Payment
      BY DEF Payment
    <2> QED
      BY <1>2, <2>1 DEF Received
  <1>3. ASSUME NEW a \in Auth, a \in consumed PROVE <<"evm", a>> \in Received
    <2>1. <<"evm", a>> \in Payment
      BY DEF Payment
    <2> QED
      BY <1>3, <2>1 DEF Received
  <1> QED
    BY <1>1, <1>2, <1>3

LEMMA LedgerStep ==
  ASSUME IInv, SiteNext
  PROVE  [Ledger!Next]_Ledger!vars
  <1> USE DEF IInv
  <1>1. ASSUME NEW q \in Request, SiteStep(q)
        PROVE  [Ledger!Next]_Ledger!vars
    <2> DEFINE r == ref[q]
    <2>1. CASE FacilitatorSettles(q, UsdcRefs(cred[q])) \/ FacilitatorFails(q)
      <3>1. /\ billed' = billed /\ credits' = credits /\ paid' = paid /\ confs' = confs
            /\ \/ consumed' = consumed
               \/ consumed' = consumed \cup {cred[q].auth}
        BY <2>1 DEF FacilitatorSettles, FacilitatorFails, SettlePayment, ledgerVars, dcr402Vars
      <3>2. <<"evm", cred[q].auth>> \in Payment
        BY <2>1 DEF FacilitatorSettles, FacilitatorFails, CarriesItsPayment, Carries,
           UsdcInHand, Evm, Payment
      <3>3. CASE consumed' = consumed
        BY <3>1, <3>3, ReceivedKept DEF Ledger!vars
      <3>4. CASE consumed' = consumed \cup {cred[q].auth}
        <4>1. Received' = Received \cup {<<"evm", cred[q].auth>>}
          BY <3>1, <3>2, <3>4 DEF Received, Payment
        <4> QED
          BY <3>1, <3>2, <4>1, ReceivedGrows
      <3> QED
        BY <3>1, <3>3, <3>4
    <2>2. CASE Bill(q)
      <3>1. r \in ExternalRef /\ PaymentOf(r) \in Received
        <4>1. /\ cred[q] \in Claimable /\ PaidFor(cred[q], spec[q])
              /\ r \in RefsOf(cred[q])
          BY <2>2 DEF Bill, CarriesItsPayment, Carries
        <4>2. r \in ExternalRef
          BY <4>1, RefsOfType
        <4>3. CASE cred[q] \in Lightning
          <5>1. r = <<"lightning", cred[q].hash>>
            BY <4>1, <4>3 DEF Lightning, RefsOf, DecredRef
          <5>2. cred[q].hash \in Hash /\ cred[q].hash \in paid
            BY <4>1, <4>3 DEF Lightning, PaidFor, Dcr402PaidFor
          <5>3. PaymentOf(r) = <<"lightning", cred[q].hash>>
            BY <5>1 DEF PaymentOf
          <5> QED
            BY <4>2, <5>2, <5>3, ReceivedPayments
        <4>4. CASE cred[q] \in Onchain
          <5>1. r = <<"onchain", cred[q].tx>>
            BY <4>1, <4>4 DEF Onchain, RefsOf, DecredRef
          <5>2. cred[q].tx \in Tx /\ confs[cred[q].tx] = Depth
            BY <4>1, <4>4 DEF Onchain, PaidFor, Dcr402PaidFor
          <5>3. PaymentOf(r) = <<"onchain", cred[q].tx>>
            BY <5>1 DEF PaymentOf
          <5> QED
            BY <4>2, <5>2, <5>3, ReceivedPayments
        <4>5. CASE cred[q] \in Evm
          <5>1. PaymentOf(r) = <<"evm", cred[q].auth>>
            BY <4>1, <4>5, UsdcRefsType DEF RefsOf, Evm
          <5>2. cred[q].auth \in Auth /\ cred[q].auth \in consumed
            BY <4>1, <4>5 DEF Evm, PaidFor, X402PaidFor
          <5> QED
            BY <4>2, <5>1, <5>2, ReceivedPayments
        <4> QED
          BY <4>1, <4>2, <4>3, <4>4, <4>5 DEF Claimable
      <3>2. credits' = credits /\ Received' = Received
        BY <2>2, ReceivedKept DEF Bill, dcr402Vars, x402Vars
      <3>3. PICK isFirst \in BOOLEAN :
              /\ MarkSettled(r, isFirst)
              /\ billed' = IF isFirst THEN [billed EXCEPT ![r] = @ + 1] ELSE billed
        BY <2>2 DEF Bill
      <3>4. CASE ~isFirst
        BY <3>2, <3>3, <3>4 DEF Ledger!vars
      <3>5. CASE isFirst
        <4>1. r \notin seen
          BY <3>3, <3>5, DurableAssumption DEF MarkSettled, SqlMarkSettled, MemMarkSettled
        <4>2. billed[r] + 1 <= Epochs
          BY <3>1, <4>1 DEF BillsAreCounted
        <4>3. billed[r] \in Nat /\ lives \in Nat /\ lives <= MaxLives /\ MaxLives \in Nat
          BY <3>1, LivesAssumption DEF TypeOK, LedgerTypeOK
        <4>4. billed[r] < IF Durable THEN 1 ELSE MaxLives
          BY <4>2, <4>3 DEF Epochs
        <4>5. Ledger!Bill(r)
          BY <3>1, <3>2, <3>3, <3>5, <4>4 DEF Ledger!Bill
        <4> QED
          BY <3>1, <4>5 DEF Ledger!Next
      <3> QED
        BY <3>4, <3>5
    <2>3. ASSUME NEW books \in BOOLEAN, books => first[q], Book(q, books)
          PROVE  [Ledger!Next]_Ledger!vars
      <3>1. billed' = billed /\ Received' = Received
        BY <2>3, ReceivedKept DEF Book, dcr402Vars, x402Vars
      <3>2. CASE ~books
        BY <2>3, <3>1, <3>2 DEF Book, Ledger!vars
      <3>3. CASE books
        <4>1. r \in ExternalRef
          BY <2>3, RefsOfType DEF Book, CarriesItsPayment, Carries
        <4>2. credits[r] < billed[r]
          BY <2>3, <3>3, <4>1 DEF Book, CreditsAreCounted, FirstTimer
        <4>3. Ledger!Credit(r)
          BY <2>3, <3>1, <3>3, <4>2 DEF Book, Ledger!Credit
        <4> QED
          BY <4>1, <4>3 DEF Ledger!Next
      <3> QED
        BY <3>2, <3>3
    <2>4. CASE Mints(q)
      BY <2>4, ReceivedKept DEF Mints, Mint, ledgerVars, x402Vars, Ledger!vars
    <2>5. CASE Passes(q) \/ Checks(q) \/ WorkDone(q) \/ GateSettles(q)
      <3>1. UNCHANGED restVars
        BY <2>5 DEF Passes, Checks, WorkDone, GateSettles, Start, TryNextRail, OfferFound,
           RequirementsMet, FacilitatorVerifies
      <3> QED
        BY <3>1, ReceivedKept DEF restVars, ledgerVars, dcr402Vars, x402Vars, Ledger!vars
    <2>6. CASE Book(q, FALSE) \/ Book(q, first[q])
      BY <2>3, <2>6 DEF TypeOK, RequestTypeOK
    <2> HIDE DEF r
    <2> QED
      BY <1>1, <2>1, <2>2, <2>4, <2>5, <2>6 DEF SiteStep
  <1>2. CASE Environment
    <2>1. billed' = billed /\ credits' = credits
      BY <1>2 DEF Environment, BuyerPays, BuyerDeposits, ChainConfirms, OfferExpires,
         RetryInitialize, Restart, ledgerVars
    <2>2. CASE \E h \in Hash : BuyerPays(h)
      <3>1. PICK h \in Hash : BuyerPays(h)
        BY <2>2
      <3>2. Received' = Received \cup {<<"lightning", h>>}
        BY <3>1 DEF BuyerPays, PayInvoice, x402Vars, Received, Payment
      <3>3. <<"lightning", h>> \in Payment
        BY DEF Payment
      <3> QED
        BY <2>1, <3>2, <3>3, ReceivedGrows
    <2>3. CASE \E t \in Tx : ChainConfirms(t)
      <3>1. PICK t \in Tx : ChainConfirms(t)
        BY <2>3
      <3>2. paid' = paid /\ consumed' = consumed /\ confs' = [confs EXCEPT ![t] = @ + 1]
        BY <3>1 DEF ChainConfirms, Confirm, x402Vars
      <3>3. confs \in [Tx -> 0 .. Depth] /\ confs[t] < Depth
        BY <3>1 DEF ChainConfirms, Confirm, TypeOK, Dcr402TypeOK
      <3>4. CASE confs[t] + 1 = Depth
        <4>1. <<"onchain", t>> \in Payment
          BY DEF Payment
        <4>2. \A p \in Payment :
                p[1] = "onchain" =>
                  (confs'[p[2]] = Depth <=> confs[p[2]] = Depth \/ p = <<"onchain", t>>)
          BY <3>2, <3>3, <3>4 DEF Payment
        <4>3. Received' = Received \cup {<<"onchain", t>>}
          BY <3>2, <4>1, <4>2 DEF Received
        <4> QED
          BY <2>1, <4>1, <4>3, ReceivedGrows
      <3>5. CASE confs[t] + 1 # Depth
        <4>1. \A p \in Payment :
                p[1] = "onchain" => (confs'[p[2]] = Depth <=> confs[p[2]] = Depth)
          BY <3>2, <3>3, <3>5 DEF Payment
        <4>2. Received' = Received
          BY <3>2, <4>1 DEF Received
        <4> QED
          BY <2>1, <4>2 DEF Ledger!vars
      <3> QED
        BY <3>4, <3>5
    <2>4. CASE \/ \E t \in Tx : BuyerDeposits(t)
               \/ \E o \in Offer : OfferExpires(o)
               \/ RetryInitialize \/ Restart
      BY <2>1, <2>4, ReceivedKept DEF BuyerDeposits, OfferExpires, RetryInitialize, Restart,
         Deposit, Expire, Sync, X402Restart, dcr402Vars, x402Vars, Ledger!vars
    <2> QED
      BY <1>2, <2>2, <2>3, <2>4 DEF Environment
  <1> QED
    BY <1>1, <1>2 DEF SiteNext

(* Every behaviour of a payment site is one of the abstract ledger: money  *)
(* before bill, bill before credit, and each at most as often as allowed.  *)
THEOREM SiteRefinement == SiteSpec => ImplementsLedger
  <1>1. Init => Ledger!Init
    BY DepthAssumption DEF Init, Dcr402Init, X402Init, Received, Payment, Ledger!Init
  <1>2. IInv /\ [SiteNext]_vars => [Ledger!Next]_Ledger!vars
    <2>1. CASE UNCHANGED vars
      BY <2>1, ReceivedKept DEF vars, ledgerVars, dcr402Vars, x402Vars, Ledger!vars
    <2> QED
      BY <2>1, LedgerStep
  <1> QED
    BY <1>1, <1>2, SiteInductive, PTL DEF SiteSpec, ImplementsLedger, Ledger!Spec
=============================================================================
