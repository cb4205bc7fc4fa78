----------------------------- MODULE PaymentSite -----------------------------
(***************************************************************************)
(* What Composer and PerCall have in common: concurrent requests that walk *)
(* an ordered set of rails with a credential, the rails' verification and  *)
(* settlement, the bill-once guard, the seller's ledger behind it, and     *)
(* what happens around the process: buyers, chain, time and restarts.      *)
(***************************************************************************)
EXTENDS SeenRefs, Dcr402Rail, X402Rail

CONSTANTS
    Request,      \* request slots: a slot holds one request at a time
    Tool,         \* the sites that are sold per call, by PerCall; the others by Composer
    Rails,        \* the rails in composition order
    Presented,    \* the credentials the requests present (a bound)
    MaxLives      \* process lives explored (a bound)

RailName == {"dcr402", "x402"}
Composes(rail) == \E i \in 1 .. Len(Rails) : Rails[i] = rail

ASSUME RailsAssumption == Rails \in Seq(RailName)
ASSUME SiteAssumption == Resource # {} /\ USD # {}
ASSUME ToolAssumption == Tool \subseteq Resource
ASSUME PresentedAssumption == Presented \subseteq Credential
ASSUME LivesAssumption == MaxLives \in Nat \ {0}

VARIABLES
    pc,           \* where each request is
    spec,         \* the site and price it is about
    cred,         \* the credential it presents
    at,           \* the next rail of its walk
    ref,          \* the reference of the settlement it has in hand
    first,        \* what the guard answered it
    answer,       \* the status its slot last answered
    billed,       \* how often the guard answered "first time" for a reference
    credits,      \* how often the service booked a reference as new revenue
    lives         \* the lives of the process so far

requestVars == <<pc, spec, cred, at, ref, first, answer>>
ledgerVars  == <<seen, billed, credits>>
vars == <<requestVars, ledgerVars, dcr402Vars, x402Vars, lives>>

(* All a handler's step leaves alone but its own request.                  *)
restVars == <<ledgerVars, dcr402Vars, x402Vars, lives>>

(***************************************************************************)
(* idle      no request in this slot                                       *)
(* walk      the loop over the rails, before the rail at[q]                *)
(* verify    the USDC rail, before VerifyPayment                           *)
(* run       per call: verified, before the work                           *)
(* gate      the Decred rail, before gate.Settle                           *)
(* settle    the USDC rail, before SettlePayment                           *)
(* bill      a settlement in hand, before MarkSettled                      *)
(* serve     billed, before the service answers                            *)
(* challenge no payment in hand, before the 402                            *)
(***************************************************************************)
Control ==
    {"idle", "walk", "verify", "run", "gate", "settle", "bill", "serve", "challenge"}
Status == {"none", "200", "202", "400", "401", "402", "404", "500"}

RequestTypeOK ==
    /\ pc \in [Request -> Control]
    /\ spec \in [Request -> ChallengeSpec]
    /\ cred \in [Request -> Credential]
    /\ at \in [Request -> 1 .. Len(Rails) + 1]
    /\ ref \in [Request -> ExternalRef \cup {NoRef}]
    /\ first \in [Request -> BOOLEAN]
    /\ answer \in [Request -> Status]

LedgerTypeOK ==
    /\ seen \subseteq ExternalRef
    /\ billed \in [ExternalRef -> Nat]
    /\ credits \in [ExternalRef -> Nat]

(* The type invariant.                                                     *)
TypeOK ==
    /\ RequestTypeOK
    /\ LedgerTypeOK
    /\ Dcr402TypeOK
    /\ X402TypeOK
    /\ lives \in 1 .. MaxLives

(* What an empty slot holds where a request would have its site.           *)
NoSite == [resource |-> CHOOSE r \in Resource : TRUE, usd |-> CHOOSE u \in USD : TRUE]

Init ==
    /\ pc = [q \in Request |-> "idle"]
    /\ spec = [q \in Request |-> NoSite]
    /\ cred = [q \in Request |-> Absent]
    /\ at = [q \in Request |-> 1]
    /\ ref = [q \in Request |-> NoRef]
    /\ first = [q \in Request |-> FALSE]
    /\ answer = [q \in Request |-> "none"]
    /\ seen = {}
    /\ billed = [r \in ExternalRef |-> 0]
    /\ credits = [r \in ExternalRef |-> 0]
    /\ lives = 1
    /\ Dcr402Init
    /\ X402Init
    /\ ~Composes("x402") => synced     \* nothing to sync without the rail

-----------------------------------------------------------------------------
(* A request arrives, moves on, is answered.                               *)

IsCall(q) == spec[q].resource \in Tool

(* The buyer can form this credential.                                     *)
Presentable(c) == c \in Presented /\ Dcr402Presentable(c)

Start(q, s, c) ==
    /\ pc[q] = "idle"
    /\ pc' = [pc EXCEPT ![q] = "walk"]
    /\ spec' = [spec EXCEPT ![q] = s]
    /\ cred' = [cred EXCEPT ![q] = c]
    /\ at' = [at EXCEPT ![q] = 1]
    /\ ref' = [ref EXCEPT ![q] = NoRef]
    /\ first' = [first EXCEPT ![q] = FALSE]
    /\ answer' = [answer EXCEPT ![q] = "none"]
    /\ UNCHANGED restVars

Reply(q, status) ==
    /\ pc' = [pc EXCEPT ![q] = "idle"]
    /\ spec' = [spec EXCEPT ![q] = NoSite]
    /\ cred' = [cred EXCEPT ![q] = Absent]
    /\ at' = [at EXCEPT ![q] = 1]
    /\ ref' = [ref EXCEPT ![q] = NoRef]
    /\ first' = [first EXCEPT ![q] = FALSE]
    /\ answer' = [answer EXCEPT ![q] = status]

Goto(q, next) ==
    /\ pc' = [pc EXCEPT ![q] = next]
    /\ UNCHANGED <<spec, cred, at, ref, first, answer>>

(* The rail returns a Settlement with this reference.                      *)
Settled(q, r) ==
    /\ pc' = [pc EXCEPT ![q] = "bill"]
    /\ ref' = [ref EXCEPT ![q] = r]
    /\ UNCHANGED <<spec, cred, at, first, answer>>

-----------------------------------------------------------------------------
(* The walk over the rails.                                                *)

AtRail(q, rail) == pc[q] = "walk" /\ at[q] <= Len(Rails) /\ Rails[at[q]] = rail

WalkEnded(q) == pc[q] = "walk" /\ at[q] > Len(Rails)

(* (nil, nil): the payload is left for the next rail.                      *)
TryNextRail(q) ==
    /\ at' = [at EXCEPT ![q] = @ + 1]
    /\ UNCHANGED <<pc, spec, cred, ref, first, answer>>
    /\ UNCHANGED restVars

(* The Decred rail finds the offer, minted for this site and price.        *)
OfferFound(q, next) ==
    /\ OfferedFor(cred[q], spec[q])
    /\ Goto(q, next)
    /\ UNCHANGED restVars

(* The payment matches the USDC rail's requirements for this price.        *)
RequirementsMet(q) ==
    /\ Matches(cred[q], spec[q])
    /\ Goto(q, "verify")
    /\ UNCHANGED restVars

(* The payment is refused: the handler answers 401.                        *)
Refuse(q) ==
    /\ Reply(q, "401")
    /\ UNCHANGED restVars

-----------------------------------------------------------------------------
(* Verification and settlement by the rails' backends.                     *)

GateSettles(q) ==
    /\ pc[q] = "gate"
    /\ GateAccepts(cred[q])
    /\ Settled(q, DecredRef(cred[q]))
    /\ UNCHANGED restVars

(* Any verdict but settled and pending, the gate's own failures among them. *)
GateRefuses(q) == pc[q] = "gate" /\ Refuse(q)

FacilitatorVerifies(q, next) ==
    /\ pc[q] = "verify"
    /\ VerifyCanSucceed
    /\ Goto(q, next)
    /\ UNCHANGED restVars

(* Mutation: a payment the facilitator declined is offered to the rails    *)
(* again.                                                                  *)
FacilitatorDeclinesAgain(q) ==
    /\ pc[q] = "verify"
    /\ \/ Refuse(q)
       \/ Goto(q, "walk") /\ UNCHANGED restVars

FacilitatorDeclines(q) == pc[q] = "verify" /\ Refuse(q)

FacilitatorSettles(q, refs) ==
    /\ pc[q] = "settle"
    /\ SettlePayment(cred[q], TRUE)
    /\ \E r \in refs : Settled(q, r)
    /\ UNCHANGED <<ledgerVars, dcr402Vars, lives>>

(* Failed, or executed without an answer.                                  *)
FacilitatorFails(q) ==
    /\ pc[q] = "settle"
    /\ SettlePayment(cred[q], FALSE)
    /\ Reply(q, "401")
    /\ UNCHANGED <<ledgerVars, dcr402Vars, lives>>

(* The guard is asked, and a first time billed.                            *)
Bill(q) ==
    /\ pc[q] = "bill"
    /\ \E isFirst \in BOOLEAN :
        /\ MarkSettled(ref[q], isFirst)
        /\ first' = [first EXCEPT ![q] = isFirst]
        /\ billed' = IF isFirst
                     THEN [billed EXCEPT ![ref[q]] = @ + 1]
                     ELSE billed
    /\ pc' = [pc EXCEPT ![q] = "serve"]
    /\ UNCHANGED <<spec, cred, at, ref, answer, credits, dcr402Vars, x402Vars, lives>>

(* The service books the reference where "books" says so, and answers.     *)
Book(q, books) ==
    /\ pc[q] = "serve"
    /\ credits' = IF books THEN [credits EXCEPT ![ref[q]] = @ + 1] ELSE credits
    /\ Reply(q, "200")
    /\ UNCHANGED <<seen, billed, dcr402Vars, x402Vars, lives>>

-----------------------------------------------------------------------------
(* Outside the requests.                                                   *)

BuyerPays(h)     == PayInvoice(h) /\ UNCHANGED <<requestVars, ledgerVars, x402Vars, lives>>
BuyerDeposits(t) == /\ \E addrs \in SUBSET Addr : Deposit(t, addrs)
                    /\ UNCHANGED <<requestVars, ledgerVars, x402Vars, lives>>
ChainConfirms(t) == Confirm(t) /\ UNCHANGED <<requestVars, ledgerVars, x402Vars, lives>>
OfferExpires(o)  == Expire(o) /\ UNCHANGED <<requestVars, ledgerVars, x402Vars, lives>>
RetryInitialize  == Sync /\ UNCHANGED <<requestVars, ledgerVars, dcr402Vars, lives>>

(* The process dies with its requests; the gate's store survives.          *)
Restart ==
    /\ lives < MaxLives
    /\ lives' = lives + 1
    /\ pc' = [q \in Request |-> "idle"]
    /\ spec' = [q \in Request |-> NoSite]
    /\ cred' = [q \in Request |-> Absent]
    /\ at' = [q \in Request |-> 1]
    /\ ref' = [q \in Request |-> NoRef]
    /\ first' = [q \in Request |-> FALSE]
    /\ answer' = [q \in Request |-> "none"]
    /\ GuardRestart
    /\ X402Restart
    /\ ~Composes("x402") => synced'
    /\ UNCHANGED <<billed, credits, dcr402Vars>>

Environment ==
    \/ \E h \in Hash : BuyerPays(h)
    \/ \E t \in Tx : BuyerDeposits(t) \/ ChainConfirms(t)
    \/ \E o \in Offer : OfferExpires(o)
    \/ RetryInitialize
    \/ Restart

-----------------------------------------------------------------------------
(***************************************************************************)
(* The steps a handler of either kind is made of. Composer and PerCall     *)
(* order and guard them more narrowly; the safety properties depend on no  *)
(* more than this.                                                         *)
(***************************************************************************)
Passes(q) ==
    \/ \E s \in ChallengeSpec, c \in Presented : Presentable(c) /\ Start(q, s, c)
    \/ pc[q] = "walk" /\ at[q] <= Len(Rails) /\ TryNextRail(q)
    \/ pc[q] = "walk" /\ Goto(q, "challenge") /\ UNCHANGED restVars
    \/ \E status \in Status \ {"200"} : Reply(q, status) /\ UNCHANGED restVars

Checks(q) ==
    \/ /\ pc[q] = "walk" /\ cred[q] \in Lightning \cup Onchain
       /\ \E next \in {"run", "gate"} : OfferFound(q, next)
    \/ pc[q] = "walk" /\ cred[q] \in Evm /\ RequirementsMet(q)
    \/ \E next \in {"run", "settle"} : FacilitatorVerifies(q, next)

(* The work is done, and the payment that was verified before it is used.  *)
WorkDone(q) ==
    /\ pc[q] = "run"
    /\ Goto(q, IF cred[q].kind = "evm" THEN "settle" ELSE "gate")
    /\ UNCHANGED restVars

Mints(q) ==
    /\ \E offers \in SUBSET Offer : Mint(offers, spec[q])
    /\ \E status \in Status \ {"200"} : Reply(q, status)
    /\ UNCHANGED <<ledgerVars, x402Vars, lives>>

SiteStep(q) ==
    \/ Passes(q) \/ Checks(q) \/ WorkDone(q) \/ Mints(q)
    \/ GateSettles(q) \/ FacilitatorSettles(q, UsdcRefs(cred[q])) \/ FacilitatorFails(q)
    \/ Bill(q) \/ Book(q, FALSE) \/ Book(q, first[q])

SiteNext == (\E q \in Request : SiteStep(q)) \/ Environment

SiteSpec == Init /\ [][SiteNext]_vars

-----------------------------------------------------------------------------
(* Safety.                                                                 *)

(***************************************************************************)
(* However requests race, replay or are cut off by a restart, the guard    *)
(* answers "first time" once for a reference: once ever with the durable   *)
(* guard, once in each life of the process with memSeen.                   *)
(***************************************************************************)
Epochs == IF Durable THEN 1 ELSE lives

BillOnce == \A r \in ExternalRef : billed[r] <= Epochs

(***************************************************************************)
(* Revenue once: a payment is billed under one reference only, whichever   *)
(* surface it is presented to, however often and however it is encoded, so *)
(* that BillOnce bounds the bills of the payment and not only those of a   *)
(* reference. It holds where the facilitator names the transaction of what *)
(* it settles (NamesTx); the fallback to a fingerprint gives it up.        *)
(***************************************************************************)
OneReferencePerPayment ==
    \A r, s \in ExternalRef :
        PaymentOf(r) = PaymentOf(s) /\ billed[r] > 0 /\ billed[s] > 0 => r = s

(***************************************************************************)
(* Every credit in the ledger, and every credit a request may be about to  *)
(* write, is backed by a bill of its own: two requests that present the    *)
(* same proof at the same time never both book it.                         *)
(***************************************************************************)
FirstTimer(q, r) == pc[q] = "serve" /\ first[q] /\ ref[q] = r

CreditsBacked ==
    \A r \in ExternalRef :
        credits[r] + Cardinality({q \in Request : FirstTimer(q, r)}) <= billed[r]

(***************************************************************************)
(* A site is served, a top-up answered as credited or a call's result      *)
(* delivered only for a payment made for it: the Decred offer was minted   *)
(* for this site and price and has been paid to the required depth; the    *)
(* USDC authorisation was for this price and has been executed. It holds   *)
(* although offers expire and other requests settle between the check of   *)
(* the binding and the answer.                                             *)
(***************************************************************************)
PaidFor(c, s) ==
    IF c.kind = "evm" THEN X402PaidFor(c, s) ELSE Dcr402PaidFor(c, s)

Answers(q, status) == pc[q] # "idle" /\ pc'[q] = "idle" /\ answer'[q] = status

GrantsArePaid ==
    [][\A q \in Request : Answers(q, "200") => PaidFor(cred[q], spec[q])]_vars

(***************************************************************************)
(* A handler takes a bounded number of steps, whatever it carries and      *)
(* whatever other requests, the backends and time do meanwhile: it never   *)
(* walks back to a rail, verifies or settles again, or retries a refusal.  *)
(* StepsLeft bounds the steps it still takes. How long a step waits for    *)
(* the gate, the facilitator or the database is up to them: the code sets  *)
(* no deadline.                                                            *)
(***************************************************************************)
StepsLeft(q) ==
    CASE pc[q] = "idle"                    -> 0
      [] pc[q] \in {"challenge", "serve"}  -> 1
      [] pc[q] = "bill"                    -> 2
      [] pc[q] \in {"gate", "settle"}      -> 3
      [] pc[q] = "run"                     -> 4
      [] pc[q] = "verify"                  -> 5
      [] pc[q] = "walk"                    -> 6 + Len(Rails) + 1 - at[q]

StepTaken(q) == pc'[q] # pc[q] \/ at'[q] # at[q]

HandlersTerminate ==
    [][\A q \in Request :
          pc[q] # "idle" /\ StepTaken(q) => StepsLeft(q)' < StepsLeft(q)]_vars

-----------------------------------------------------------------------------
(***************************************************************************)
(* The inductive invariant behind the safety properties: what a request    *)
(* that left the walk carries, what the buyer holds, how many bills the    *)
(* guard can still admit, and that a credit in flight has a bill of its    *)
(* own.                                                                    *)
(***************************************************************************)
DecredInHand(q) ==
    /\ cred[q] \in Lightning \cup Onchain
    /\ bound[OfferOf(cred[q])] = BoundResource(spec[q])

(* The references a settlement of this credential may be given.            *)
RefsOf(c) == IF c.kind = "evm" THEN UsdcRefs(c) ELSE {DecredRef(c)}

UsdcInHand(q) == cred[q] \in Evm /\ SignedFor[cred[q].auth].usd = spec[q].usd

Carries(q) ==
    /\ pc[q] = "gate" => DecredInHand(q)
    /\ pc[q] \in {"verify", "settle"} => UsdcInHand(q)
    /\ pc[q] = "run" => DecredInHand(q) \/ UsdcInHand(q)
    /\ pc[q] \in {"bill", "serve"} =>
          /\ cred[q] \in Claimable /\ PaidFor(cred[q], spec[q])
          /\ ref[q] \in RefsOf(cred[q])

CarriesItsPayment == \A q \in Request : Carries(q)

PreimagesAreBought ==
    \A q \in Request : cred[q] \in Lightning /\ cred[q].good => cred[q].hash \in paid

BillsAreCounted ==
    \A r \in ExternalRef : billed[r] + (IF r \in seen THEN 0 ELSE 1) <= Epochs

CreditsAreCounted ==
    /\ \A r \in ExternalRef : credits[r] <= billed[r]
    /\ \A r \in ExternalRef, q \in Request :
          FirstTimer(q, r) => r \in seen /\ credits[r] < billed[r]
    /\ \A r \in ExternalRef, p, q \in Request :
          FirstTimer(p, r) /\ FirstTimer(q, r) => p = q

(* Only a settlement without a named transaction is billed by fingerprint. *)
FingerprintsAreFallbacks ==
    \A r \in ExternalRef : r[1] = "fingerprint" /\ billed[r] > 0 => ~NamesTx

IInv ==
    /\ TypeOK
    /\ CarriesItsPayment
    /\ PreimagesAreBought
    /\ BillsAreCounted
    /\ CreditsAreCounted
    /\ FingerprintsAreFallbacks

-----------------------------------------------------------------------------
(***************************************************************************)
(* The seller's ledger, implemented: a reference is billed only once the   *)
(* money behind it is there, at most once (in each life with memSeen), and *)
(* each bill is credited at most once. It is said of references: a payment *)
(* with several of them has as many entries (see OneReferencePerPayment).  *)
(***************************************************************************)
Received ==
    {p \in Payment :
        \/ p[1] = "lightning" /\ p[2] \in paid
        \/ p[1] = "onchain" /\ confs[p[2]] = Depth
        \/ p[1] = "evm" /\ p[2] \in consumed}

Ledger == INSTANCE SellerLedger WITH
              Ref <- ExternalRef,
              Pays <- [r \in ExternalRef |-> PaymentOf(r)],
              Limit <- IF Durable THEN 1 ELSE MaxLives,
              received <- Received

ImplementsLedger == Ledger!Spec

=============================================================================
