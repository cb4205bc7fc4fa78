------------------------------ MODULE Composer ------------------------------
(***************************************************************************)
(* seam.Composer under concurrent HTTP requests: the sites behind Require  *)
(* and the custom top-up site of services/dcr402svc that uses              *)
(* SettleRequest. A request walks the rails in order; the rail that claims *)
(* its credential settles it; the settlement is billed through the guard   *)
(* and the site is served, or the top-up credited.                         *)
(***************************************************************************)
EXTENDS PaymentSite

CONSTANTS
    Price,        \* the price of each resource, NoPrice where it has none
    NoPrice,
    TopupSite,    \* the resource of the top-up handler
    TopupUSD,     \* the amounts within the top-up limits
    RailTopup     \* the top-up of dcr402svc, or (FALSE) that of exampled

ASSUME PriceAssumption == Price \in [Resource -> USD \cup {NoPrice}]
ASSUME TopupAssumption ==
    TopupSite \in Resource \ Tool /\ TopupUSD \subseteq USD /\ RailTopup \in BOOLEAN

IsTopup(q) == spec[q].resource = TopupSite

-----------------------------------------------------------------------------
(* A request arrives.                                                      *)

Require(q, r, c) ==
    /\ r \notin Tool \cup {TopupSite}
    /\ Price[r] # NoPrice
    /\ Presentable(c)
    /\ Start(q, [resource |-> r, usd |-> Price[r]], c)

(* No price: 404, whatever the request carries.                            *)
RequireUnpriced(q, r) ==
    /\ r \notin Tool \cup {TopupSite}
    /\ Price[r] = NoPrice
    /\ pc[q] = "idle"
    /\ Reply(q, "404")
    /\ UNCHANGED restVars

Topup(q, u, c) ==
    /\ u \in TopupUSD
    /\ Presentable(c)
    /\ Start(q, [resource |-> TopupSite, usd |-> u], c)

(* An amount outside the limits, or none at all: 400.                      *)
TopupOutOfRange(q) ==
    /\ pc[q] = "idle"
    /\ Reply(q, "400")
    /\ UNCHANGED restVars

-----------------------------------------------------------------------------
(* trySettle.                                                              *)

Demux(rail, c) == IF rail = "dcr402" THEN Dcr402Demux(c) ELSE X402Demux(c)

LeaveToNextRail(q) ==
    /\ \E rail \in RailName : AtRail(q, rail) /\ Demux(rail, cred[q]) = "leave"
    /\ TryNextRail(q)

(* The rail owns the header but cannot read it: 401.                       *)
RefuseUnreadable(q) ==
    /\ \E rail \in RailName : AtRail(q, rail) /\ Demux(rail, cred[q]) = "refuse"
    /\ Refuse(q)

(* The loop ends without an owner.                                         *)
NoRailClaims(q) ==
    /\ WalkEnded(q)
    /\ Goto(q, "challenge")
    /\ UNCHANGED restVars

Dcr402Claims(q) == AtRail(q, "dcr402") /\ Dcr402Demux(cred[q]) = "claim"

FindOffer(q) == Dcr402Claims(q) /\ OfferFound(q, "gate")

(* It was minted for something else, it is gone, or the store failed.      *)
OfferRefused(q) == Dcr402Claims(q) /\ Refuse(q)

(* ErrPendingConfirmation is "pending" to the top-up of dcr402svc, and an   *)
(* error to Require and to exampled.                                       *)
GatePending(q) ==
    /\ pc[q] = "gate"
    /\ GateWaits(cred[q])
    /\ Reply(q, IF IsTopup(q) /\ RailTopup THEN "202" ELSE "401")
    /\ UNCHANGED restVars

X402Claims(q) == AtRail(q, "x402") /\ X402Demux(cred[q]) = "claim"

MatchRequirements(q) == X402Claims(q) /\ RequirementsMet(q)

(* Another price, or requirements that could not be built.                 *)
RequirementsRefused(q) == X402Claims(q) /\ Refuse(q)

(* Mutation: the payment is billed once it is verified, and never settled. *)
VerifyOnly(q) ==
    /\ pc[q] = "verify"
    /\ VerifyCanSucceed
    /\ \E r \in UsdcRefs(cred[q]) : Settled(q, r)
    /\ UNCHANGED restVars

Verify(q) == FacilitatorVerifies(q, "settle")

(* With a transaction or without: the settlement is billed either way.     *)
SettleOnChain(q) == FacilitatorSettles(q, UsdcRefs(cred[q]))

-----------------------------------------------------------------------------
(* A settlement in hand and billed.                                        *)

(* Require serves a replay too.                                            *)
Serve(q) == ~IsTopup(q) /\ Book(q, FALSE)

(* Mutation: a replayed top-up is credited again.                          *)
CreditReplays(q) == IsTopup(q) /\ Book(q, TRUE)

(* The top-up answers "credited" the first time, "already_credited" after. *)
Credit(q) == IsTopup(q) /\ Book(q, first[q])

-----------------------------------------------------------------------------
(* No settlement: the challenge.                                           *)

(***************************************************************************)
(* Write402 and ChallengeJSON each mint a Lightning challenge, either may  *)
(* fail, and the 402 is written regardless. exampled's top-up is           *)
(* challenged like any site.                                               *)
(***************************************************************************)
WriteChallenge(q) ==
    /\ pc[q] = "challenge"
    /\ ~(IsTopup(q) /\ RailTopup)
    /\ \E minted \in SUBSET Hash :
        /\ Cardinality(minted) <= 2
        /\ ~Composes("dcr402") => minted = {}
        /\ Mint(minted, spec[q])
    /\ Reply(q, "402")
    /\ UNCHANGED <<ledgerVars, x402Vars, lives>>

(* WriteTopup402 mints an invoice and, with -onchain, a deposit address.   *)
WriteTopup(q) ==
    /\ pc[q] = "challenge"
    /\ IsTopup(q) /\ RailTopup
    /\ \E h \in Hash, addrs \in SUBSET Addr :
        /\ Cardinality(addrs) <= 1
        /\ Mint({h} \cup addrs, spec[q])
    /\ Reply(q, "402")
    /\ UNCHANGED <<ledgerVars, x402Vars, lives>>

(* Minting failed: 500. What it had stored by then stays stored.           *)
WriteTopupFails(q) ==
    /\ pc[q] = "challenge"
    /\ IsTopup(q) /\ RailTopup
    /\ \E hashes \in SUBSET Hash :
        /\ Cardinality(hashes) <= 1
        /\ Mint(hashes, spec[q])
    /\ Reply(q, "500")
    /\ UNCHANGED <<ledgerVars, x402Vars, lives>>

-----------------------------------------------------------------------------
Arrive(q) ==
    \/ \E r \in Resource, c \in Presented : Require(q, r, c)
    \/ \E r \in Resource : RequireUnpriced(q, r)
    \/ \E u \in USD, c \in Presented : Topup(q, u, c)
    \/ TopupOutOfRange(q)

Handle(q) ==
    /\ ~IsCall(q)
    /\ \/ LeaveToNextRail(q) \/ RefuseUnreadable(q) \/ NoRailClaims(q)
       \/ FindOffer(q) \/ OfferRefused(q)
       \/ GateSettles(q) \/ GatePending(q) \/ GateRefuses(q)
       \/ MatchRequirements(q) \/ RequirementsRefused(q)
       \/ Verify(q) \/ FacilitatorDeclines(q)
       \/ SettleOnChain(q) \/ FacilitatorFails(q)
       \/ Bill(q) \/ Serve(q) \/ Credit(q)
       \/ WriteChallenge(q) \/ WriteTopup(q) \/ WriteTopupFails(q)

Next ==
    \/ \E q \in Request : Arrive(q) \/ Handle(q)
    \/ Environment

Spec == Init /\ [][Next]_vars

-----------------------------------------------------------------------------
(***************************************************************************)
(* A request with a credential of some composed rail is never answered     *)
(* with a challenge, which would invite the buyer to pay again, and is     *)
(* refused only by a rail that owns it. What the SDK's type can hold has   *)
(* one owner whatever the order of the rails; what it cannot hold, Decred  *)
(* payments included, the USDC rail takes for its own, so that the rail    *)
(* that comes first decides.                                               *)
(***************************************************************************)
Owns(rail, c) ==
    \/ c.kind = "undecodable"
    \/ rail = "dcr402" /\ c.kind \in {"otherNet", "badDecred", "lightning", "onchain"}
    \/ rail = "x402" /\ (c.kind = "evm" \/ (c # Absent /\ c \notin SDKReads))

AnswerMatchesOwnership ==
    [][\A q \in Request : ~IsCall(q) =>
        /\ Answers(q, "402") => \A i \in 1 .. Len(Rails) : ~Owns(Rails[i], cred[q])
        /\ Answers(q, "401") => Owns(Rails[at[q]], cred[q])]_vars

(* The invariant behind it: the rails walked past do not own the           *)
(* credential, and a request at a rail's backend is at its owner.          *)
WalksInOrder(q) ==
    /\ pc[q] = "walk" => \A i \in 1 .. at[q] - 1 : ~Owns(Rails[i], cred[q])
    /\ pc[q] = "challenge" => \A i \in 1 .. Len(Rails) : ~Owns(Rails[i], cred[q])
    /\ pc[q] \in {"gate", "verify", "settle"} =>
          at[q] \in 1 .. Len(Rails) /\ Owns(Rails[at[q]], cred[q])

OwnersDecide == \A q \in Request : ~IsCall(q) => WalksInOrder(q)

-----------------------------------------------------------------------------
(***************************************************************************)
(* What the sources say and the code does not do, checked by a run that    *)
(* finds it violated.                                                      *)
(***************************************************************************)

(* "rails bind challenges to site and amount": whatever was paid for was   *)
(* offered for the very site it is presented at.                           *)
BoundToSite ==
    [][\A q \in Request : Answers(q, "200") =>
        spec[q] = IF cred[q].kind = "evm" THEN SignedFor[cred[q].auth]
                  ELSE LET b == bound[OfferOf(cred[q])]
                       IN [resource |-> b[1], usd |-> b[2]]]_vars

-----------------------------------------------------------------------------
(***************************************************************************)
(* Liveness. Once a backend has answered, a handler goes on, and every     *)
(* backend answers in the end (an assumption: the code sets no deadline    *)
(* for the gate, the facilitator or the database). A buyer who paid for a  *)
(* top-up keeps presenting the proof at the top-up's own amount and        *)
(* sometimes finds a free slot; the store and the gate do not fail         *)
(* forever; the chain confirms what it holds.                              *)
(***************************************************************************)
TopupProof(c) ==
    /\ c \in Lightning \cup Onchain
    /\ c.kind = "lightning" => c.good

Retries(c) ==
    \E q \in Request, u \in USD :
        bound[OfferOf(c)] = <<TopupSite, u>> /\ Topup(q, u, c)

Finds(c)   == \E q \in Request : ~IsCall(q) /\ cred[q] = c /\ FindOffer(q)
Settles(c) == \E q \in Request : cred[q] = c /\ GateSettles(q)

TopupBuyers ==
    \A c \in {p \in Presented : TopupProof(p)} :
        SF_vars(Retries(c)) /\ SF_vars(Finds(c)) /\ SF_vars(Settles(c))

Confirms == \A t \in Tx : WF_vars(ChainConfirms(t))

FairSpec == Spec /\ TopupBuyers /\ Confirms /\ \A q \in Request : WF_vars(Handle(q))

(***************************************************************************)
(* A paid top-up invoice is credited in the end, whatever restarts and     *)
(* refusals come first. It needs a guard that forgets with the process     *)
(* (memSeen, as dcr402svc composes it): seenrefs.SQL may remember a        *)
(* reference whose credit a crash or a broken database has lost.           *)
(***************************************************************************)
ForTopup(o) == bound[o] # NotMinted /\ bound[o][1] = TopupSite

LightningCredited ==
    \A h \in Hash : (h \in paid /\ ForTopup(h)) ~> credits[<<"lightning", h>>] > 0

(* So is a transaction that funds a top-up address, once it is deep.       *)
DepositCredited ==
    \A t \in Tx :
        (\E d \in deposits : d[1] = t /\ ForTopup(d[2])) ~> credits[<<"onchain", t>>] > 0
=============================================================================
