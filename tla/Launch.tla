------------------------------- MODULE Launch -------------------------------
(***************************************************************************)
(* How a service comes up (services/dcr402svc, services/x402svc): it loads *)
(* its prices, opens its rail, lists /hello on the discovery indexes by    *)
(* minting a representative challenge and submitting its offers, and only  *)
(* then listens. Facilitator, node and indexes may hang: every wait has a  *)
(* deadline. A post that was given up, or whose process died, may still    *)
(* reach its index later.                                                  *)
(*                                                                         *)
(* Time is measured from the moment the process has dialled its node and   *)
(* opened its store; it passes only while the process waits.               *)
(***************************************************************************)
EXTENDS Dcr402Rail

CONSTANTS
    Hello,        \* the site that is listed
    WireURL,      \* its public URL, which the listing advertises
    NoPrice,      \* what prices.json says of a site it does not have
    Registrars,   \* the Multiplexer's targets, in order
    SyncTimeout,  \* the deadline of the USDC rail's Initialize
    ListTimeout,  \* the deadline selfList gives its mint and submissions together
    SubmitTimeout,\* discovery.DefaultTimeout, of one submission
    MaxLives      \* process lives explored (a bound)

Turns == 1 .. Len(Registrars)
Index == {Registrars[i] : i \in Turns}

ASSUME HelloAssumption == Hello \in Resource /\ WireURL \in Resource /\ NoPrice \notin USD
ASSUME RegistrarsAssumption == Registrars \in Seq(Index)
ASSUME TimeoutAssumption == SyncTimeout \in Nat /\ ListTimeout \in Nat /\ SubmitTimeout \in Nat
ASSUME LaunchesAssumption == MaxLives \in Nat \ {0}

(* What an index is told: the price, and the offer minted for it (none by  *)
(* the USDC rail, whose requirements name the price alone).                *)
Terms == [usd : USD, offers : SUBSET Hash]

VARIABLES
    service,      \* "dcr402svc" or "x402svc"
    stage,        \* where its main function is
    price,        \* the price of /hello in this life
    indexed,      \* -discovery is given
    terms,        \* what this life lists
    elapsed,      \* the time since this life's start
    due,          \* when the present wait ends at the latest
    ctx,          \* when selfList's context ends
    next,         \* the next target
    ok,           \* the targets counted as listed
    fate,         \* what became of this life's submission to each target
    pending,      \* posts on their way, each with its target and its life
    listing,      \* what each index lists
    lives         \* the lives of the process so far

configVars == <<service, price, indexed, lives>>
timeVars   == <<elapsed, due, ctx>>
submitVars == <<terms, next, ok, fate>>
indexVars  == <<pending, listing>>
vars == <<dcr402Vars, stage, configVars, timeVars, submitVars, indexVars>>

(***************************************************************************)
(* load, open: prices and rail; sync: Initialize of the USDC rail; list:   *)
(* before selfList; mint: its ChallengeJSON; next: RegisterAll between two *)
(* targets; post: inside one Submit; then listening, or exited.            *)
(***************************************************************************)
Stage == {"load", "open", "sync", "list", "mint", "next", "post", "listening", "exited"}
Fate  == {"none", "sent", "took", "late"}

TypeOK ==
    /\ Dcr402TypeOK
    /\ service \in {"dcr402svc", "x402svc"}
    /\ stage \in Stage
    /\ price \in USD \cup {NoPrice}
    /\ indexed \in BOOLEAN
    /\ terms \in SUBSET Terms
    /\ elapsed \in Nat /\ due \in Nat /\ ctx \in Nat
    /\ next \in 1 .. Len(Registrars) + 1
    /\ ok \in Nat
    /\ fate \in [Turns -> Fate]
    /\ pending \subseteq Turns \X Terms \X (1 .. MaxLives)
    /\ listing \in [Index -> SUBSET Terms]
    /\ lives \in 1 .. MaxLives

Init ==
    /\ Dcr402Init
    /\ service \in {"dcr402svc", "x402svc"}
    /\ stage = "load"
    /\ price = NoPrice
    /\ indexed = FALSE
    /\ terms = {}
    /\ elapsed = 0 /\ due = 0 /\ ctx = 0
    /\ next = 1
    /\ ok = 0
    /\ fate = [i \in Turns |-> "none"]
    /\ pending = {}
    /\ listing = [t \in Index |-> {}]
    /\ lives = 1

-----------------------------------------------------------------------------
(* main, up to selfList.                                                   *)

(* prices.json may have been edited since the last life.                   *)
Load ==
    /\ stage = "load"
    /\ stage' = "open"
    /\ price' \in USD \cup {NoPrice}
    /\ indexed' \in BOOLEAN
    /\ UNCHANGED <<dcr402Vars, service, lives, timeVars, submitVars, indexVars>>

(* New: only the USDC rail waits, for its facilitator's supported kinds.   *)
Open ==
    /\ stage = "open"
    /\ stage' = IF service = "x402svc" THEN "sync" ELSE "list"
    /\ due' = elapsed + SyncTimeout
    /\ UNCHANGED <<dcr402Vars, configVars, elapsed, ctx, submitVars, indexVars>>

(* log.Fatal: no prices, no rail, or (at the end) no listener.             *)
Exit ==
    /\ stage \in {"load", "open", "listening"}
    /\ stage' = "exited"
    /\ UNCHANGED <<dcr402Vars, configVars, timeVars, submitVars, indexVars>>

(* Initialize answers or fails: a failure does not block the boot.         *)
SyncEnds ==
    /\ stage = "sync"
    /\ stage' = "list"
    /\ UNCHANGED <<dcr402Vars, configVars, timeVars, submitVars, indexVars>>

-----------------------------------------------------------------------------
(* selfList.                                                               *)

(* No index is configured, or /hello has no price.                         *)
SkipListing ==
    /\ stage = "list"
    /\ ~indexed \/ price = NoPrice
    /\ stage' = "listening"
    /\ UNCHANGED <<dcr402Vars, configVars, timeVars, submitVars, indexVars>>

(* Mutation: a site without a price is listed.                             *)
BeginListingUnpriced ==
    /\ stage = "list"
    /\ indexed
    /\ stage' = "mint"
    /\ ctx' = elapsed + ListTimeout
    /\ due' = IF service = "x402svc" THEN elapsed ELSE ctx'
    /\ UNCHANGED <<dcr402Vars, configVars, elapsed, submitVars, indexVars>>

(* One context for the mint, which waits for the node and the rate (the    *)
(* USDC rail's is local), and for all submissions.                         *)
BeginListing ==
    /\ stage = "list"
    /\ indexed /\ price # NoPrice
    /\ stage' = "mint"
    /\ ctx' = elapsed + ListTimeout
    /\ due' = IF service = "x402svc" THEN elapsed ELSE ctx'
    /\ UNCHANGED <<dcr402Vars, configVars, elapsed, submitVars, indexVars>>

(* Mutation: the challenge is bound to the URL it advertises.              *)
ListedSpecOnWire == [resource |-> WireURL, usd |-> price]

(* Binding stays on the relative site, whatever URL is advertised.         *)
ListedSpec == [resource |-> Hello, usd |-> price]

Stores(hashes) ==
    IF service = "x402svc" THEN hashes = {} /\ UNCHANGED dcr402Vars
                           ELSE Mint(hashes, ListedSpec)

MintListed ==
    /\ stage = "mint"
    /\ stage' = "next"
    /\ \E hashes \in SUBSET Hash :
        /\ Cardinality(hashes) = 1 <=> service = "dcr402svc"
        /\ Cardinality(hashes) <= 1
        /\ Stores(hashes)
        /\ terms' = {[usd |-> price, offers |-> hashes]}
    /\ UNCHANGED <<configVars, timeVars, next, ok, fate, indexVars>>

(* The rate, the node or the store fails, or the context ends: no listing. *)
MintFails ==
    /\ stage = "mint"
    /\ stage' = "listening"
    /\ \E hashes \in SUBSET Hash : Cardinality(hashes) <= 1 /\ Stores(hashes)
    /\ UNCHANGED <<configVars, timeVars, submitVars, indexVars>>

-----------------------------------------------------------------------------
(* RegisterAll and Submit.                                                 *)

Turn == stage = "next" /\ next <= Len(Registrars)

(* Mutation: a target that failed is tried again.                          *)
PassOverRetries == UNCHANGED next

PassOver == next' = next + 1

(* Mutation: the request is made without the caller's context.             *)
SubmitDueAlone == elapsed + SubmitTimeout

SubmitDue == IF elapsed + SubmitTimeout < ctx THEN elapsed + SubmitTimeout ELSE ctx

Post ==
    /\ Turn
    /\ elapsed < ctx
    /\ stage' = "post"
    /\ due' = SubmitDue
    /\ fate' = [fate EXCEPT ![next] = "sent"]
    /\ pending' = pending \cup {<<next, t, lives>> : t \in terms}
    /\ UNCHANGED <<dcr402Vars, configVars, elapsed, ctx, terms, next, ok, listing>>

(* The target's URL is unusable, or nothing listens there.                 *)
CannotPost ==
    /\ Turn
    /\ elapsed < ctx
    /\ PassOver
    /\ UNCHANGED <<dcr402Vars, stage, configVars, timeVars, terms, ok, fate, indexVars>>

(* The context has ended: the request fails before it is sent.             *)
TooLate ==
    /\ Turn
    /\ elapsed >= ctx
    /\ PassOver
    /\ fate' = [fate EXCEPT ![next] = "late"]
    /\ UNCHANGED <<dcr402Vars, stage, configVars, timeVars, terms, ok, indexVars>>

SubmitSucceeds ==
    /\ stage = "post"
    /\ fate[next] = "took"
    /\ stage' = "next"
    /\ next' = next + 1
    /\ ok' = ok + 1
    /\ UNCHANGED <<dcr402Vars, configVars, timeVars, terms, fate, indexVars>>

(* Mutation: the target is counted before the error is looked at.          *)
SubmitFailsCounted ==
    /\ stage = "post"
    /\ stage' = "next"
    /\ PassOver
    /\ ok' = ok + 1
    /\ UNCHANGED <<dcr402Vars, configVars, timeVars, terms, fate, indexVars>>

(* Another status than 2xx, a broken connection or the deadline, although  *)
(* the index may have taken the post or be about to.                       *)
SubmitFails ==
    /\ stage = "post"
    /\ stage' = "next"
    /\ PassOver
    /\ UNCHANGED <<dcr402Vars, configVars, timeVars, terms, ok, fate, indexVars>>

(* Listed or not: ListenAndServe.                                          *)
ListingEnds ==
    /\ stage = "next"
    /\ next > Len(Registrars)
    /\ stage' = "listening"
    /\ UNCHANGED <<dcr402Vars, configVars, timeVars, submitVars, indexVars>>

-----------------------------------------------------------------------------
(* The indexes, time and restarts.                                         *)

(* An index replaces its entry by the newest post to arrive.               *)
IndexTakes(p) ==
    /\ p \in pending
    /\ pending' = pending \ {p}
    /\ listing' = [listing EXCEPT ![Registrars[p[1]]] = {p[2]}]
    /\ fate' = IF p[3] = lives THEN [fate EXCEPT ![p[1]] = "took"] ELSE fate
    /\ UNCHANGED <<dcr402Vars, stage, configVars, timeVars, terms, next, ok>>

(* It refuses the post, or never gets it.                                  *)
IndexLoses(p) ==
    /\ p \in pending
    /\ pending' = pending \ {p}
    /\ UNCHANGED <<dcr402Vars, stage, configVars, timeVars, submitVars, listing>>

(* The store drops an offer, whose listing stays: the gate's expiry.       *)
OfferExpires(o) ==
    /\ Expire(o)
    /\ UNCHANGED <<stage, configVars, timeVars, submitVars, indexVars>>

Tick ==
    /\ stage \in {"sync", "mint", "post"}
    /\ elapsed < due
    /\ elapsed' = elapsed + 1
    /\ UNCHANGED <<dcr402Vars, stage, configVars, due, ctx, submitVars, indexVars>>

(* The process dies, wherever it is, and is started again.                 *)
Restart ==
    /\ lives < MaxLives
    /\ lives' = lives + 1
    /\ stage' = "load"
    /\ price' = NoPrice
    /\ indexed' = FALSE
    /\ terms' = {}
    /\ elapsed' = 0 /\ due' = 0 /\ ctx' = 0
    /\ next' = 1
    /\ ok' = 0
    /\ fate' = [i \in Turns |-> "none"]
    /\ UNCHANGED <<dcr402Vars, service, indexVars>>

(* What the process does whatever the others do: its own steps, and giving *)
(* up a wait that is due.                                                  *)
Proceed ==
    \/ Load \/ Open \/ SkipListing \/ BeginListing
    \/ Post \/ TooLate \/ ListingEnds
    \/ elapsed = due /\ (SyncEnds \/ MintFails \/ SubmitFails)

Next ==
    \/ Load \/ Open \/ Exit \/ SyncEnds
    \/ SkipListing \/ BeginListing \/ MintListed \/ MintFails
    \/ Post \/ CannotPost \/ TooLate \/ SubmitSucceeds \/ SubmitFails \/ ListingEnds
    \/ \E p \in pending : IndexTakes(p) \/ IndexLoses(p)
    \/ \E o \in Offer : OfferExpires(o)
    \/ Tick
    \/ Restart

Spec == Init /\ [][Next]_vars

-----------------------------------------------------------------------------
(***************************************************************************)
(* Whatever hangs (the facilitator, the rate source, the node, any of the  *)
(* indexes), main reaches ListenAndServe within the two deadlines, however *)
(* many indexes it lists on.                                               *)
(***************************************************************************)
BootsInTime == elapsed <= SyncTimeout + ListTimeout

(***************************************************************************)
(* The proof of an invoice that an index lists is good, until the invoice  *)
(* expires, at /hello and the price listed with it and nowhere else: not   *)
(* at the URL it was listed under, nor, once prices.json has been edited,  *)
(* at the new price, however late and from whichever life the listing is.  *)
(* (x402svc lists requirements and no invoices.)                           *)
(***************************************************************************)
ProofOf(h) == [kind |-> "lightning", hash |-> h, good |-> TRUE]

ListingSettles ==
    \A t \in Index : \A l \in listing[t] : \A o \in l.offers, s \in ChallengeSpec :
        OfferedFor(ProofOf(o), s) <=> o \in live /\ s = [resource |-> Hello, usd |-> l.usd]

(***************************************************************************)
(* The count RegisterAll returns is of targets whose index took this       *)
(* life's terms: answers may be lost, posts of an earlier life arrive, two *)
(* targets may name one index, but none of this is counted.                *)
(***************************************************************************)
Took == {i \in Turns : fate[i] = "took"}

CountIsHonest == ok <= Cardinality(Took)

(***************************************************************************)
(* main takes a bounded number of steps to its end, whatever fails: no     *)
(* target is submitted to a second time, and neither mint nor listing is   *)
(* taken up again in the same life. StepsLeft bounds those it still takes. *)
(***************************************************************************)
StepsLeft ==
    CASE stage = "exited"    -> 0
      [] stage = "listening" -> 1
      [] stage = "next"      -> 2 + 2 * (Len(Registrars) + 1 - next)
      [] stage = "post"      -> 1 + 2 * (Len(Registrars) + 1 - next)
      [] stage = "mint"      -> 3 + 2 * Len(Registrars)
      [] stage = "list"      -> 4 + 2 * Len(Registrars)
      [] stage = "sync"      -> 5 + 2 * Len(Registrars)
      [] stage = "open"      -> 6 + 2 * Len(Registrars)
      [] stage = "load"      -> 7 + 2 * Len(Registrars)

BootTerminates ==
    [][lives' = lives /\ (stage' # stage \/ next' # next) => StepsLeft' < StepsLeft]_vars

(***************************************************************************)
(* "a failed target does not fail the others" (Multiplexer): the context   *)
(* of a launch that ends while one target hangs fails those after it.      *)
(***************************************************************************)
NoTargetFailsOthers ==
    \A i, j \in Turns : (i < j /\ fate[j] = "late") => fate[i] = "late"

(* The inductive invariant behind the safety properties: what is listed    *)
(* has a price, every wait ends in time, every offer known outside is      *)
(* bound to the site and the price it is known with, and what is counted   *)
(* is of targets that have had their turn.                                 *)
Listing == {"mint", "next", "post"}

HasPrice ==
    /\ stage \in Listing => price \in USD
    /\ stage = "post" => next <= Len(Registrars)

WaitsEnd ==
    /\ stage \in {"load", "open"} => elapsed = 0
    /\ stage = "sync" => elapsed <= due /\ due = SyncTimeout
    /\ stage = "list" => elapsed <= SyncTimeout
    /\ stage \in Listing => elapsed <= ctx /\ ctx <= SyncTimeout + ListTimeout
    /\ stage \in {"mint", "post"} => elapsed <= due /\ due <= ctx
    /\ stage \in {"listening", "exited"} => elapsed <= SyncTimeout + ListTimeout

Binds(l) == \A o \in l.offers : bound[o] = <<Hello, l.usd>>

OffersAreBound ==
    /\ \A l \in terms : Binds(l)
    /\ \A p \in pending : Binds(p[2])
    /\ \A t \in Index : \A l \in listing[t] : Binds(l)

CountsPast == ok <= Cardinality({i \in Took : i < next})

IInv == TypeOK /\ HasPrice /\ WaitsEnd /\ OffersAreBound /\ CountsPast

(***************************************************************************)
(* Liveness. The process runs and time passes; nobody it waits for need    *)
(* ever answer.                                                            *)
(***************************************************************************)
FairSpec == Spec /\ WF_vars(Proceed) /\ WF_vars(Tick)

(* Every life ends up listening, or has exited for want of prices or rail. *)
Launched == stage \notin {"listening", "exited"} ~> stage \in {"listening", "exited"}
=============================================================================
