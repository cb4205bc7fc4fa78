# 402sellerkit: TLA+ models and proofs

402sellerkit is a Go toolkit for selling over HTTP 402: a service composes
payment rails (Decred over Lightning or onchain, USDC on an EVM chain) behind
one payment surface, answers unpaid requests with a challenge, settles the
proofs that come back, bills each settlement once and serves. This directory
models that payment surface, checks the models with TLC on small instances and
proves the central safety properties with TLAPS for every instance.

## The system

| component | state | operations | hard because |
|---|---|---|---|
| `seam.Composer` (`src/seam/compose.go`) | none of its own; the requests in flight | `Require`, `SettleRequest`, `trySettle`, `WriteChallenge` | concurrent requests, replays, rail order, failing rails |
| `seam.PerCall` (`src/seam/percall.go`) | a verified payment held across the work | `Challenge`, `Verify`, `Settle` | the work runs between verify and settle |
| bill-once guard (`memSeen`, `src/seenrefs/seenrefs.go`) | the references seen | `MarkSettled` | races, restarts, database errors |
| Decred rail (`src/rails/dcr402`) | challenges in the gate's sqlite store; the cached rate | `Write402`, `ChallengeJSON`, `TrySettle`, `MCPAccepts`, `MCPVerify`, `MCPSettle`, `WriteTopup402` | expiry between check and settle, pending deposits, one transaction funding several addresses |
| rate (`src/rails/dcr402/rate.go`) | last good rate and its time, a mutex | `USDPerDCR`, `AtomsForUSDMicros` | the mutex is held during a fetch; staleness; other currencies; rounding; overflow |
| USDC rail (`src/rails/x402usdc`) | the facilitator's kinds, synced or not | as the Decred rail, and `retryInitialize` | late sync, lost settlement answers |
| 402 header (`src/present/challenge`) | none | `SetOrMerge`, `MergeInto` | order, duplication, partial failure |
| discovery (`src/discovery`) | none; the indexes keep what was submitted | `RegisterAll`, `Submit`, `AcceptsFromChallenge` | several targets under one deadline, posts that outlive their submission |
| services (`src/services`, `src/cmd/exampled`) | wiring, top-up credits, where `main` is | boot, `selfList`, top-up and per-call handlers | a restart between bill and credit; a boot that waits for facilitator, node and indexes |
| prices (`src/prices`) | the table, read at boot | `Load`, `PriceFor`, `QuoteFor` | prices edited between two lives |
| facilitator client, fake rail | none worth modelling | | |

A request calls its composer; the composer calls the rails in order; a rail
calls the gate (a library over a sqlite store and a Lightning node) or a
facilitator over HTTP; the composer then calls the guard and serves. Requests
share the guard, the gate's store, the chain, the rate and nothing else. Every
request runs in a goroutine of its own, so that any of these calls interleave.
A service that sells both ways (`exampled`) has a Composer and a PerCall over the
same rails and the same guard. Before it serves anything a service loads its
prices, opens its rail and lists itself on discovery indexes, with a challenge
minted for the purpose; a buyer may pay that challenge later.

What makes each part correct:

- Composer and PerCall: a site, credit or result is given only for a payment: a
  Decred one made for that site and price, a USDC one made for that price (the
  rail does not bind it to a site); a reference is billed once; only an owner of
  a credential refuses it, whatever the rails' order; a handler takes a bounded
  number of steps and retries nothing.
- Guard: one "first time" for a reference in its lifetime.
- Seller's ledger, kept by reference: money before bill, bill before credit, at
  most one credit for a bill.
- Both surfaces together: a payment presented at both has one reference, and so
  is billed once, provided the USDC facilitator names the transaction of what it
  settles.
- Rate: a quote covers its price; the last good rate is never forgotten; no rate
  of another currency is used; concurrent quotes are as if made one after the
  other.
- 402: no offer lost, repeated or out of order, what was written first stays, and
  nothing is promised that was not minted.
- Launch: the service listens in the end, and in bounded time; what an index
  lists settles, until it expires, at `/hello` and the listed price and nowhere
  else; the count of listings is not more than what the indexes took.

## Modules

| module | models |
|---|---|
| `Seam` | the vocabulary: challenge specification, credentials, external references |
| `SeenRefs` | `memSeen` and `seenrefs.SQL`, chosen by the constant `Durable` |
| `Dcr402Rail` | minting, binding and demultiplexing of the Decred rail, and the gate, the buyer and the chain behind it |
| `X402Rail` | demultiplexing and matching of the USDC rail, its sync, and the facilitator behind it |
| `PaymentSite` | what Composer and PerCall share: requests as small state machines, the walk over the rails, settlement, bill, ledger, environment, restart; the safety properties and their inductive invariant |
| `Composer` | `Require` sites and the custom top-up site of `dcr402svc`, as orders and guards of PaymentSite's steps |
| `PerCall` | verify, run, settle, deliver, as `exampled` drives it |
| `Service` | both surfaces in one process: Composer and PerCall composed over one PaymentSite, and so over one store, one facilitator and one guard |
| `SellerLedger` | the abstract specification: receive, bill, credit |
| `CachedRate` | concurrent mints that price a challenge |
| `AtomicRate` | the abstract specification: a cached rate without a mutex, every quote made in one moment |
| `Challenge` | how the rails' contributions become one 402, for the Composer and for PerCall |
| `Launch` | the boot of `dcr402svc` and `x402svc`: prices, rail, self-listing on discovery indexes under deadlines, restarts |
| `MCComposer`, `MCService`, `MCCachedRate`, `MCChallenge`, `MCLaunch` | values of the constants for TLC |
| `PaymentSiteProofs`, `ComposerProofs`, `PerCallProofs`, `ServiceProofs`, `CachedRateProofs`, `ChallengeProofs`, `LaunchProofs` | theorems |

### State and steps

A request is a slot `q` with a control state `pc[q]`, the site and price it is
about (`spec[q]`, the `ChallengeSpec`), its credential (`cred[q]`), the rail its
walk has reached (`at[q]`), the reference of the settlement in its hand
(`ref[q]`) and what the guard told it (`first[q]`). A handler is
cut into steps where another goroutine, the chain or a crash can get between:
at every call to the store, the gate, the facilitator and the guard. So
`FindOffer` (read the challenge, compare its binding) and `GateSettles`
(`gate.Settle`) are two steps with expiry and other settlements possible in
between, and `Bill` (`MarkSettled`) and `Serve` or `Credit` are two steps with a
restart possible in between. `MarkSettled` itself is one step: a mutex, or one
INSERT on a primary key. A failure of a call is an alternative of the step.

The environment's steps: a buyer pays an invoice or funds deposit addresses (one
transaction may fund several), the chain confirms, the store drops an expired
offer, the background loop syncs the USDC rail, and the process restarts, which
loses the requests and an in-memory guard, and keeps the gate's store, the chain
and a durable guard.

Two counters exist only in the model: `billed[r]` counts the guard's "first
time" answers for a reference and `credits[r]` what the service booked as new
(a top-up answered `credited`, a per-call result with `billed: true`).

In `Service` the site of a request says which surface handles it (`IsCall`, the
mux), so that a slot may hold a web request now and a call next, and a buyer may
present any credential to either. The constant `RailTopup` chooses the top-up
handler: that of `dcr402svc`, which mints its own challenge and answers 202 to a
shallow deposit, or that of `exampled`, which does neither.

In `Launch` the control state `stage` is where `main` is. It waits in three
stages: for the facilitator (`sync`), for the node and the rate (`mint`), and for
an index (`post`). `elapsed` is the time since the life began and passes only
while `main` waits, `due` is when the present wait ends at the latest, and `ctx`
when `selfList`'s context does. The gate's store may drop an invoice while an index
still lists it. A post is a message to its index: it may arrive
during its submission, after it was given up, after its process died, or never.
`fate` remembers, for the properties alone, what became of this life's submission
to each target. Targets are told apart by their place in `Registrars`, since two of
them may name one index.

### Abstractions

- URLs, amounts, hashes, addresses, transactions, authorisations are opaque. The
  bound resource of the Decred rail, the URL with `usd_micros` appended, is the
  pair of both: the amount is always the last query parameter, so the text
  determines the pair.
- A header is one of nine kinds (`Seam`), told apart by the branches of the two
  `TrySettle` and `MCPVerify`: a Lightning, onchain or EVM payment, none at all,
  one that does not decode, one of no known shape, a Decred payment of another
  network or with a malformed part, one of a foreign network. The text of the
  JSON is left out. Per call, a body that does not decode carries no payment,
  since the handler ignores the error.
- The USDC rail reads the whole payload into the SDK's type before it looks at
  the network, and over HTTP refuses what does not fit. Which credentials fit is
  the constant `SDKReads`, of which only the evident is assumed: EVM payments
  do, and what has no shape does not. The runs take the Decred payloads with a
  malformed part for those that do not.
- A buyer holds the right preimage only of an invoice that was paid, and may
  present any other credential at any time, its own or another's.
- A USDC settlement over HTTP is billed under its transaction or, when the
  facilitator names none, under a fingerprint of the bytes the payload came in;
  per call it is refused without a transaction. An authorisation has one
  transaction and as many fingerprints as it has encodings (`Encoding`). The
  constant `NamesTx` says that the facilitator names the transaction of every
  settlement; where it is false the facilitator may or may not, each time.
  Whether an authorisation once executed is answered as settled again or refused
  is left open.
- The gate may refuse anything at any time (a broken store, an expired
  challenge). It accepts a preimage that matches and a deposit at depth.
- Minting in `Composer` is its effect on the store: up to two Lightning
  challenges for a 402 (header and body), one invoice and up to one address for a
  top-up; failures leave whatever was stored. `Challenge` has the detail.
- A response of the rate source is its status, whether its index names USD,
  nothing or another currency, and its price. A price whose atoms exceed an int64
  converts to the least or to the greatest integer, as Go does on amd64 and on
  arm64.
- A rail either mints a new challenge at every call (`Mints`: the Decred rail) or
  states the same requirements each time (the USDC rail), so that its entries in
  header and body are equal.
- What an index lists is the price and the hash of the invoice minted for it
  (none by the USDC rail, whose requirements name the price alone); names, tags
  and extensions are left out. The services list on one index; `Launch` lists on
  any sequence of them, as `RegisterAll` does.
- The time of a boot is counted in units of five seconds; local work takes none,
  and dialling the node and opening the store happen before the clock starts.
- A site that is not at all priced, and a top-up out of range, are answered at
  once and change nothing.

## Runs

`tlc -config <Name>.cfg <Module>.tla`. The bounds are in the cfg files.

| run | question | states |
|---|---|---|
| Lightning | two requests, two invoices, a site and a top-up at two prices, expiry, `memSeen`, a restart: `TypeOK`, `BillOnce`, `CreditsBacked`, `GrantsArePaid` | 538 000 |
| Onchain | the durable guard with database errors, one transaction that may fund two deposit addresses, a restart: `BillOnce`, `CreditsBacked`, `GrantsArePaid`; refines `SellerLedger` | 29 000 |
| Usdc | one authorisation in two encodings at two prices, lost answers, settlements without a transaction, late sync, durable guard, restart: as Onchain | 165 000 |
| Service | both surfaces at once, both rails (USDC first), every kind of credential, two concurrent requests, a facilitator that names its transactions: `TypeOK`, `BillOnce`, `CreditsBacked`, `OneReferencePerPayment`, `GrantsArePaid`, `HandlersTerminate`, both ownership properties; refines `SellerLedger` | 397 000 |
| Served | liveness of both surfaces, which compete for one slot, with `memSeen` and a restart: `LightningCredited`, `DepositCredited`, `PaidCallDelivered` | 1 700 |
| Rate | two mints, ticks, failures, foreign currencies, an amount that is not positive and one that overflows at one of the rates: `TypeOK`, `QuotesCoverPrice`, `UsesBestRate`; refines `AtomicRate`; `MintAnswered` under fairness | 38 000 |
| Launch | both services, two indexes, two lives with edited prices, an invoice that expires; facilitator, node and indexes that hang: `TypeOK`, `BootsInTime`, `ListingSettles`, `CountIsHonest`, `BootTerminates`, and `Launched` under fairness | 113 000 |
| Merge | three rails in every order with every combination of failures, both surfaces: `TypeOK`, `OffersEveryWriter`, `FirstWriterWins`, `BodyMatchesHeader` | 618 |

The bounds are enough for what is asked. The hazards are races of two requests
over one reference, or of one request with a restart or an expiry: two slots,
two lives, two references (to tell a reference from another) and two prices with
two sites at one of them show each of them; the proofs below cover every larger
instance of the safety properties, and the ownership properties in every order of
the rails. `MaxLives` bounds the restarts, `Presented`
the kinds of credentials of a run, `Expirable` which offers the store may drop
(none in the liveness runs, where a buyer whose challenge has expired is not
owed anything), `MaxTime` the clock. In `Service` all sites have one price, so
that a USDC authorisation fits every one of them; its one authorisation comes in
two encodings, which is what a reference made of the bytes would tell apart. In `Launch` two indexes, one of
which may hang, and a sync, a listing and a submission of 3, 3 and 6 units (15,
15 and 30 seconds) let a deadline fall before, within and after a submission. Every
model goes on for ever, except `Challenge`, which stops when its 402 is composed,
and `Launch`, where a process may have exited and no post be left to arrive.

### Fairness

- `WF(Handle(q))` (`HandleCall`, `ServiceHandle`): a goroutine that has something
  to do does it, and what it waits for answers. The second half is an assumption
  about the backends and not a consequence of the code: the services listen
  without server timeouts, the request's context, which carries no deadline, is
  what the gate, the facilitator and the mint are called with, and
  `seenrefs.SQL` calls the database without a context. A backend that hangs for
  ever leaves its request unanswered, so that no property says that every request
  is answered; `HandlersTerminate`, which needs no fairness, says that a handler
  does not go round in circles.
- `SF` on a buyer's retry, on finding the offer and on the gate's acceptance: a
  buyer who keeps presenting a proof finds a free slot now and then, and the
  store and the gate do not fail for ever. Without this nothing can be
  promised, since the code itself never retries on the buyer's behalf.
- `WF(ChainConfirms(t))`: a transaction gets deeper.
- `SF(Lock(m))` in `CachedRate`: Go's mutex starves no waiter. `WF(Finish(m))`:
  the source answers or times out.
- In `Launch`, `WF(Proceed)`: `main` runs, and gives up a wait that is due, since
  every one carries a deadline; `WF(Tick)`: time passes. Nobody it waits for need
  ever answer.

The restart, the expiry and the sync are never fair: they may or may not happen.

The three properties of Served are checked with the guard the services compose,
`memSeen`. `LightningCredited` and `DepositCredited` need it: with the durable
guard a crash between `MarkSettled` and the credit, or an INSERT whose answer is
lost, leaves a reference that is recorded and never credited, and the guard trades
the lost credit for no double credit. The refinement of `SellerLedger`, where a
bill may stay uncredited, says exactly that much. `PaidCallDelivered` says that a
result is delivered again and again, though within one life the guard answers
"first time" for its reference once.

## Where the code and its comments disagree

Each is a run that finds the statement violated.

- SiteBinding: "rails bind challenges to site and amount" (`seam/compose.go`).
  The Decred rail does; the USDC rail binds the amount only, and a payment signed
  for one site settles another of the same price. Without that rail, as in
  `dcr402svc`, the comment is right, and proved (`DecredBindsToSite`).
- Unverified: "A present-but-invalid payment surfaces as the rail's error" of
  `Verify` (`seam/percall.go`). The Decred rail's `MCPVerify` does not look at the
  preimage; the work runs, and only `Settle` refuses. The result is withheld all
  the same (`GrantsArePaid`).
- Targets: "a failed target does not fail the others" (`discovery/discovery.go`).
  All targets share the caller's context, which `selfList` ends before a single
  submission's own timeout: a target that hangs fails those after it unsent. The
  services list on one target, which fails no other.
- Fallback: the payload's fingerprint is there "so the bill-once anchor still
  holds" (`rails/x402usdc/x402usdc.go`) when a facilitator names no transaction.
  It anchors the bytes and not the payment: one authorisation, written in two ways
  or settled first without and then with a transaction, has two references, and
  even the durable guard bills both. Where the facilitator always names the
  transaction the payment has one reference, which is proved
  (`SiteOneReference`).

Six smaller ones have no run. "It is never a dead end" (`seam/compose.go`): a rail
that failed to mint stays in `accepted_rails` without a challenge, up to a 402
with none; while no rail fails, the lists agree (`NoDeadEndIfAllAnswer`). "Foreign
payloads (non-eip155 networks) are left for the other rails"
(`rails/x402usdc/x402usdc.go`): over HTTP, one that does not fit the SDK's type is
refused by the USDC rail when that rail comes first (`X402Demux`; the ownership
property counts it as that rail's too). The listing of `dcr402svc` is "a no-op (logged)
until dcrlnd is reachable" (`services/dcr402svc/main.go`), but nothing lists it
later: it is tried once in each life. A payment that meets the USDC rail before its
sync is answered 401, where a comment says "payments stay 402-retryable"
(`rails/x402usdc/x402usdc.go`). `Require` serves its site whatever the guard
answers, where a comment speaks of a caller that "withholds the grant"
(`seenrefs/seenrefs.go`); a top-up does withhold it. And the merged header is
"order-independent across rails" (`present/challenge/challenge.go`) in its offers
and not in its resource, which is that of the rail that wrote first.

## Proofs

`tlapm PaymentSiteProofs.tla`, `ComposerProofs.tla`, `PerCallProofs.tla`,
`ServiceProofs.tla`, `CachedRateProofs.tla`, `ChallengeProofs.tla`,
`LaunchProofs.tla`.

The assumptions are those the modules name: the rails are known ones, there is a
site and an amount, prices are amounts, the depth is at least one, and so on.
Nothing bounds the number of requests, sites, references, rails, indexes or lives.

**PaymentSite.** The safety properties do not depend on the order in which a
handler takes its steps, only on what each step needs. `SiteStep` is that
weaker set of steps, and the theorems are proved of `SiteSpec` once:

- `SiteInductive`: `IInv` is inductive. Beside the types it says what each
  control state carries: a request at the gate holds a credential whose offer was
  minted for its site, one at the facilitator an authorisation of its price, and
  one that has settled a payment that was made (`CarriesItsPayment`, needed
  because `GrantsArePaid` speaks of a step taken long after the check, while
  offers expire and other requests run); that a preimage presented was bought
  (`PreimagesAreBought`); that bills and the guard's free place for a reference
  never exceed its lifetime (`BillsAreCounted`: a reference that is not seen has a
  bill to spare); and that a request told "first" holds a bill nobody has
  credited, and is alone with it (`CreditsAreCounted`).
- `SiteBillsOnce`, `SiteCreditsBacked`, `SiteGrantsPaid` follow from `IInv`. They
  are about references. What a USDC grant was paid for is its price alone
  (`PaidFor`).
- `SiteOneReference`, from references to payments: if the facilitator names its
  transactions (`NamesTx`), no payment is billed under two references, because a
  bill by fingerprint can only come of a settlement without a transaction
  (`FingerprintsAreFallbacks`). Without `NamesTx` it is false (the run Fallback).
- `SiteRefinement`: a payment site implements `SellerLedger`. `received` is read
  off the rails' state (paid invoices, deep transactions, executed
  authorisations); each step is a receive, a bill, a credit or a stutter. The
  ledger has an entry for each reference, and each entry needs the payment its
  reference stands for (`Pays`); two references of one payment are two entries.
- `SiteHandlersTerminate`: `StepsLeft`, which counts the stages after a request's
  control state and the rails it has not walked, decreases with every step of its
  handler: a handler cannot go round in circles, so one whose backends answer ends.

**Composer, PerCall.** Each of their steps is a `SiteStep` (`HandleIsSiteStep`,
`HandleCallIsSiteStep`), so that their specifications imply `SiteSpec` and inherit
its theorems. The ownership theorems have an invariant of their own
(`OwnersDecide`, `CallOwnersDecide`): the rails walked past do not own the
credential, and a request at a backend is at its owner; they hold for any
sequence of the two rails. Over HTTP a credential that the SDK's type cannot hold
belongs to the USDC rail as well as to the Decred one it was meant for, so that for
these the order decides who refuses. `DecredBindsToSite` is proved for compositions without
the USDC rail, by the invariant that no USDC authorisation gets past the walk
(`UsdcUnclaimed`).

**Service.** Each of its steps is a `SiteStep` too, so the bill-once, backing, grant,
termination and ledger theorems hold of both surfaces together, over one guard, and with
`NamesTx` a payment has one reference on both (`ServiceOneReference`). The two
ownership invariants hold side by side (`ServiceOwnershipRespected`): a step of one
surface leaves the requests of the other alone.

**CachedRate.** `RateTypeCorrect` says that only positive USD rates are cached.
`AtomsCover` is the arithmetic of the conversion (exact, where the code divides
float64 values), `Representable` amounts being those that do not overflow; `QuotesCover` and `BestRateUsed` hold for any number of
mints, amounts and rates. `RateIsAtomic` is the refinement of `AtomicRate`, in which
a quote is made in one step: the mint that fetches looked at the cache long before
it answers, and the answer still is one of the moment it is given. That needs the
invariant `IInv` (`RateInductive`): who fetches holds the mutex
(`FetcherHoldsMutex`), and while it is held the cached rate stays stale
(`StaleWhileHeld`: time only ages it, and nobody else can renew it).

**Challenge.** For any finite set of rails: `IInv` adds to the properties that an
object without a frame is empty and unwritten (`Framed`, needed because the first
writer's header is set and later ones merged), that who has written was asked before
(`WritersWereAsked`, needed for the order of the offers) and that the rail whose body
is asked for has written its header (`BodyAfterHeader`). From it `MergeTypeCorrect`,
`EveryWriterOffered`, `FirstWriterKept` and `BodiesMatchHeader`.
`NoDeadEndIfAllAnswer` is about the compositions in which no rail fails: the body
holds a challenge of every rail passed (`BodyComplete`).

**Launch.** `IInv` says of every wait that it ends by a time within the two
deadlines (`WaitsEnd`), that what is being listed has a price (`HasPrice`), that
every offer known outside the process, whether in a submission, on its way or in
an index, is bound to `/hello` and to the price it is shown with (`OffersAreBound`,
which survives restarts because the store does, and because what is minted stays
bound), and that the count is of targets that are behind the loop and took the
listing (`CountsPast`). `LaunchBootsInTime` and `LaunchListingSettles` follow, and
`LaunchTerminates`, by a `StepsLeft` as in PaymentSite, here of `main`;
`LaunchCountIsHonest` needs besides that the targets passed grow by one that was not
among them, which is a fact about cardinalities.

Every safety property of a passing run is proved. What stays with TLC is liveness
(`LightningCredited`, `DepositCredited`, `PaidCallDelivered`,
`MintAnswered`, `Launched`), because the prover does not handle fairness and ENABLED,
and the four statements that are violated, of which it finds the counterexamples.

## Not modelled

- The fake rail: a stand-in for development that settles any non-empty reference
  and binds nothing; it has no state and nothing is paid, so none of the
  properties applies to it. `Service` is `exampled` with the real rails.
- The facilitator client of `src/facilitator`: stateless, and not called from
  anywhere else in the repository (the USDC rail uses its SDK's client).
- Configuration and flags, `ExtensionsFromChallenge` (no caller in the
  repository), contents of receipts, of response headers and of listings beyond
  price and offer.
- The value of a quote that overflows an int64: the model lets it be what Go makes
  of it, and `QuotesCoverPrice` claims nothing of it. Float arithmetic: amounts
  and rates are integers, and the rounding of the float64 division is left out, so
  that a quote off by that rounding would not be seen.
- Which of two posts of different lives an index lists in the end: the code does
  not order them, and `ListingSettles` says only what a listed invoice still buys.

## Plan

1. Done: vocabulary, guard, rails, PaymentSite, Composer, PerCall, Service,
   SellerLedger, CachedRate, AtomicRate, Challenge and Launch, with runs and proofs
   of every safety property.
2. Composition of `CachedRate` with minting, so that a challenge carries the atoms
   it was quoted.
3. A finer gate store: Lightning settlement records, so that "already settled"
   answers of the gate are told apart from first ones.
