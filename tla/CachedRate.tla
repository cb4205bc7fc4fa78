------------------------------ MODULE CachedRate ------------------------------
(***************************************************************************)
(* The price of a challenge in atoms (rails/dcr402/rate.go): concurrent    *)
(* mints ask CachedRate for the exchange rate under one mutex, which is    *)
(* held while the source is asked, and convert their USD amount at it.     *)
(*                                                                         *)
(* The source is an HTTP service outside the repository: it answers, with  *)
(* whatever status, currency and price, or fails, within its client's      *)
(* timeout.                                                                *)
(***************************************************************************)
EXTENDS Integers

CONSTANTS
    Mint,         \* the concurrent mints
    USDMicros,    \* the amounts they price
    Rate,         \* the rates the source may report, in USD per DCR
    Foreign,      \* the rates it may report in another currency
    Fallback,     \* the static floor, 0 for none
    MaxAtoms,     \* the greatest int64
    TTL,          \* how long a rate is fresh
    MaxTime,      \* the clock's last tick (a bound)
    NoOne

NoRate == 0       \* the zero value of CachedRate.rate

ASSUME RateAssumption == Rate \subseteq Nat \ {0} /\ Foreign \subseteq Nat \ {0} /\ Fallback \in Nat
ASSUME MaxAtomsAssumption == MaxAtoms \in Nat
ASSUME MicrosAssumption == USDMicros \subseteq Int
ASSUME TTLAssumption == TTL \in Nat \ {0} /\ MaxTime \in Nat
ASSUME NoOneAssumption == NoOne \notin Mint

VARIABLES
    step,         \* where each mint is: idle, waiting for the mutex, fetching
    amount,       \* the USD amount it prices
    mu,           \* the mint that holds the mutex
    rate,         \* the cached rate, NoRate before the first success
    fetched,      \* when it was fetched
    now,          \* the clock
    quote         \* the rate each mint was last given, and the atoms, 0 for none

vars == <<step, amount, mu, rate, fetched, now, quote>>

NoQuote == [rate |-> NoRate, atoms |-> 0]

TypeOK ==
    /\ step \in [Mint -> {"idle", "waiting", "fetching"}]
    /\ amount \in [Mint -> USDMicros]
    /\ mu \in Mint \cup {NoOne}
    /\ rate \in Rate \cup {NoRate}
    /\ fetched \in 0 .. MaxTime
    /\ now \in 0 .. MaxTime
    /\ quote \in [Mint -> [rate : Rate \cup {Fallback, NoRate}, atoms : Nat]]

Init ==
    /\ step = [m \in Mint |-> "idle"]
    /\ amount \in [Mint -> USDMicros]
    /\ mu = NoOne
    /\ rate = NoRate
    /\ fetched = 0
    /\ now = 0
    /\ quote = [m \in Mint |-> NoQuote]

-----------------------------------------------------------------------------
(* AtomsForUSDMicros: the atoms it may return, none when it fails.         *)

DustFloorAtoms == 1000

(* The conversion of a float64 to int64 is undefined beyond its range: the *)
(* least value on amd64, the greatest on arm64.                            *)
ToInt64(x) == IF x <= MaxAtoms THEN {x} ELSE {- MaxAtoms - 1, MaxAtoms}

AtLeastDust(atoms) == IF atoms < DustFloorAtoms THEN DustFloorAtoms ELSE atoms

(* Mutation: the conversion rounds down.                                   *)
AtomsRoundedDown(usdMicros, usdPerDCR) ==
    IF usdMicros <= 0 \/ usdPerDCR <= 0 THEN {}
    ELSE {AtLeastDust(a) : a \in ToInt64((usdMicros * 100) \div usdPerDCR)}

(* An amount or a rate that is not positive is an error.                   *)
AtomsForUSDMicros(usdMicros, usdPerDCR) ==
    IF usdMicros <= 0 \/ usdPerDCR <= 0 THEN {}
    ELSE {AtLeastDust(a) : a \in ToInt64((usdMicros * 100 + usdPerDCR - 1) \div usdPerDCR)}

-----------------------------------------------------------------------------
(* DcrdataRate.USDPerDCR.                                                  *)

(* A response, and what its price is of: an index that is not named is USD.*)
Response ==
    [ok : BOOLEAN, index : {"", "USD"}, price : Rate \cup {0}] \cup
    [ok : BOOLEAN, index : {"other"}, price : Foreign]

(* Mutation: the currency is not looked at.                                *)
UsableAnyIndex(response) == response.ok /\ response.price > 0

Usable(response) == response.ok /\ response.price > 0 /\ response.index \in {"", "USD"}

-----------------------------------------------------------------------------
(* CachedRate.USDPerDCR.                                                   *)

Fresh == rate > 0 /\ now - fetched < TTL

(* The mint is given this rate, and fails if no atoms come of it.          *)
Quoted(u, r) ==
    LET atoms == AtomsForUSDMicros(u, r) IN IF atoms = {} THEN {0} ELSE atoms

Answer(m, r) ==
    /\ step' = [step EXCEPT ![m] = "idle"]
    /\ \E a \in Quoted(amount[m], r) :
          quote' = [quote EXCEPT ![m] = [rate |-> r, atoms |-> a]]

Ask(m) ==
    /\ step[m] = "idle"
    /\ step' = [step EXCEPT ![m] = "waiting"]
    /\ \E u \in USDMicros : amount' = [amount EXCEPT ![m] = u]
    /\ UNCHANGED <<mu, rate, fetched, now, quote>>

(* Lock, a fresh rate, unlock.                                             *)
ServeCached(m) ==
    /\ step[m] = "waiting"
    /\ mu = NoOne
    /\ Fresh
    /\ Answer(m, rate)
    /\ UNCHANGED <<amount, mu, rate, fetched, now>>

(* Mutation: the mutex is not held while the source is asked.              *)
FetchUnlocked(m) ==
    /\ step[m] = "waiting"
    /\ ~Fresh
    /\ step' = [step EXCEPT ![m] = "fetching"]
    /\ UNCHANGED <<amount, mu, rate, fetched, now, quote>>

Fetch(m) ==
    /\ step[m] = "waiting"
    /\ mu = NoOne
    /\ ~Fresh
    /\ mu' = m
    /\ step' = [step EXCEPT ![m] = "fetching"]
    /\ UNCHANGED <<amount, rate, fetched, now, quote>>

FetchSucceeds(m) ==
    /\ step[m] = "fetching"
    /\ \E response \in Response :
        Usable(response) /\ rate' = response.price /\ Answer(m, rate')
    /\ fetched' = now
    /\ mu' = NoOne
    /\ UNCHANGED <<amount, now>>

(* Mutation: the floor before the last good rate.                          *)
FetchFailsToFloor(m) ==
    /\ step[m] = "fetching"
    /\ Answer(m, IF Fallback > 0 THEN Fallback ELSE rate)
    /\ mu' = NoOne
    /\ UNCHANGED <<amount, rate, fetched, now>>

(* Mutation: the error path keeps the mutex.                               *)
FetchFailsLocked(m) ==
    /\ step[m] = "fetching"
    /\ Answer(m, IF rate > 0 THEN rate ELSE Fallback)
    /\ UNCHANGED <<amount, mu, rate, fetched, now>>

(* No response, or an unusable one: the last good rate whatever its age,   *)
(* then the floor, then an error.                                          *)
FetchFails(m) ==
    /\ step[m] = "fetching"
    /\ Answer(m, IF rate > 0 THEN rate ELSE Fallback)
    /\ mu' = NoOne
    /\ UNCHANGED <<amount, rate, fetched, now>>

Tick ==
    /\ now < MaxTime
    /\ now' = now + 1
    /\ UNCHANGED <<step, amount, mu, rate, fetched, quote>>

Next ==
    \/ \E m \in Mint :
        Ask(m) \/ ServeCached(m) \/ Fetch(m) \/ FetchSucceeds(m) \/ FetchFails(m)
    \/ Tick

Spec == Init /\ [][Next]_vars

-----------------------------------------------------------------------------
Answered(m) == step[m] # "idle" /\ step'[m] = "idle"

(***************************************************************************)
(* Whatever rate a mint ends up with, it is quoted exactly when its amount *)
(* and that rate are positive, and what it is quoted is worth no less than *)
(* its price and, above the dust floor, not an atom more than that takes,  *)
(* as long as the atoms fit in an int64: beyond, the quote is arbitrary.   *)
(***************************************************************************)
Representable(usdMicros, usdPerDCR) == usdMicros * 100 <= MaxAtoms * usdPerDCR

QuotedMint(m) == quote[m].atoms > 0

QuotesCoverPrice ==
    \A m \in Mint : step[m] = "idle" =>
        /\ QuotedMint(m) <=> amount[m] > 0 /\ quote[m].rate > 0
        /\ QuotedMint(m) /\ Representable(amount[m], quote[m].rate) =>
              /\ quote[m].atoms * quote[m].rate >= amount[m] * 100
              /\ quote[m].atoms > DustFloorAtoms =>
                    (quote[m].atoms - 1) * quote[m].rate < amount[m] * 100

(***************************************************************************)
(* However mints race, ticks pass and fetches fail: no mint fails or falls *)
(* back to the floor once a good rate has been seen, and a rate older than *)
(* its TTL is used only by a mint whose own fetch has just failed.         *)
(***************************************************************************)
UsesBestRate ==
    [][\A m \in Mint : Answered(m) =>
        /\ rate' # NoRate => quote'[m].rate = rate'
        /\ step[m] = "waiting" => now' - fetched' < TTL]_vars

(***************************************************************************)
(* The mutex makes concurrent quotes one after the other: as if each mint  *)
(* looked at the cache, asked the source and was answered in one moment.   *)
(* No fetch replaces a rate that has become fresh since the fetch began.   *)
(***************************************************************************)
Atomic == INSTANCE AtomicRate WITH
              asked <- {m \in Mint : step[m] # "idle"},
              used <- [m \in Mint |-> quote[m].rate]

ImplementsAtomicRate == Atomic!Spec

(* The inductive invariant behind it: who fetches holds the mutex, and     *)
(* found the cached rate stale, which nobody else can have renewed.        *)
FetcherHoldsMutex == \A m \in Mint : step[m] = "fetching" => mu = m

StaleWhileHeld == mu # NoOne => ~Fresh

IInv == TypeOK /\ FetcherHoldsMutex /\ StaleWhileHeld

(***************************************************************************)
(* The source answers or times out, and Go's mutex starves no waiter.      *)
(***************************************************************************)
Finish(m) == FetchSucceeds(m) \/ FetchFails(m)
Lock(m)   == ServeCached(m) \/ Fetch(m)

FairSpec == Spec /\ \A m \in Mint : WF_vars(Finish(m)) /\ SF_vars(Lock(m))

(* Every mint is answered.                                                 *)
MintAnswered == \A m \in Mint : step[m] # "idle" ~> step[m] = "idle"
=============================================================================
