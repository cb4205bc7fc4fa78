--------------------------- MODULE CachedRateProofs ---------------------------
(***************************************************************************)
(* Theorems of CachedRate, for any number of mints and any sets of amounts *)
(* and rates.                                                              *)
(***************************************************************************)
EXTENDS CachedRate, TLAPS

(* The conversion: at least the exact amount of atoms, and above the dust  *)
(* floor less than one atom more, unless it overflows.                     *)
LEMMA AtomsCover ==
  ASSUME NEW u \in Int, NEW r \in Nat, NEW a \in AtomsForUSDMicros(u, r)
  PROVE  /\ u > 0 /\ r > 0
         /\ a \in Nat \ {0}
         /\ Representable(u, r) =>
               /\ a * r >= u * 100
               /\ a > DustFloorAtoms => (a - 1) * r < u * 100
  <1> DEFINE x == u * 100 + r - 1
             e == x \div r
  <1>0. u > 0 /\ r > 0
    BY DEF AtomsForUSDMicros
  <1>1. e \in Nat /\ e * r <= x /\ x < e * r + r
    BY <1>0
  <1>2. PICK i \in ToInt64(e) : a = AtLeastDust(i)
    BY <1>0 DEF AtomsForUSDMicros
  <1>3. a \in Nat \ {0}
    BY <1>1, <1>2, MaxAtomsAssumption DEF ToInt64, AtLeastDust, DustFloorAtoms
  <1>4. Representable(u, r) => e <= MaxAtoms
    <2>1. ASSUME e > MaxAtoms PROVE MaxAtoms * r < u * 100
      <3>1. (MaxAtoms + 1) * r <= e * r
        BY <1>0, <1>1, <2>1, MaxAtomsAssumption
      <3>2. (MaxAtoms + 1) * r = MaxAtoms * r + r /\ MaxAtoms * r \in Nat
        BY MaxAtomsAssumption
      <3> QED
        BY <1>1, <3>1, <3>2
    <2> QED
      BY <1>1, <2>1, MaxAtomsAssumption DEF Representable
  <1>5. ASSUME Representable(u, r)
        PROVE  a * r >= u * 100 /\ (a > DustFloorAtoms => (a - 1) * r < u * 100)
    <2>1. a = AtLeastDust(e)
      BY <1>2, <1>4, <1>5 DEF ToInt64
    <2>2. CASE e < DustFloorAtoms
      BY <1>0, <1>1, <2>1, <2>2 DEF AtLeastDust, DustFloorAtoms
    <2>3. CASE e >= DustFloorAtoms
      BY <1>0, <1>1, <2>1, <2>3 DEF AtLeastDust, DustFloorAtoms
    <2> QED
      BY <1>1, <2>2, <2>3 DEF DustFloorAtoms
  <1> QED
    BY <1>0, <1>3, <1>5

(* It fails only for an amount or a rate that is not positive.             *)
LEMMA AtomsExist ==
  ASSUME NEW u \in Int, NEW r \in Nat, u > 0, r > 0
  PROVE  AtomsForUSDMicros(u, r) # {}
  <1>1. \A i : ToInt64(i) # {}
    BY DEF ToInt64
  <1> QED
    BY <1>1 DEF AtomsForUSDMicros

(* So a mint is quoted a positive number of atoms, or fails with 0.        *)
LEMMA QuotedAtoms ==
  ASSUME NEW u \in Int, NEW r \in Nat, NEW a \in Quoted(u, r)
  PROVE  /\ a \in Nat
         /\ a > 0 <=> u > 0 /\ r > 0
         /\ a > 0 /\ Representable(u, r) =>
               /\ a * r >= u * 100
               /\ a > DustFloorAtoms => (a - 1) * r < u * 100
  <1>1. CASE AtomsForUSDMicros(u, r) = {}
    BY <1>1, AtomsExist DEF Quoted
  <1>2. CASE AtomsForUSDMicros(u, r) # {}
    <2>1. a \in AtomsForUSDMicros(u, r)
      BY <1>2 DEF Quoted
    <2> QED
      BY <2>1, AtomsCover
  <1> QED
    BY <1>1, <1>2

(* A usable response is in USD and positive.                               *)
LEMMA UsableInUSD ==
  ASSUME NEW response \in Response, Usable(response)
  PROVE  response.price \in Rate
  <1>1. response.index # "other" /\ response.price > 0
    BY DEF Usable
  <1>2. response \in [ok : BOOLEAN, index : {"", "USD"}, price : Rate \cup {0}]
    BY <1>1 DEF Response
  <1>3. response.price \in Rate \cup {0}
    BY <1>2
  <1>4. response.price # 0
    BY <1>1
  <1> QED
    BY <1>3, <1>4

-----------------------------------------------------------------------------
(* Type correctness.                                                       *)

LEMMA AnswerType ==
  ASSUME TypeOK, NEW m \in Mint, NEW r \in Rate \cup {Fallback, NoRate}, Answer(m, r)
  PROVE  /\ step' \in [Mint -> {"idle", "waiting", "fetching"}]
         /\ quote' \in [Mint -> [rate : Rate \cup {Fallback, NoRate}, atoms : Nat]]
  <1> DEFINE Quotes == [rate : Rate \cup {Fallback, NoRate}, atoms : Nat]
  <1>1. step' \in [Mint -> {"idle", "waiting", "fetching"}]
    BY DEF Answer, TypeOK
  <1>2. amount[m] \in Int /\ r \in Nat
    <2>1. amount[m] \in USDMicros
      BY DEF TypeOK
    <2>2. r \in Nat
      BY RateAssumption DEF NoRate
    <2> QED
      BY <2>1, <2>2, MicrosAssumption
  <1>3. PICK a \in Quoted(amount[m], r) : quote' = [quote EXCEPT ![m] = [rate |-> r, atoms |-> a]]
    BY DEF Answer
  <1>4. [rate |-> r, atoms |-> a] \in Quotes
    BY <1>2, <1>3, QuotedAtoms
  <1> QED
    BY <1>1, <1>3, <1>4 DEF TypeOK

LEMMA NextType ==
  ASSUME TypeOK, [Next]_vars
  PROVE  TypeOK'
  <1>1. rate \in Rate \cup {Fallback, NoRate} /\ NoRate \in Rate \cup {Fallback, NoRate}
    BY DEF TypeOK
  <1>2. ASSUME NEW m \in Mint, Ask(m) PROVE TypeOK'
    BY <1>2 DEF Ask, TypeOK
  <1>3. ASSUME NEW m \in Mint, ServeCached(m) PROVE TypeOK'
    BY <1>1, <1>3, AnswerType DEF ServeCached, TypeOK
  <1>4. ASSUME NEW m \in Mint, Fetch(m) PROVE TypeOK'
    BY <1>4 DEF Fetch, TypeOK
  <1>5. ASSUME NEW m \in Mint, FetchSucceeds(m) PROVE TypeOK'
    <2>1. rate' \in Rate /\ Answer(m, rate')
      BY <1>5, UsableInUSD DEF FetchSucceeds
    <2>2. /\ step' \in [Mint -> {"idle", "waiting", "fetching"}]
          /\ quote' \in [Mint -> [rate : Rate \cup {Fallback, NoRate}, atoms : Nat]]
      BY <2>1, AnswerType
    <2> QED
      BY <1>5, <2>1, <2>2 DEF FetchSucceeds, TypeOK
  <1>6. ASSUME NEW m \in Mint, FetchFails(m) PROVE TypeOK'
    <2>1. (IF rate > 0 THEN rate ELSE Fallback) \in Rate \cup {Fallback, NoRate}
      BY <1>1
    <2> QED
      BY <1>6, <2>1, AnswerType DEF FetchFails, TypeOK
  <1>7. ASSUME Tick PROVE TypeOK'
    BY <1>7, TTLAssumption DEF Tick, TypeOK
  <1>8. ASSUME UNCHANGED vars PROVE TypeOK'
    BY <1>8 DEF vars, TypeOK
  <1> QED
    BY <1>2, <1>3, <1>4, <1>5, <1>6, <1>7, <1>8 DEF Next

(* Every variable keeps its type: no rate but a positive one in USD, or    *)
(* the floor, is cached or quoted at.                                      *)
THEOREM RateTypeCorrect == Spec => []TypeOK
  <1>1. Init => TypeOK
    <2>1. NoQuote \in [rate : Rate \cup {Fallback, NoRate}, atoms : Nat]
      BY DEF NoQuote
    <2> QED
      BY <2>1, TTLAssumption DEF Init, TypeOK
  <1> QED
    BY <1>1, NextType, PTL DEF Spec

-----------------------------------------------------------------------------
(* Quotes.                                                                 *)

(* What a quote is worth, once its mint has been answered.                 *)
Covers(m) ==
    step[m] = "idle" =>
        /\ QuotedMint(m) <=> amount[m] > 0 /\ quote[m].rate > 0
        /\ QuotedMint(m) /\ Representable(amount[m], quote[m].rate) =>
              /\ quote[m].atoms * quote[m].rate >= amount[m] * 100
              /\ quote[m].atoms > DustFloorAtoms =>
                    (quote[m].atoms - 1) * quote[m].rate < amount[m] * 100

LEMMA AnswerCovers ==
  ASSUME TypeOK, NEW m \in Mint, NEW r \in Rate \cup {Fallback, NoRate}, Answer(m, r),
         amount' = amount,
         NEW p \in Mint, Covers(p)
  PROVE  Covers(p)'
  <1>1. CASE p # m
    <2>1. step'[p] = step[p] /\ quote'[p] = quote[p] /\ amount'[p] = amount[p]
      BY <1>1 DEF Answer, TypeOK
    <2> QED
      BY <2>1 DEF Covers, QuotedMint
  <1>2. CASE p = m
    <2>1. amount[m] \in Int /\ r \in Nat
      <3>1. amount[m] \in USDMicros
        BY DEF TypeOK
      <3>2. r \in Nat
        BY RateAssumption DEF NoRate
      <3> QED
        BY <3>1, <3>2, MicrosAssumption
    <2>2. PICK a \in Quoted(amount[m], r) : quote'[m] = [rate |-> r, atoms |-> a]
      BY DEF Answer, TypeOK
    <2>3. quote'[m].rate = r /\ quote'[m].atoms = a /\ amount'[m] = amount[m]
      BY <2>2
    <2> QED
      BY <1>2, <2>1, <2>3, QuotedAtoms DEF Covers, QuotedMint
  <1> QED
    BY <1>1, <1>2

LEMMA NextCovers ==
  ASSUME TypeOK, [Next]_vars, NEW p \in Mint, Covers(p)
  PROVE  Covers(p)'
  <1>1. rate \in Rate \cup {Fallback, NoRate}
    BY DEF TypeOK
  <1>2. ASSUME NEW m \in Mint, Ask(m) \/ Fetch(m) PROVE Covers(p)'
    <2>1. quote' = quote /\ (p = m => step'[p] # "idle")
      BY <1>2 DEF Ask, Fetch, TypeOK
    <2>2. p # m => step'[p] = step[p] /\ amount'[p] = amount[p]
      BY <1>2 DEF Ask, Fetch, TypeOK
    <2> QED
      BY <2>1, <2>2 DEF Covers, QuotedMint
  <1>3. ASSUME NEW m \in Mint, ServeCached(m) \/ FetchFails(m) PROVE Covers(p)'
    BY <1>1, <1>3, AnswerCovers DEF ServeCached, FetchFails
  <1>4. ASSUME NEW m \in Mint, FetchSucceeds(m) PROVE Covers(p)'
    <2>1. rate' \in Rate /\ Answer(m, rate') /\ amount' = amount
      BY <1>4, UsableInUSD DEF FetchSucceeds
    <2> QED
      BY <2>1, AnswerCovers
  <1>5. ASSUME Tick \/ UNCHANGED vars PROVE Covers(p)'
    BY <1>5 DEF Tick, vars, Covers, QuotedMint
  <1> QED
    BY <1>2, <1>3, <1>4, <1>5 DEF Next

(* A positive amount at a positive rate is quoted and nothing else is;     *)
(* every quote covers its price at the rate it was made at, and by less    *)
(* than an atom above the dust floor.                                      *)
THEOREM QuotesCover == Spec => []QuotesCoverPrice
  <1> DEFINE Covered == \A p \in Mint : Covers(p)
  <1>1. Init => Covered
    BY DEF Init, Covers, QuotedMint, NoQuote, NoRate
  <1>2. TypeOK /\ Covered /\ [Next]_vars => Covered'
    BY NextCovers
  <1>3. Covered => QuotesCoverPrice
    BY DEF Covers, QuotesCoverPrice
  <1> QED
    BY <1>1, <1>2, <1>3, RateTypeCorrect, PTL DEF Spec

(* Once a good rate has been seen every answer is made at it, and a stale  *)
(* one is used only by a mint whose own fetch has failed.                  *)
THEOREM BestRateUsed == Spec => UsesBestRate
  <1>1. ASSUME TypeOK, Next, NEW p \in Mint, Answered(p)
        PROVE  /\ rate' # NoRate => quote'[p].rate = rate'
               /\ step[p] = "waiting" => now' - fetched' < TTL
    <2> USE DEF TypeOK, Answered, NoRate
    <2>1. ASSUME NEW m \in Mint, Ask(m) \/ Fetch(m) PROVE FALSE
      BY <1>1, <2>1 DEF Ask, Fetch
    <2>2. CASE Tick
      BY <1>1, <2>2 DEF Tick
    <2>3. ASSUME NEW m \in Mint, ServeCached(m) \/ FetchSucceeds(m) \/ FetchFails(m)
          PROVE  p = m
      BY <1>1, <2>3 DEF ServeCached, FetchSucceeds, FetchFails, Answer
    <2>4. CASE ServeCached(p)
      BY <1>1, <2>4, RateAssumption DEF ServeCached, Fresh, Answer
    <2>5. CASE FetchSucceeds(p)
      <3>1. rate' \in Rate /\ Answer(p, rate')
        BY <2>5, UsableInUSD DEF FetchSucceeds
      <3>2. \E q : quote'[p] = q /\ (rate' # NoRate => q.rate = rate')
        BY <1>1, <3>1 DEF Answer
      <3> QED
        BY <1>1, <2>5, <3>2 DEF FetchSucceeds
    <2>6. CASE FetchFails(p)
      BY <1>1, <2>6, RateAssumption DEF FetchFails, Answer
    <2> QED
      BY <1>1, <2>1, <2>2, <2>3, <2>4, <2>5, <2>6 DEF Next
  <1>2. TypeOK /\ [Next]_vars =>
          [\A m \in Mint : Answered(m) =>
             /\ rate' # NoRate => quote'[m].rate = rate'
             /\ step[m] = "waiting" => now' - fetched' < TTL]_vars
    BY <1>1
  <1> QED
    BY <1>2, RateTypeCorrect, PTL DEF Spec, UsesBestRate

-----------------------------------------------------------------------------
(* The mutex.                                                              *)

LEMMA NextFetcherHoldsMutex ==
  ASSUME TypeOK, FetcherHoldsMutex, [Next]_vars
  PROVE  FetcherHoldsMutex'
  <1> USE NoOneAssumption DEF FetcherHoldsMutex, TypeOK
  <1>1. ASSUME NEW m \in Mint, Ask(m) \/ Fetch(m) PROVE FetcherHoldsMutex'
    BY <1>1 DEF Ask, Fetch
  <1>2. ASSUME NEW m \in Mint, ServeCached(m) \/ FetchSucceeds(m) \/ FetchFails(m)
        PROVE  FetcherHoldsMutex'
    <2>1. step' = [step EXCEPT ![m] = "idle"]
      BY <1>2 DEF ServeCached, FetchSucceeds, FetchFails, Answer
    <2> QED
      BY <1>2, <2>1 DEF ServeCached, FetchSucceeds, FetchFails
  <1>3. CASE Tick \/ UNCHANGED vars
    BY <1>3 DEF Tick, vars
  <1> QED
    BY <1>1, <1>2, <1>3 DEF Next

LEMMA NextStaleWhileHeld ==
  ASSUME TypeOK, StaleWhileHeld, [Next]_vars
  PROVE  StaleWhileHeld'
  <1> USE TTLAssumption DEF StaleWhileHeld, TypeOK
  <1>1. ASSUME NEW m \in Mint, Ask(m) \/ ServeCached(m) \/ Fetch(m) PROVE StaleWhileHeld'
    BY <1>1 DEF Ask, ServeCached, Fetch, Fresh
  <1>2. ASSUME NEW m \in Mint, FetchSucceeds(m) \/ FetchFails(m) PROVE StaleWhileHeld'
    BY <1>2 DEF FetchSucceeds, FetchFails
  <1>3. CASE Tick
    <2>1. rate' = rate /\ fetched' = fetched /\ mu' = mu /\ now' = now + 1
      BY <1>3 DEF Tick
    <2>2. now \in Int /\ fetched \in Int /\ TTL \in Int
      OBVIOUS
    <2> QED
      BY <2>1, <2>2 DEF Fresh
  <1>4. CASE UNCHANGED vars
    BY <1>4 DEF vars, Fresh
  <1> QED
    BY <1>1, <1>2, <1>3, <1>4 DEF Next

(* Who fetches holds the mutex, and no rate becomes fresh behind its back. *)
THEOREM RateInductive == Spec => []IInv
  <1>1. Init => FetcherHoldsMutex /\ StaleWhileHeld
    BY DEF Init, FetcherHoldsMutex, StaleWhileHeld
  <1>2. TypeOK /\ FetcherHoldsMutex /\ StaleWhileHeld /\ [Next]_vars
            => FetcherHoldsMutex' /\ StaleWhileHeld'
    BY NextFetcherHoldsMutex, NextStaleWhileHeld
  <1> QED
    BY <1>1, <1>2, RateTypeCorrect, PTL DEF Spec, IInv

-----------------------------------------------------------------------------
(* Quotes are made one after the other.                                    *)

AskedMints == {m \in Mint : step[m] # "idle"}
UsedRates  == [m \in Mint |-> quote[m].rate]

LEMMA FreshIsAtomicFresh ==
  ASSUME TypeOK
  PROVE  Fresh <=> Atomic!Fresh
  BY RateAssumption DEF TypeOK, Fresh, Atomic!Fresh, NoRate

(* An answer takes the mint off the list and records its rate.             *)
LEMMA AnswerIsAtomic ==
  ASSUME TypeOK, NEW m \in Mint, step[m] # "idle", NEW r, Answer(m, r)
  PROVE  /\ m \in AskedMints
         /\ AskedMints' = AskedMints \ {m}
         /\ UsedRates' = [UsedRates EXCEPT ![m] = r]
  <1>1. AskedMints' = AskedMints \ {m}
    BY DEF Answer, TypeOK, AskedMints
  <1>2. \E q : q.rate = r /\ quote' = [quote EXCEPT ![m] = q]
    BY DEF Answer
  <1>3. UsedRates' = [UsedRates EXCEPT ![m] = r]
    BY <1>2 DEF TypeOK, UsedRates
  <1> QED
    BY <1>1, <1>3 DEF AskedMints

LEMMA NextIsAtomic ==
  ASSUME IInv, [Next]_vars
  PROVE  [Atomic!Next]_(Atomic!vars)
  <1>0. TypeOK
    BY DEF IInv
  <1>1. ASSUME NEW m \in Mint, Ask(m) PROVE Atomic!Next
    <2>1. AskedMints' = AskedMints \cup {m}
      BY <1>0, <1>1 DEF Ask, TypeOK, AskedMints
    <2>2. Atomic!Ask(m)
      BY <1>1, <2>1 DEF Ask, Atomic!Ask, AskedMints
    <2> QED
      BY <2>2 DEF Atomic!Next
  <1>2. ASSUME NEW m \in Mint, ServeCached(m) PROVE Atomic!Next
    <2>1. Atomic!Fresh
      BY <1>0, <1>2, FreshIsAtomicFresh DEF ServeCached
    <2>2. Atomic!Answer(m, rate)
      BY <1>0, <1>2, AnswerIsAtomic DEF ServeCached, Atomic!Answer, AskedMints, UsedRates
    <2>3. Atomic!AnswerCached(m)
      BY <1>2, <2>1, <2>2 DEF ServeCached, Atomic!AnswerCached
    <2> QED
      BY <2>3 DEF Atomic!Next
  <1>3. ASSUME NEW m \in Mint, Fetch(m) PROVE UNCHANGED Atomic!vars
    <2>1. AskedMints' = AskedMints
      BY <1>0, <1>3 DEF Fetch, TypeOK, AskedMints
    <2> QED
      BY <1>3, <2>1 DEF Fetch, Atomic!vars, AskedMints
  <1>4. ASSUME NEW m \in Mint, step[m] = "fetching" PROVE ~Atomic!Fresh
    <2>1. mu # NoOne
      BY <1>4, NoOneAssumption DEF IInv, FetcherHoldsMutex
    <2> QED
      BY <1>0, <2>1, FreshIsAtomicFresh DEF IInv, StaleWhileHeld
  <1>5. ASSUME NEW m \in Mint, FetchSucceeds(m) PROVE Atomic!Next
    <2>1. rate' \in Rate /\ Answer(m, rate') /\ step[m] = "fetching"
      BY <1>5, UsableInUSD DEF FetchSucceeds
    <2>2. Atomic!Answer(m, rate')
      BY <1>0, <2>1, AnswerIsAtomic DEF Atomic!Answer, AskedMints, UsedRates
    <2>3. Atomic!AnswerReported(m)
      BY <1>4, <1>5, <2>1, <2>2 DEF FetchSucceeds, Atomic!AnswerReported
    <2> QED
      BY <2>3 DEF Atomic!Next
  <1>6. ASSUME NEW m \in Mint, FetchFails(m) PROVE Atomic!Next
    <2>1. (IF rate > 0 THEN rate ELSE Fallback) = (IF rate # NoRate THEN rate ELSE Fallback)
      BY <1>0, RateAssumption DEF TypeOK, NoRate
    <2>2. Atomic!Answer(m, IF rate # NoRate THEN rate ELSE Fallback)
      BY <1>0, <1>6, <2>1, AnswerIsAtomic
      DEF FetchFails, Atomic!Answer, AskedMints, UsedRates
    <2>3. Atomic!AnswerUnreported(m)
      BY <1>4, <1>6, <2>2 DEF FetchFails, Atomic!AnswerUnreported
    <2> QED
      BY <2>3 DEF Atomic!Next
  <1>7. ASSUME Tick PROVE Atomic!Next
    BY <1>7 DEF Tick, Atomic!Next, Atomic!Tick
  <1>8. CASE UNCHANGED vars
    BY <1>8 DEF vars, Atomic!vars
  <1> QED
    BY <1>1, <1>2, <1>3, <1>5, <1>6, <1>7, <1>8 DEF Next

(* Concurrent quotes are linearizable: each is made as if in one moment,   *)
(* for any number of mints and however long a fetch takes.                 *)
THEOREM RateIsAtomic == Spec => ImplementsAtomicRate
  <1>1. Init => Atomic!Init
    <2>1. Init => AskedMints = {} /\ UsedRates = [m \in Mint |-> NoRate]
      BY DEF Init, AskedMints, UsedRates, NoQuote
    <2> QED
      BY <2>1 DEF Init, Atomic!Init, AskedMints, UsedRates
  <1>2. IInv /\ [Next]_vars => [Atomic!Next]_(Atomic!vars)
    BY NextIsAtomic
  <1> QED
    BY <1>1, <1>2, RateInductive, PTL DEF Spec, ImplementsAtomicRate, Atomic!Spec
=============================================================================
