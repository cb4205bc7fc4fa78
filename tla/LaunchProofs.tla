----------------------------- MODULE LaunchProofs -----------------------------
(***************************************************************************)
(* Theorems of Launch, for any number of indexes and lives, any timeouts   *)
(* and any price tables.                                                   *)
(***************************************************************************)
EXTENDS Launch, FiniteSetTheorems, TLAPS

LEMMA TargetType ==
  ASSUME NEW i \in Turns
  PROVE  Registrars[i] \in Index
  BY DEF Index

LEMMA LenType == Len(Registrars) \in Nat
  BY RegistrarsAssumption

(* A mint at the listed price keeps the store's type, and leaves what was  *)
(* minted before as it was.                                                *)
LEMMA StoresBinds ==
  ASSUME Dcr402TypeOK, price \in USD, NEW hashes \in SUBSET Hash, Stores(hashes)
  PROVE  /\ Dcr402TypeOK'
         /\ \A o \in Offer : bound[o] # NotMinted => bound'[o] = bound[o]
         /\ \A o \in hashes : bound'[o] = <<Hello, price>>
  <1>1. CASE service = "x402svc"
    BY <1>1 DEF Stores, dcr402Vars, Dcr402TypeOK
  <1>2. CASE service # "x402svc"
    <2>1. Mint(hashes, ListedSpec)
      BY <1>2 DEF Stores
    <2>2. BoundResource(ListedSpec) = <<Hello, price>> /\ <<Hello, price>> \in Resource \X USD
      BY HelloAssumption DEF BoundResource, ListedSpec
    <2>3. hashes \subseteq Offer
      BY DEF Offer
    <2> QED
      BY <2>1, <2>2, <2>3 DEF Mint, Fresh, Dcr402TypeOK
  <1> QED
    BY <1>1, <1>2

(* Nothing else a step does touches the store.                             *)
LEMMA StoreKept ==
  ASSUME Dcr402TypeOK, UNCHANGED dcr402Vars
  PROVE  Dcr402TypeOK' /\ bound' = bound
  BY DEF Dcr402TypeOK, dcr402Vars

(* Nor does an expiry touch what an offer is bound to.                     *)
LEMMA ExpiryKept ==
  ASSUME Dcr402TypeOK, NEW o \in Offer, OfferExpires(o)
  PROVE  /\ Dcr402TypeOK' /\ bound' = bound
         /\ UNCHANGED <<stage, configVars, timeVars, submitVars, indexVars>>
  BY DEF OfferExpires, Expire, Dcr402TypeOK

-----------------------------------------------------------------------------
(* Type correctness.                                                       *)

LEMMA NextTypeOK ==
  ASSUME TypeOK, HasPrice, WaitsEnd, [Next]_vars
  PROVE  TypeOK'
  <1> USE DEF TypeOK, configVars, timeVars, submitVars, indexVars
  <1>0. Len(Registrars) \in Nat
    BY LenType
  <1>1. CASE Load \/ Exit \/ SyncEnds \/ SkipListing \/ ListingEnds
    BY <1>1, StoreKept DEF Load, Exit, SyncEnds, SkipListing, ListingEnds, Stage
  <1>2. CASE Open \/ BeginListing
    BY <1>2, StoreKept, TimeoutAssumption DEF Open, BeginListing, Stage
  <1>3. CASE MintListed
    <2>1. PICK hashes \in SUBSET Hash :
            Stores(hashes) /\ terms' = {[usd |-> price, offers |-> hashes]}
      BY <1>3 DEF MintListed
    <2>2. price \in USD
      BY <1>3 DEF MintListed, HasPrice, Listing
    <2>3. terms' \in SUBSET Terms
      BY <2>1, <2>2 DEF Terms
    <2>4. Dcr402TypeOK'
      BY <2>1, <2>2, StoresBinds
    <2> QED
      BY <1>3, <2>3, <2>4 DEF MintListed, Stage
  <1>4. CASE MintFails
    <2>1. PICK hashes \in SUBSET Hash : Stores(hashes)
      BY <1>4 DEF MintFails
    <2>2. Dcr402TypeOK'
      BY <1>4, <2>1, StoresBinds DEF MintFails, HasPrice, Listing
    <2> QED
      BY <1>4, <2>2 DEF MintFails, Stage
  <1>5. CASE Post
    <2>1. next \in Turns
      BY <1>0, <1>5 DEF Post, Turn, Turns
    <2>2. pending' \subseteq Turns \X Terms \X (1 .. MaxLives)
      BY <1>5, <2>1 DEF Post
    <2>3. due' \in Nat
      BY <1>5, TimeoutAssumption DEF Post, SubmitDue
    <2> QED
      BY <1>5, <2>2, <2>3, StoreKept DEF Post, Stage, Fate
  <1>6. CASE CannotPost \/ TooLate
    BY <1>0, <1>6, StoreKept DEF CannotPost, TooLate, Turn, PassOver, Fate
  <1>7. CASE SubmitSucceeds \/ SubmitFails
    <2>1. next + 1 \in 1 .. Len(Registrars) + 1 /\ ok + 1 \in Nat
      BY <1>0, <1>7 DEF SubmitSucceeds, SubmitFails, HasPrice
    <2>2. Dcr402TypeOK'
      BY <1>7, StoreKept DEF SubmitSucceeds, SubmitFails
    <2>3. next' \in 1 .. Len(Registrars) + 1 /\ ok' \in Nat /\ stage' \in Stage
      BY <1>7, <2>1 DEF SubmitSucceeds, SubmitFails, PassOver, Stage
    <2> QED
      BY <1>7, <2>2, <2>3 DEF SubmitSucceeds, SubmitFails
  <1>8. ASSUME NEW p \in pending, IndexTakes(p) \/ IndexLoses(p)
        PROVE  TypeOK'
    <2>1. p[1] \in Turns /\ p[2] \in Terms
      OBVIOUS
    <2>2. Registrars[p[1]] \in Index
      BY <2>1, TargetType
    <2> QED
      BY <1>8, <2>1, <2>2, StoreKept DEF IndexTakes, IndexLoses, Fate
  <1>9. CASE Tick
    BY <1>9, StoreKept DEF Tick
  <1>10. CASE Restart
    <2>1. 1 \in 1 .. Len(Registrars) + 1
      BY <1>0
    <2>2. lives' \in 1 .. MaxLives
      BY <1>10, LaunchesAssumption DEF Restart
    <2>3. fate' \in [Turns -> Fate]
      BY <1>10 DEF Restart, Fate
    <2>4. Dcr402TypeOK'
      BY <1>10, StoreKept DEF Restart
    <2> QED
      BY <1>10, <2>1, <2>2, <2>3, <2>4 DEF Restart, Stage
  <1>11. CASE UNCHANGED vars
    BY <1>11, StoreKept DEF vars
  <1>12. ASSUME NEW o \in Offer, OfferExpires(o)
         PROVE  TypeOK'
    BY <1>12, ExpiryKept
  <1> QED
    BY <1>1, <1>2, <1>3, <1>4, <1>5, <1>6, <1>7, <1>8, <1>9, <1>10, <1>11, <1>12 DEF Next

-----------------------------------------------------------------------------
(* Prices and deadlines.                                                   *)

LEMMA NextHasPrice ==
  ASSUME TypeOK, HasPrice, [Next]_vars
  PROVE  HasPrice'
  <1> USE DEF HasPrice, Listing, TypeOK, configVars, submitVars
  <1>1. CASE Load \/ Exit \/ Open \/ SyncEnds \/ SkipListing \/ ListingEnds
    BY <1>1 DEF Load, Exit, Open, SyncEnds, SkipListing, ListingEnds
  <1>2. CASE BeginListing \/ MintListed \/ MintFails
    BY <1>2 DEF BeginListing, MintListed, MintFails
  <1>3. CASE Post \/ CannotPost \/ TooLate \/ SubmitSucceeds \/ SubmitFails
    BY <1>3 DEF Post, CannotPost, TooLate, SubmitSucceeds, SubmitFails, Turn
  <1>4. CASE \/ \E p \in pending : IndexTakes(p) \/ IndexLoses(p)
             \/ \E o \in Offer : OfferExpires(o)
             \/ Tick \/ Restart \/ UNCHANGED vars
    BY <1>4 DEF IndexTakes, IndexLoses, OfferExpires, Tick, Restart, vars
  <1> QED
    BY <1>1, <1>2, <1>3, <1>4 DEF Next

LEMMA NextWaitsEnd ==
  ASSUME TypeOK, WaitsEnd, [Next]_vars
  PROVE  WaitsEnd'
  <1> USE TimeoutAssumption DEF WaitsEnd, Listing, TypeOK, configVars, timeVars
  <1>1. CASE Load \/ Exit \/ Open \/ SyncEnds \/ SkipListing \/ ListingEnds
    BY <1>1 DEF Load, Exit, Open, SyncEnds, SkipListing, ListingEnds
  <1>2. CASE BeginListing
    BY <1>2 DEF BeginListing
  <1>3. CASE MintListed \/ MintFails
    BY <1>3 DEF MintListed, MintFails
  <1>4. CASE Post
    BY <1>4 DEF Post, Turn, SubmitDue
  <1>5. CASE CannotPost \/ TooLate \/ SubmitSucceeds \/ SubmitFails
    BY <1>5 DEF CannotPost, TooLate, SubmitSucceeds, SubmitFails, Turn
  <1>6. CASE Tick
    BY <1>6 DEF Tick
  <1>7. CASE Restart
    BY <1>7 DEF Restart
  <1>8. CASE \/ \E p \in pending : IndexTakes(p) \/ IndexLoses(p)
             \/ \E o \in Offer : OfferExpires(o)
             \/ UNCHANGED vars
    BY <1>8 DEF IndexTakes, IndexLoses, OfferExpires, vars
  <1> QED
    BY <1>1, <1>2, <1>3, <1>4, <1>5, <1>6, <1>7, <1>8 DEF Next

-----------------------------------------------------------------------------
(* Offers.                                                                 *)

(* What was bound when it was listed stays bound.                          *)
LEMMA BindsKept ==
  ASSUME TypeOK, NEW l \in Terms, Binds(l),
         \A o \in Offer : bound[o] # NotMinted => bound'[o] = bound[o]
  PROVE  Binds(l)'
  <1> SUFFICES ASSUME NEW o \in l.offers
               PROVE  bound'[o] = <<Hello, l.usd>>
    BY DEF Binds
  <1>1. o \in Offer /\ bound[o] = <<Hello, l.usd>>
    BY DEF Terms, Offer, Binds
  <1>2. bound[o] # NotMinted
    BY <1>1, NotMintedAssumption, HelloAssumption DEF Terms
  <1> QED
    BY <1>1, <1>2

(* A step after which the store still binds what it bound, and the outside *)
(* knows no more than before, or this life's terms.                        *)
LEMMA NothingNewKnown ==
  ASSUME TypeOK, OffersAreBound,
         \A o \in Offer : bound[o] # NotMinted => bound'[o] = bound[o],
         terms' \subseteq terms,
         \A p \in pending' : p \in pending \/ p[2] \in terms,
         \A t \in Index : \A l \in listing'[t] :
            l \in listing[t] \/ \E p \in pending : l = p[2]
  PROVE  OffersAreBound'
  <1>1. ASSUME NEW l \in Terms, Binds(l) PROVE Binds(l)'
    BY <1>1, BindsKept
  <1>2. ASSUME NEW l \in terms' PROVE Binds(l)'
    BY <1>1, <1>2 DEF OffersAreBound, TypeOK
  <1>3. ASSUME NEW p \in pending' PROVE Binds(p[2])'
    <2>1. p[2] \in Terms /\ Binds(p[2])
      BY <1>3 DEF OffersAreBound, TypeOK
    <2> QED
      BY <1>1, <2>1
  <1>4. ASSUME NEW t \in Index, NEW l \in listing'[t] PROVE Binds(l)'
    <2>1. l \in Terms /\ Binds(l)
      BY <1>4 DEF OffersAreBound, TypeOK
    <2> QED
      BY <1>1, <2>1
  <1> QED
    BY <1>2, <1>3, <1>4 DEF OffersAreBound

LEMMA NextOffersAreBound ==
  ASSUME TypeOK, HasPrice, OffersAreBound, [Next]_vars
  PROVE  OffersAreBound'
  <1> DEFINE StoreStays == \A o \in Offer : bound[o] # NotMinted => bound'[o] = bound[o]
  <1> USE DEF submitVars, indexVars
  <1>1. CASE MintListed
    <2>1. PICK hashes \in SUBSET Hash :
            Stores(hashes) /\ terms' = {[usd |-> price, offers |-> hashes]}
      BY <1>1 DEF MintListed
    <2>2. StoreStays /\ \A o \in hashes : bound'[o] = <<Hello, price>>
      BY <1>1, <2>1, StoresBinds DEF MintListed, HasPrice, Listing, TypeOK
    <2>3. \A l \in terms' : Binds(l)'
      BY <2>1, <2>2 DEF Binds
    <2>4. ASSUME NEW l \in Terms, Binds(l) PROVE Binds(l)'
      BY <2>2, <2>4, BindsKept
    <2>5. \A p \in pending : Binds(p[2])'
      BY <2>4 DEF OffersAreBound, TypeOK
    <2>6. \A t \in Index : \A l \in listing[t] : Binds(l)'
      BY <2>4 DEF OffersAreBound, TypeOK
    <2> QED
      BY <1>1, <2>3, <2>5, <2>6 DEF MintListed, OffersAreBound
  <1>2. CASE MintFails
    <2>1. PICK hashes \in SUBSET Hash : Stores(hashes)
      BY <1>2 DEF MintFails
    <2>2. StoreStays
      BY <1>2, <2>1, StoresBinds DEF MintFails, HasPrice, Listing, TypeOK
    <2> QED
      BY <1>2, <2>2, NothingNewKnown DEF MintFails
  <1>3. CASE Post
    <2>1. StoreStays
      BY <1>3, StoreKept DEF Post, TypeOK
    <2>2. \A p \in pending' : p \in pending \/ p[2] \in terms
      BY <1>3 DEF Post
    <2> QED
      BY <1>3, <2>1, <2>2, NothingNewKnown DEF Post
  <1>4. ASSUME NEW p \in pending, IndexTakes(p) \/ IndexLoses(p)
        PROVE  OffersAreBound'
    <2>1. StoreStays
      BY <1>4, StoreKept DEF IndexTakes, IndexLoses, TypeOK
    <2>2. \A t \in Index : \A l \in listing'[t] :
             l \in listing[t] \/ \E m \in pending : l = m[2]
      BY <1>4 DEF IndexTakes, IndexLoses, TypeOK
    <2> QED
      BY <1>4, <2>1, <2>2, NothingNewKnown DEF IndexTakes, IndexLoses
  <1>5. CASE \/ Load \/ Open \/ Exit \/ SyncEnds \/ SkipListing \/ BeginListing
             \/ CannotPost \/ TooLate \/ SubmitSucceeds \/ SubmitFails \/ ListingEnds
             \/ Tick \/ Restart \/ UNCHANGED vars
    <2>1. UNCHANGED <<dcr402Vars, pending, listing>> /\ terms' \subseteq terms
      BY <1>5 DEF Load, Open, Exit, SyncEnds, SkipListing, BeginListing, CannotPost, TooLate,
         SubmitSucceeds, SubmitFails, ListingEnds, Tick, Restart, vars
    <2> QED
      BY <2>1, StoreKept, NothingNewKnown DEF TypeOK
  <1>6. ASSUME NEW o \in Offer, OfferExpires(o)
        PROVE  OffersAreBound'
    <2>1. UNCHANGED <<bound, terms, pending, listing>>
      BY <1>6, ExpiryKept DEF TypeOK
    <2> QED
      BY <2>1, NothingNewKnown
  <1> QED
    BY <1>1, <1>2, <1>3, <1>4, <1>5, <1>6 DEF Next

-----------------------------------------------------------------------------
(* The count.                                                              *)

LEMMA CountFinite ==
  ASSUME NEW n, fate \in [Turns -> Fate]
  PROVE  /\ IsFiniteSet({i \in Took : i < n})
         /\ Cardinality({i \in Took : i < n}) \in Nat
  <1>1. IsFiniteSet(Turns)
    BY LenType, FS_Interval DEF Turns
  <1>2. {i \in Took : i < n} \in SUBSET Turns
    BY DEF Took
  <1>3. IsFiniteSet({i \in Took : i < n})
    BY <1>1, <1>2, FS_Subset
  <1> QED
    BY <1>3, FS_CardinalityType

(* A step that counts nothing, and takes no fate back of a target that has *)
(* had its turn.                                                           *)
LEMMA CountKept ==
  ASSUME TypeOK, TypeOK', CountsPast, ok' = ok, next <= next',
         \A i \in Turns : i < next /\ fate[i] = "took" => fate'[i] = "took"
  PROVE  CountsPast'
  <1> DEFINE Before == {i \in Took : i < next}
             After  == {i \in Took' : i < next'}
  <1>1. next \in Int /\ next' \in Int /\ ok \in Int
    BY LenType DEF TypeOK
  <1>2. Before \subseteq After
    BY <1>1 DEF Took, Turns
  <1>3. IsFiniteSet(Before) /\ Cardinality(Before) \in Nat
    BY CountFinite DEF TypeOK
  <1>4. IsFiniteSet(After) /\ Cardinality(After) \in Nat
    <2>1. IsFiniteSet(Turns) /\ After \in SUBSET Turns
      BY LenType, FS_Interval DEF Turns, Took
    <2> QED
      BY <2>1, FS_Subset, FS_CardinalityType
  <1>5. Cardinality(Before) <= Cardinality(After)
    BY <1>2, <1>4, FS_Subset
  <1> HIDE DEF Before, After
  <1>6. ok <= Cardinality(After)
    BY <1>1, <1>3, <1>4, <1>5 DEF CountsPast, Before
  <1> QED
    BY <1>6 DEF CountsPast, After

(* A target is counted once its index has taken the post.                  *)
LEMMA CountGrows ==
  ASSUME TypeOK, HasPrice, CountsPast, SubmitSucceeds
  PROVE  CountsPast'
  <1> DEFINE Before == {i \in Took : i < next}
  <1>1. next \in Turns /\ fate[next] = "took"
    BY LenType DEF SubmitSucceeds, HasPrice, TypeOK, Turns
  <1>2. {i \in Took' : i < next'} = Before \cup {next}
    <2>1. fate' = fate /\ next' = next + 1 /\ next \in Int
      BY <1>1, LenType DEF SubmitSucceeds, Turns
    <2>2. \A i \in Turns : i < next' <=> i < next \/ i = next
      BY <2>1, LenType DEF Turns
    <2> QED
      BY <1>1, <2>1, <2>2 DEF Took
  <1>3. IsFiniteSet(Before) /\ Cardinality(Before) \in Nat /\ next \notin Before
    <2>1. IsFiniteSet(Before) /\ Cardinality(Before) \in Nat
      BY CountFinite DEF TypeOK
    <2>2. next \in Int
      BY <1>1, LenType DEF Turns
    <2> QED
      BY <2>1, <2>2
  <1>4. Cardinality(Before \cup {next}) = Cardinality(Before) + 1
    BY <1>3, FS_AddElement
  <1>5. ok' = ok + 1 /\ ok \in Nat
    BY DEF SubmitSucceeds, TypeOK
  <1> HIDE DEF Before
  <1>6. ok' <= Cardinality(Before \cup {next})
    BY <1>3, <1>4, <1>5 DEF CountsPast, Before
  <1> QED
    BY <1>2, <1>6 DEF CountsPast

LEMMA NextCountsPast ==
  ASSUME TypeOK, TypeOK', HasPrice, CountsPast, [Next]_vars
  PROVE  CountsPast'
  <1> USE LenType DEF submitVars, Turns
  <1>1. CASE \/ Load \/ Open \/ Exit \/ SyncEnds \/ SkipListing \/ BeginListing
             \/ MintListed \/ MintFails \/ ListingEnds \/ Tick
             \/ (\E o \in Offer : OfferExpires(o)) \/ UNCHANGED vars
    <2>1. UNCHANGED <<ok, next, fate>>
      BY <1>1 DEF Load, Open, Exit, SyncEnds, SkipListing, BeginListing, MintListed,
         MintFails, ListingEnds, Tick, OfferExpires, vars
    <2> QED
      BY <2>1, CountKept DEF TypeOK
  <1>2. CASE Post \/ CannotPost \/ TooLate \/ SubmitFails
    <2>1. ok' = ok /\ next <= next'
      BY <1>2 DEF Post, CannotPost, TooLate, SubmitFails, PassOver, TypeOK
    <2>2. \A i \in Turns : i < next => fate'[i] = fate[i]
      BY <1>2 DEF Post, CannotPost, TooLate, SubmitFails, TypeOK
    <2> QED
      BY <2>1, <2>2, CountKept
  <1>3. CASE SubmitSucceeds
    BY <1>3, CountGrows
  <1>4. ASSUME NEW p \in pending, IndexTakes(p) \/ IndexLoses(p)
        PROVE  CountsPast'
    <2>1. ok' = ok /\ next' = next
      BY <1>4 DEF IndexTakes, IndexLoses
    <2>2. \A i \in Turns : fate[i] = "took" => fate'[i] = "took"
      BY <1>4 DEF IndexTakes, IndexLoses, TypeOK
    <2> QED
      BY <2>1, <2>2, CountKept DEF TypeOK
  <1>5. CASE Restart
    <2>1. Cardinality({i \in Took' : i < next'}) \in Nat
      <3>1. IsFiniteSet(Turns) /\ {i \in Took' : i < next'} \in SUBSET Turns
        BY FS_Interval DEF Took
      <3> QED
        BY <3>1, FS_Subset, FS_CardinalityType
    <2>2. ok' = 0
      BY <1>5 DEF Restart
    <2> QED
      BY <2>1, <2>2 DEF CountsPast
  <1> QED
    BY <1>1, <1>2, <1>3, <1>4, <1>5 DEF Next

-----------------------------------------------------------------------------
LEMMA LaunchInit == Init => IInv
  <1> SUFFICES ASSUME Init PROVE IInv
    OBVIOUS
  <1>1. Dcr402TypeOK
    BY DepthAssumption DEF Init, Dcr402Init, Dcr402TypeOK
  <1>2. TypeOK
    <2>1. 1 \in 1 .. Len(Registrars) + 1 /\ 1 \in 1 .. MaxLives
      BY LenType, LaunchesAssumption
    <2>2. fate \in [Turns -> Fate] /\ listing \in [Index -> SUBSET Terms]
      BY DEF Init, Fate
    <2> QED
      BY <1>1, <2>1, <2>2 DEF Init, TypeOK, Stage
  <1>3. CountsPast
    <2>1. Cardinality({i \in Took : i < next}) \in Nat
      BY <1>2, CountFinite DEF TypeOK
    <2>2. ok = 0
      BY DEF Init
    <2> QED
      BY <2>1, <2>2 DEF CountsPast
  <1> QED
    BY <1>2, <1>3, TimeoutAssumption
    DEF Init, IInv, HasPrice, WaitsEnd, Listing, OffersAreBound

(* The inductive invariant of a launch.                                    *)
THEOREM LaunchInductive == Spec => []IInv
  <1>1. IInv /\ [Next]_vars => IInv'
    BY NextTypeOK, NextHasPrice, NextWaitsEnd, NextOffersAreBound, NextCountsPast DEF IInv
  <1> QED
    BY <1>1, LaunchInit, PTL DEF Spec

(* Every variable of a launch keeps its type: no site without a price is   *)
(* minted for or listed.                                                   *)
THEOREM LaunchTypeCorrect == Spec => []TypeOK
  BY LaunchInductive, PTL DEF IInv

(* Whatever hangs, main is past its waits within the two deadlines, for    *)
(* any number of targets and any timeout of a single submission.           *)
THEOREM LaunchBootsInTime == Spec => []BootsInTime
  <1>1. IInv => BootsInTime
    BY TimeoutAssumption DEF IInv, TypeOK, Stage, WaitsEnd, Listing, BootsInTime
  <1> QED
    BY <1>1, LaunchInductive, PTL

(* The proof of a listed invoice is good, until it expires, at /hello and  *)
(* the listed price and nowhere else.                                      *)
THEOREM LaunchListingSettles == Spec => []ListingSettles
  <1>1. ASSUME IInv, NEW t \in Index, NEW l \in listing[t], NEW o \in l.offers,
               NEW s \in ChallengeSpec
        PROVE  OfferedFor(ProofOf(o), s) <=> o \in live /\ s = [resource |-> Hello, usd |-> l.usd]
    <2>1. bound[o] = <<Hello, l.usd>>
      BY <1>1 DEF IInv, OffersAreBound, Binds
    <2>2. OfferOf(ProofOf(o)) = o
      BY DEF OfferOf, ProofOf
    <2>3. s = [resource |-> s.resource, usd |-> s.usd]
      BY DEF ChallengeSpec
    <2> QED
      BY <2>1, <2>2, <2>3 DEF OfferedFor, BoundResource
  <1>2. IInv => ListingSettles
    BY <1>1 DEF ListingSettles
  <1> QED
    BY <1>2, LaunchInductive, PTL

(* Each step of main leaves it fewer.                                      *)
LEMMA BootStepCounted ==
  ASSUME TypeOK, HasPrice, Next, lives' = lives, stage' # stage \/ next' # next
  PROVE  StepsLeft' < StepsLeft
  <1> DEFINE n == Len(Registrars)
  <1>0. n \in Nat /\ next \in 1 .. n + 1 /\ stage \in Stage
    BY LenType DEF TypeOK
  <1>1. CASE Load \/ Open \/ SyncEnds \/ SkipListing \/ BeginListing \/ Exit
    <2>1. \/ stage \in {"load", "open", "listening"} /\ stage' = "exited"
          \/ stage = "load" /\ stage' = "open"
          \/ stage = "open" /\ stage' \in {"sync", "list"}
          \/ stage = "sync" /\ stage' = "list"
          \/ stage = "list" /\ stage' \in {"listening", "mint"}
      BY <1>1 DEF Load, Open, SyncEnds, SkipListing, BeginListing, Exit
    <2> HIDE DEF n
    <2> QED
      BY <1>0, <2>1 DEF StepsLeft, n
  <1>2. CASE MintListed \/ MintFails \/ ListingEnds
    <2>1. /\ next' = next
          /\ \/ stage = "mint" /\ stage' \in {"next", "listening"}
             \/ stage = "next" /\ stage' = "listening"
      BY <1>2 DEF MintListed, MintFails, ListingEnds, submitVars
    <2> QED
      BY <1>0, <2>1 DEF StepsLeft
  <1>3. CASE Post
    <2>1. stage = "next" /\ stage' = "post" /\ next' = next
      BY <1>3 DEF Post, Turn
    <2> QED
      BY <1>0, <2>1 DEF StepsLeft
  <1>4. CASE CannotPost \/ TooLate \/ SubmitSucceeds \/ SubmitFails
    <2>1. next' = next + 1 /\ stage \in {"next", "post"} /\ stage' = "next"
      BY <1>4 DEF CannotPost, TooLate, SubmitSucceeds, SubmitFails, Turn, PassOver
    <2> QED
      BY <1>0, <2>1 DEF StepsLeft
  <1>5. CASE \/ Tick \/ Restart \/ \E o \in Offer : OfferExpires(o)
             \/ \E p \in pending : IndexTakes(p) \/ IndexLoses(p)
    <2>1. (stage' = stage /\ next' = next) \/ lives' = lives + 1
      BY <1>5 DEF Tick, Restart, OfferExpires, IndexTakes, IndexLoses, submitVars
    <2> QED
      BY <2>1 DEF TypeOK
  <1> QED
    BY <1>1, <1>2, <1>3, <1>4, <1>5 DEF Next

(* A boot is over in a number of steps bounded by the targets it lists on. *)
THEOREM LaunchTerminates == Spec => BootTerminates
  <1>1. IInv /\ [Next]_vars =>
          [lives' = lives /\ (stage' # stage \/ next' # next) => StepsLeft' < StepsLeft]_vars
    BY BootStepCounted DEF IInv
  <1> QED
    BY <1>1, LaunchInductive, PTL DEF Spec, BootTerminates

(* The count RegisterAll returns is of targets whose index took this       *)
(* life's terms, however answers are lost, posts are late and targets name *)
(* one index twice.                                                        *)
THEOREM LaunchCountIsHonest == Spec => []CountIsHonest
  <1>1. ASSUME IInv PROVE CountIsHonest
    <2> DEFINE Past == {i \in Took : i < next}
    <2>1. IsFiniteSet(Took) /\ Cardinality(Took) \in Nat
      <3>1. IsFiniteSet(Turns) /\ Took \in SUBSET Turns
        BY LenType, FS_Interval DEF Turns, Took
      <3> QED
        BY <3>1, FS_Subset, FS_CardinalityType
    <2>2. Cardinality(Past) <= Cardinality(Took) /\ Cardinality(Past) \in Nat
      BY <1>1, <2>1, FS_Subset, CountFinite DEF IInv, TypeOK
    <2>3. ok \in Nat /\ ok <= Cardinality(Past)
      BY <1>1 DEF IInv, TypeOK, CountsPast
    <2> HIDE DEF Past
    <2> QED
      BY <2>1, <2>2, <2>3 DEF CountIsHonest
  <1> QED
    BY <1>1, LaunchInductive, PTL

=============================================================================
