--------------------------- MODULE ChallengeProofs ---------------------------
(***************************************************************************)
(* Theorems of Challenge, for any finite set of rails and any extensions.  *)
(***************************************************************************)
EXTENDS Challenge, FiniteSetTheorems, TLAPS

LEMMA OrderIsSeq ==
  ASSUME NEW o \in Orders
  PROVE  o \in Seq(Rail)
  <1>1. Cardinality(Rail) \in Nat
    BY RailAssumption, FS_CardinalityType
  <1> QED
    BY <1>1 DEF Orders

(* What is appended to the list of writers.                                *)
LEMMA Written ==
  ASSUME wrote \in Seq(Rail), NEW rail \in Rail, wrote' = Append(wrote, rail)
  PROVE  /\ wrote' \in Seq(Rail)
         /\ Len(wrote') = Len(wrote) + 1
         /\ wrote'[Len(wrote) + 1] = rail
         /\ \A i \in 1 .. Len(wrote) : wrote'[i] = wrote[i]
  OBVIOUS

(***************************************************************************)
(* A rail's contribution to the object, by Write402 or MCPAccepts.         *)
(***************************************************************************)
Contributes(rail) ==
    /\ Asks(rail, "offer")
    /\ object' = SetOrMerge(object, PaymentRequiredOf(rail, 1))
    /\ wrote' = Append(wrote, rail)
    /\ UNCHANGED <<surface, order>>

LEMMA RailContributes ==
  ASSUME IInv, NEW rail \in Rail, Write402(rail) \/ MCPAccepts(rail)
  PROVE  Contributes(rail)
  <1>1. CASE Write402(rail)
    BY <1>1 DEF Write402, Contributes
  <1>2. CASE MCPAccepts(rail)
    <2>1. object.frame # NoRail
      BY <1>2 DEF MCPAccepts, IInv, Framed
    <2> QED
      BY <1>2, <2>1 DEF MCPAccepts, Contributes, SetOrMerge
  <1> QED
    BY <1>1, <1>2

(* The object after a contribution, its parts one by one.                  *)
LEMMA ContributionParts ==
  ASSUME IInv, NEW rail \in Rail, Contributes(rail)
  PROVE  /\ object'.frame \in Rail \cup {Site}
         /\ object'.accepts = Append(object.accepts, <<rail, 1>>)
         /\ DOMAIN object'.exts = DOMAIN object.exts \cup ExtensionsOf[rail]
         /\ \A k \in DOMAIN object.exts : object'.exts[k] = object.exts[k]
         /\ \A k \in ExtensionsOf[rail] :
               k \notin DOMAIN object.exts => object'.exts[k] = <<rail, 1>>
  <1> DEFINE pr == PaymentRequiredOf(rail, 1)
  <1>1. /\ pr.frame = rail /\ pr.accepts = <<<<rail, 1>>>>
        /\ DOMAIN pr.exts = ExtensionsOf[rail]
        /\ \A k \in ExtensionsOf[rail] : pr.exts[k] = <<rail, 1>>
    BY DEF PaymentRequiredOf, Entry
  <1>2. object.accepts \in Seq(Minted) /\ <<rail, 1>> \in Minted
    BY DEF IInv, TypeOK, Minted
  <1>3. CASE object.frame = NoRail
    <2>1. object' = pr
      BY <1>3 DEF Contributes, SetOrMerge
    <2>2. object.accepts = <<>> /\ DOMAIN object.exts = {}
      BY <1>3 DEF IInv, Framed, Empty
    <2>3. Append(object.accepts, <<rail, 1>>) = <<<<rail, 1>>>>
      BY <2>2
    <2> QED
      BY <1>1, <2>1, <2>2, <2>3
  <1>4. CASE object.frame # NoRail
    <2>1. /\ object'.frame = object.frame
          /\ object'.accepts = object.accepts \o pr.accepts
          /\ object'.exts = Joined(object.exts, pr.exts)
      BY <1>4 DEF Contributes, SetOrMerge, MergeInto
    <2>2. object.accepts \o <<<<rail, 1>>>> = Append(object.accepts, <<rail, 1>>)
      BY <1>2
    <2>3. object'.frame \in Rail \cup {Site}
      BY <1>4, <2>1 DEF IInv, TypeOK
    <2>4. /\ DOMAIN object'.exts = DOMAIN object.exts \cup DOMAIN pr.exts
          /\ \A k \in DOMAIN object.exts : object'.exts[k] = object.exts[k]
          /\ \A k \in DOMAIN pr.exts : k \notin DOMAIN object.exts => object'.exts[k] = pr.exts[k]
      <3> HIDE DEF pr
      <3> QED
        BY <2>1 DEF Joined
    <2>5. object'.accepts = Append(object.accepts, <<rail, 1>>)
      BY <1>1, <2>1, <2>2
    <2> HIDE DEF pr
    <2> QED
      BY <1>1, <2>3, <2>4, <2>5
  <1> QED
    BY <1>3, <1>4

-----------------------------------------------------------------------------
(* Type correctness.                                                       *)

LEMMA NextTypeOK ==
  ASSUME IInv, [Next]_vars
  PROVE  TypeOK'
  <1> USE DEF TypeOK
  <1>0. TypeOK /\ BodyAfterHeader
    BY DEF IInv
  <1>1. Len(order) \in Nat
    BY <1>0, OrderIsSeq
  <1>2. ASSUME NEW rail \in Rail, RailFails(rail)
        PROVE  TypeOK'
    <2>1. at' \in 1 .. Len(order) + 1 /\ asked' = "offer"
      BY <1>0, <1>1, <1>2 DEF RailFails, Asks, NextRail
    <2> QED
      BY <1>0, <1>2, <2>1 DEF RailFails
  <1>3. ASSUME NEW rail \in Rail, Write402(rail) \/ MCPAccepts(rail)
        PROVE  TypeOK'
    <2>1. Contributes(rail)
      BY <1>3, RailContributes
    <2>2. /\ object'.frame \in Rail \cup {Site}
          /\ object'.accepts = Append(object.accepts, <<rail, 1>>)
          /\ DOMAIN object'.exts = DOMAIN object.exts \cup ExtensionsOf[rail]
      BY <2>1, ContributionParts
    <2>3. object'.accepts \in Seq(Minted)
      BY <1>0, <2>2 DEF Minted
    <2>4. DOMAIN object'.exts \subseteq Key
      BY <1>0, <2>2, ExtensionsAssumption
    <2>5. wrote' \in Seq(Rail)
      BY <1>0, <2>1 DEF Contributes
    <2>6. at' \in 1 .. Len(order) + 1 /\ asked' \in {"offer", "body"}
      BY <1>0, <1>1, <1>3 DEF Write402, MCPAccepts, Asks, NextRail
    <2>7. UNCHANGED <<surface, order, challenges, outcome>>
      BY <1>3 DEF Write402, MCPAccepts
    <2> QED
      BY <1>0, <2>2, <2>3, <2>4, <2>5, <2>6, <2>7
  <1>4. ASSUME NEW rail \in Rail, ChallengeJSON(rail)
        PROVE  TypeOK'
    <2>1. at' \in 1 .. Len(order) + 1 /\ asked' = "offer"
      BY <1>0, <1>1, <1>4 DEF ChallengeJSON, Asks, NextRail
    <2>2. DOMAIN challenges' \subseteq Rail
      BY <1>0, <1>4 DEF ChallengeJSON, Joined
    <2> QED
      BY <1>0, <1>4, <2>1, <2>2 DEF ChallengeJSON
  <1>5. CASE Compose
    BY <1>0, <1>5 DEF Compose
  <1>6. CASE UNCHANGED vars
    BY <1>0, <1>6 DEF vars
  <1> QED
    BY <1>2, <1>3, <1>4, <1>5, <1>6 DEF Next

-----------------------------------------------------------------------------
(* Contributions keep the merge's promises.                                *)

LEMMA ContributionKept ==
  ASSUME IInv, NEW rail \in Rail, Contributes(rail)
  PROVE  object'.accepts = [i \in 1 .. Len(wrote') |-> <<wrote'[i], 1>>]
  <1>1. wrote \in Seq(Rail) /\ object.accepts = [i \in 1 .. Len(wrote) |-> <<wrote[i], 1>>]
    BY DEF IInv, TypeOK, OffersEveryWriter
  <1>2. /\ Len(wrote') = Len(wrote) + 1
        /\ wrote'[Len(wrote) + 1] = rail
        /\ \A i \in 1 .. Len(wrote) : wrote'[i] = wrote[i]
    BY <1>1, Written DEF Contributes
  <1>3. object'.accepts = Append(object.accepts, <<rail, 1>>) /\ object.accepts \in Seq(Minted)
    BY ContributionParts DEF IInv, TypeOK
  <1>4. Len(wrote) \in Nat /\ Len(object.accepts) = Len(wrote)
    BY <1>1, <1>3
  <1>5. /\ DOMAIN object'.accepts = 1 .. Len(wrote) + 1
        /\ \A i \in 1 .. Len(wrote) : object'.accepts[i] = object.accepts[i]
        /\ object'.accepts[Len(wrote) + 1] = <<rail, 1>>
    BY <1>3, <1>4
  <1>6. \A i \in 1 .. Len(wrote) + 1 : object'.accepts[i] = <<wrote'[i], 1>>
    BY <1>1, <1>2, <1>4, <1>5
  <1>7. object'.accepts = [i \in DOMAIN object'.accepts |-> object'.accepts[i]]
    BY <1>3, <1>4
  <1> QED
    BY <1>2, <1>5, <1>6, <1>7

(* A rail is asked after all that have written.                            *)
LEMMA ContributionOrdered ==
  ASSUME IInv, NEW rail \in Rail, Contributes(rail)
  PROVE  OffersEveryWriter'
  <1>1. /\ wrote \in Seq(Rail) /\ OffersEveryWriter /\ WritersWereAsked
        /\ Len(wrote) \in Nat /\ at \in Nat \ {0} /\ Len(order) \in Nat
    BY OrderIsSeq DEF IInv, TypeOK
  <1>2. /\ Len(wrote') = Len(wrote) + 1
        /\ wrote'[Len(wrote) + 1] = rail
        /\ \A i \in 1 .. Len(wrote) : wrote'[i] = wrote[i]
    BY <1>1, Written DEF Contributes
  <1>3. at \in 1 .. Len(order) /\ order[at] = rail /\ asked = "offer" /\ order' = order
    BY <1>1 DEF Contributes, Asks
  <1>4. ASSUME NEW i \in 1 .. Len(wrote'), NEW j \in 1 .. Len(wrote'), i < j
        PROVE  \E k, l \in 1 .. Len(order) :
                  k < l /\ order[k] = wrote'[i] /\ order[l] = wrote'[j]
    <2>1. i \in 1 .. Len(wrote)
      BY <1>1, <1>2, <1>4
    <2>2. CASE j \in 1 .. Len(wrote)
      BY <1>1, <1>2, <1>3, <1>4, <2>1, <2>2 DEF OffersEveryWriter, Before
    <2>3. CASE j = Len(wrote) + 1
      <3>1. PICK k \in 1 .. Len(order) : order[k] = wrote[i] /\ k < at
        BY <1>1, <1>3, <2>1 DEF WritersWereAsked
      <3> QED
        BY <1>2, <1>3, <2>1, <2>3, <3>1
    <2> QED
      BY <1>1, <1>2, <2>2, <2>3
  <1>5. \A i, j \in 1 .. Len(wrote') : i < j => Before(wrote[i], wrote[j])'
    <2>1. order' = order
      BY <1>3
    <2> QED
      BY <1>4, <2>1, Zenon DEF Before
  <1> QED
    BY <1>5, ContributionKept, Zenon DEF OffersEveryWriter

(* The first to contribute sets the frame.                                 *)
LEMMA ContributionFrames ==
  ASSUME IInv, NEW rail \in Rail, Contributes(rail)
  PROVE  FirstFrame'
  <1>1. wrote \in Seq(Rail) /\ FirstFrame /\ Framed
    BY DEF IInv, TypeOK, FirstWriterWins
  <1>2. /\ Len(wrote) \in Nat /\ Len(wrote') = Len(wrote) + 1 /\ wrote' \in Seq(Rail)
        /\ wrote'[Len(wrote) + 1] = rail
        /\ \A i \in 1 .. Len(wrote) : wrote'[i] = wrote[i]
    BY <1>1, Written DEF Contributes
  <1>3. wrote' # <<>> /\ surface' = surface
    BY <1>2 DEF Contributes
  <1>4. CASE object.frame = NoRail
    <2>1. wrote = <<>> /\ surface # "mcp"
      BY <1>1, <1>4 DEF Framed
    <2>4. object'.frame = rail
      BY <1>4 DEF Contributes, SetOrMerge, PaymentRequiredOf
    <2>2. wrote'[1] = rail
      BY <1>2, <2>1
    <2> QED
      BY <1>3, <2>1, <2>2, <2>4 DEF FirstFrame
  <1>5. CASE object.frame # NoRail
    <2>1. object'.frame = object.frame
      BY <1>5 DEF Contributes, SetOrMerge, MergeInto
    <2>2. CASE surface = "mcp"
      BY <1>1, <1>3, <2>1, <2>2 DEF FirstFrame
    <2>3. CASE surface # "mcp"
      <3>1. wrote # <<>> /\ object.frame = wrote[1]
        BY <1>1, <1>5, <2>3 DEF FirstFrame
      <3>2. wrote'[1] = wrote[1]
        BY <1>1, <1>2, <3>1
      <3> QED
        BY <1>3, <2>1, <2>3, <3>1, <3>2 DEF FirstFrame
    <2> QED
      BY <2>2, <2>3
  <1> QED
    BY <1>4, <1>5

LEMMA ContributionExtends ==
  ASSUME IInv, NEW rail \in Rail, Contributes(rail)
  PROVE  FirstExtensions'
  <1>1. wrote \in Seq(Rail) /\ FirstExtensions /\ Len(wrote) \in Nat
    BY DEF IInv, TypeOK, FirstWriterWins
  <1>2. /\ Len(wrote') = Len(wrote) + 1
        /\ wrote'[Len(wrote) + 1] = rail
        /\ \A i \in 1 .. Len(wrote) : wrote'[i] = wrote[i]
    BY <1>1, Written DEF Contributes
  <1>3. \A k : WritersOf(k)' = WritersOf(k)
               \cup (IF k \in ExtensionsOf[rail] THEN {Len(wrote) + 1} ELSE {})
    BY <1>1, <1>2 DEF WritersOf
  <1>4. \A k : SitesOwn(k)' <=> SitesOwn(k)
    BY DEF SitesOwn, Contributes
  <1>5. SUFFICES ASSUME NEW k \in Key
                 PROVE  /\ k \in DOMAIN object'.exts <=> SitesOwn(k) \/ WritersOf(k)' # {}
                        /\ SitesOwn(k) => object'.exts[k] = <<Site, 1>>
                        /\ \A i \in WritersOf(k)' :
                              (~SitesOwn(k) /\ \A j \in WritersOf(k)' : i <= j) =>
                                  object'.exts[k] = <<wrote'[i], 1>>
    BY <1>4 DEF FirstExtensions
  <1>6. /\ DOMAIN object'.exts = DOMAIN object.exts \cup ExtensionsOf[rail]
        /\ \A x \in DOMAIN object.exts : object'.exts[x] = object.exts[x]
        /\ \A x \in ExtensionsOf[rail] :
              x \notin DOMAIN object.exts => object'.exts[x] = <<rail, 1>>
    BY ContributionParts
  <1>7. /\ k \in DOMAIN object.exts <=> SitesOwn(k) \/ WritersOf(k) # {}
        /\ SitesOwn(k) => object.exts[k] = <<Site, 1>>
        /\ \A i \in WritersOf(k) :
              (~SitesOwn(k) /\ \A j \in WritersOf(k) : i <= j) => object.exts[k] = <<wrote[i], 1>>
    BY <1>1 DEF FirstExtensions
  <1>8. k \in DOMAIN object'.exts <=> SitesOwn(k) \/ WritersOf(k)' # {}
    BY <1>3, <1>6, <1>7
  <1>9. SitesOwn(k) => object'.exts[k] = <<Site, 1>>
    BY <1>6, <1>7
  <1>10. ASSUME NEW i \in WritersOf(k)', ~SitesOwn(k), \A j \in WritersOf(k)' : i <= j
         PROVE  object'.exts[k] = <<wrote'[i], 1>>
    <2>1. CASE WritersOf(k) = {}
      BY <1>2, <1>3, <1>6, <1>7, <1>10, <2>1
    <2>2. CASE WritersOf(k) # {}
      <3>1. PICK j \in WritersOf(k) : i <= j
        BY <1>3, <1>10, <2>2
      <3>2. j \in 1 .. Len(wrote)
        BY DEF WritersOf
      <3>3. i \in WritersOf(k)
        BY <1>1, <1>3, <1>10, <3>1, <3>2
      <3>4. i \in 1 .. Len(wrote) /\ object.exts[k] = <<wrote[i], 1>>
        BY <1>3, <1>7, <1>10, <3>3 DEF WritersOf
      <3> QED
        BY <1>2, <1>6, <1>7, <2>2, <3>4
    <2> QED
      BY <2>1, <2>2
  <1> QED
    BY <1>8, <1>9, <1>10

-----------------------------------------------------------------------------
(* The frame and the body.                                                 *)

LEMMA NextFramed ==
  ASSUME IInv, [Next]_vars
  PROVE  Framed'
  <1>0. Framed /\ TypeOK
    BY DEF IInv
  <1>1. ASSUME NEW rail \in Rail, Write402(rail) \/ MCPAccepts(rail)
        PROVE  Framed'
    <2>1. object'.frame # NoRail
      BY <1>1, RailContributes, ContributionParts, RailAssumption, SiteAssumption DEF NoRail
    <2> QED
      BY <1>0, <1>1, <2>1 DEF Framed, Write402, MCPAccepts, NextRail
  <1>2. ASSUME NEW rail \in Rail, RailFails(rail) \/ ChallengeJSON(rail)
        PROVE  Framed'
    BY <1>0, <1>2 DEF Framed, RailFails, ChallengeJSON, Asks, NextRail
  <1>3. CASE Compose \/ UNCHANGED vars
    BY <1>0, <1>3 DEF Framed, Compose, vars
  <1> QED
    BY <1>1, <1>2, <1>3 DEF Next

LEMMA NextBodyAfterHeader ==
  ASSUME IInv, [Next]_vars
  PROVE  BodyAfterHeader'
  <1>0. TypeOK /\ BodyAfterHeader /\ Framed
    BY DEF IInv
  <1> USE DEF BodyAfterHeader
  <1>1. ASSUME NEW rail \in Rail, Write402(rail) \/ MCPAccepts(rail)
        PROVE  BodyAfterHeader'
    <2>1. wrote \in Seq(Rail) /\ wrote' = Append(wrote, rail)
      BY <1>0, <1>1 DEF TypeOK, Write402, MCPAccepts
    <2>2. /\ Len(wrote) \in Nat /\ Len(wrote') = Len(wrote) + 1
          /\ wrote'[Len(wrote) + 1] = rail
          /\ \A i \in 1 .. Len(wrote) : wrote'[i] = wrote[i]
      BY <2>1, Written
    <2>3. asked' = "body" => at' <= Len(order') /\ order'[at'] = rail
      BY <1>1 DEF Write402, MCPAccepts, Asks, NextRail
    <2>4. challenges' = challenges
      BY <1>1 DEF Write402, MCPAccepts
    <2>5. \A r \in DOMAIN challenges' : \E i \in 1 .. Len(wrote') : wrote'[i] = r
      BY <1>0, <2>2, <2>4
    <2>6. Len(wrote) + 1 \in 1 .. Len(wrote')
      BY <2>2
    <2> QED
      BY <1>0, <2>2, <2>3, <2>4, <2>5, <2>6
  <1>2. ASSUME NEW rail \in Rail, ChallengeJSON(rail)
        PROVE  BodyAfterHeader'
    <2>1. wrote' = wrote /\ asked' = "offer"
      BY <1>2 DEF ChallengeJSON, NextRail
    <2>2. \E i \in 1 .. Len(wrote) : wrote[i] = rail
      BY <1>0, <1>2 DEF ChallengeJSON, Asks
    <2>3. challenges' = Joined(challenges, [r \in {rail} |-> PaymentRequiredOf(rail, 2)])
      BY <1>2 DEF ChallengeJSON
    <2>4. \A r \in DOMAIN challenges' :
             /\ r \in DOMAIN challenges \/ r = rail
             /\ challenges'[r] = PaymentRequiredOf(r, 2)
      BY <1>0, <2>3 DEF Joined
    <2> QED
      BY <1>0, <2>1, <2>2, <2>4
  <1>3. ASSUME NEW rail \in Rail, RailFails(rail)
        PROVE  BodyAfterHeader'
    BY <1>0, <1>3 DEF RailFails, NextRail
  <1>4. CASE Compose \/ UNCHANGED vars
    BY <1>0, <1>4 DEF Compose, vars
  <1> QED
    BY <1>1, <1>2, <1>3, <1>4 DEF Next

(* A rail that has written stays behind the rail asked next.               *)
LEMMA NextWritersWereAsked ==
  ASSUME IInv, [Next]_vars
  PROVE  WritersWereAsked'
  <1>0. /\ TypeOK /\ WritersWereAsked /\ wrote \in Seq(Rail) /\ at \in Nat
        /\ Len(order) \in Nat /\ at > 0
    BY OrderIsSeq DEF IInv, TypeOK
  <1>1. ASSUME NEW rail \in Rail, Write402(rail) \/ MCPAccepts(rail)
        PROVE  WritersWereAsked'
    <2>1. wrote' = Append(wrote, rail) /\ order' = order
      BY <1>1 DEF Write402, MCPAccepts
    <2>2. /\ Len(wrote) \in Nat /\ Len(wrote') = Len(wrote) + 1
          /\ wrote'[Len(wrote) + 1] = rail
          /\ \A i \in 1 .. Len(wrote) : wrote'[i] = wrote[i]
      BY <1>0, <2>1, Written
    <2>3. at \in 1 .. Len(order) /\ order[at] = rail /\ asked = "offer"
      BY <1>0, <1>1 DEF Write402, MCPAccepts, Asks
    <2>4. \/ at' = at /\ asked' = "body"
          \/ at' = at + 1
      BY <1>1 DEF Write402, MCPAccepts, NextRail
    <2>5. ASSUME NEW i \in 1 .. Len(wrote')
          PROVE  \E k \in 1 .. Len(order) :
                    order[k] = wrote'[i] /\ (k < at' \/ (k = at' /\ asked' = "body"))
      <3>1. CASE i \in 1 .. Len(wrote)
        <4>1. PICK k \in 1 .. Len(order) : order[k] = wrote[i] /\ k < at
          BY <1>0, <2>3, <3>1 DEF WritersWereAsked
        <4> QED
          BY <1>0, <2>2, <2>4, <3>1, <4>1
      <3>2. CASE i = Len(wrote) + 1
        BY <1>0, <2>2, <2>3, <2>4, <3>2
      <3> QED
        BY <2>2, <3>1, <3>2
    <2> QED
      BY <2>1, <2>5 DEF WritersWereAsked
  <1>2. ASSUME NEW rail \in Rail, RailFails(rail) \/ ChallengeJSON(rail)
        PROVE  WritersWereAsked'
    <2>1. wrote' = wrote /\ order' = order /\ at' = at + 1
      BY <1>2 DEF RailFails, ChallengeJSON, NextRail
    <2>2. \A i \in 1 .. Len(wrote) :
            \E k \in 1 .. Len(order) : order[k] = wrote[i] /\ k < at + 1
      BY <1>0 DEF WritersWereAsked
    <2> QED
      BY <2>1, <2>2, Zenon DEF WritersWereAsked
  <1>3. CASE Compose \/ UNCHANGED vars
    <2>1. wrote' = wrote /\ order' = order /\ at' = at /\ asked' = asked
      BY <1>3 DEF Compose, vars
    <2>2. WritersWereAsked
      BY <1>0
    <2> QED
      BY <2>1, <2>2, Zenon DEF WritersWereAsked
  <1> QED
    BY <1>1, <1>2, <1>3 DEF Next

-----------------------------------------------------------------------------
LEMMA MergeKept ==
  ASSUME IInv, [Next]_vars
  PROVE  OffersEveryWriter' /\ FirstWriterWins'
  <1>1. ASSUME NEW rail \in Rail, Write402(rail) \/ MCPAccepts(rail)
        PROVE  OffersEveryWriter' /\ FirstWriterWins'
    BY <1>1, RailContributes, ContributionOrdered, ContributionFrames, ContributionExtends
       DEF FirstWriterWins
  <1>2. CASE UNCHANGED <<surface, order, object, wrote>>
    BY <1>2 DEF IInv, OffersEveryWriter, Before, FirstWriterWins, FirstFrame,
       FirstExtensions, SitesOwn, WritersOf
  <1>3. ASSUME NEW rail \in Rail, RailFails(rail) \/ ChallengeJSON(rail)
        PROVE  UNCHANGED <<surface, order, object, wrote>>
    BY <1>3 DEF RailFails, ChallengeJSON
  <1>4. Compose \/ UNCHANGED vars => UNCHANGED <<surface, order, object, wrote>>
    BY DEF Compose, vars
  <1> QED
    BY <1>1, <1>2, <1>3, <1>4 DEF Next

LEMMA ChallengeInit == Init => IInv
  <1> SUFFICES ASSUME Init PROVE IInv
    OBVIOUS
  <1>1. order \in Seq(Rail) /\ Len(order) \in Nat
    BY OrderIsSeq DEF Init
  <1>2. CASE surface = "http"
    <2>1. object = Empty /\ wrote = <<>> /\ challenges = <<>>
      BY <1>2 DEF Init
    <2>2. TypeOK
      <3>1. at \in 1 .. Len(order) + 1 /\ DOMAIN challenges = {} /\ wrote \in Seq(Rail)
        BY <1>1, <2>1 DEF Init
      <3>2. object.frame = NoRail /\ object.accepts \in Seq(Minted) /\ DOMAIN object.exts = {}
        BY <2>1 DEF Empty
      <3> QED
        BY <3>1, <3>2 DEF Init, TypeOK
    <2>3. OffersEveryWriter /\ FirstWriterWins
      BY <1>2, <2>1 DEF OffersEveryWriter, FirstWriterWins, FirstFrame, FirstExtensions,
         SitesOwn, WritersOf, Empty
    <2> QED
      BY <1>2, <2>1, <2>2, <2>3 DEF Init, IInv, Framed, WritersWereAsked, BodyAfterHeader
  <1>3. CASE surface = "mcp"
    <2>1. object = SiteObject /\ wrote = <<>> /\ challenges = <<>>
      BY <1>3 DEF Init
    <2>2. TypeOK
      <3>1. at \in 1 .. Len(order) + 1 /\ DOMAIN challenges = {} /\ wrote \in Seq(Rail)
        BY <1>1, <2>1 DEF Init
      <3>2. object.frame = Site /\ object.accepts \in Seq(Minted) /\ DOMAIN object.exts = ExtraKeys
        BY <2>1 DEF SiteObject
      <3> QED
        BY <3>1, <3>2, ExtensionsAssumption DEF Init, TypeOK
    <2>3. OffersEveryWriter /\ FirstWriterWins
      BY <1>3, <2>1 DEF OffersEveryWriter, FirstWriterWins, FirstFrame, FirstExtensions,
         SitesOwn, WritersOf, SiteObject
    <2>4. object.frame # NoRail
      BY <2>1, SiteAssumption DEF SiteObject, NoRail
    <2> QED
      BY <1>3, <2>1, <2>2, <2>3, <2>4
         DEF Init, IInv, Framed, WritersWereAsked, BodyAfterHeader
  <1> QED
    BY <1>2, <1>3 DEF Init

(* The inductive invariant of a 402's composition.                         *)
THEOREM MergeInductive == Spec => []IInv
  <1>1. IInv /\ [Next]_vars => IInv'
    BY NextTypeOK, MergeKept, NextFramed, NextWritersWereAsked, NextBodyAfterHeader DEF IInv
  <1> QED
    BY <1>1, ChallengeInit, PTL DEF Spec

(* Every variable keeps its type: the 402 holds offers and challenges of   *)
(* composed rails alone.                                                   *)
THEOREM MergeTypeCorrect == Spec => []TypeOK
  BY MergeInductive, PTL DEF IInv

(* Whatever rails fail, the object offers one entry of every rail that     *)
(* answered, in the order of their composition.                            *)
THEOREM EveryWriterOffered == Spec => []OffersEveryWriter
  BY MergeInductive, PTL DEF IInv

(* The frame and each extension are the site's, or else the first writer's. *)
THEOREM FirstWriterKept == Spec => []FirstWriterWins
  BY MergeInductive, PTL DEF IInv

(* A rail with a challenge in the body has kept its entry in the merged    *)
(* header, the very same one if it does not mint.                          *)
THEOREM BodiesMatchHeader == Spec => []BodyMatchesHeader
  <1>1. IInv => BodyMatchesHeader
    <2> SUFFICES ASSUME IInv, NEW rail \in DOMAIN challenges
                 PROVE  \E i \in 1 .. Len(object.accepts) :
                           /\ object.accepts[i][1] = rail
                           /\ rail \notin Mints => challenges[rail].accepts = <<object.accepts[i]>>
      BY DEF BodyMatchesHeader
    <2>1. PICK i \in 1 .. Len(wrote) : wrote[i] = rail
      BY DEF IInv, BodyAfterHeader
    <2>2. rail \notin Mints => challenges[rail].accepts = <<<<rail, 1>>>>
      BY DEF IInv, BodyAfterHeader, PaymentRequiredOf, Entry
    <2>3. wrote \in Seq(Rail) /\ object.accepts = [k \in 1 .. Len(wrote) |-> <<wrote[k], 1>>]
      BY DEF IInv, TypeOK, OffersEveryWriter
    <2>4. i \in 1 .. Len(object.accepts) /\ object.accepts[i] = <<rail, 1>>
      BY <2>1, <2>3
    <2> QED
      BY <2>2, <2>4
  <1> QED
    BY <1>1, MergeInductive, PTL

-----------------------------------------------------------------------------
(* When every rail answers.                                                *)

(***************************************************************************)
(* A composition in which no rail fails, and how far the body then is: it  *)
(* holds a challenge of every rail passed.                                 *)
(***************************************************************************)
AnsweredNext ==
    \/ \E rail \in Rail : Write402(rail) \/ ChallengeJSON(rail) \/ MCPAccepts(rail)
    \/ Compose

AnsweredSpec == Init /\ [][AnsweredNext]_vars

BodyComplete ==
    surface = "http" =>
        /\ DOMAIN challenges = {order[i] : i \in 1 .. at - 1}
        /\ outcome = "402" => at = Len(order) + 1

LEMMA AnsweredKeeps ==
  ASSUME TypeOK, BodyComplete, AnsweredNext
  PROVE  BodyComplete'
  <1> USE DEF BodyComplete
  <1>0. Len(order) \in Nat /\ at \in 1 .. Len(order) + 1
    BY OrderIsSeq DEF TypeOK
  <1>1. ASSUME NEW rail \in Rail, Write402(rail) \/ MCPAccepts(rail)
        PROVE  BodyComplete'
    BY <1>1 DEF Write402, MCPAccepts
  <1>2. ASSUME NEW rail \in Rail, ChallengeJSON(rail)
        PROVE  BodyComplete'
    <2>1. /\ DOMAIN challenges' = DOMAIN challenges \cup {rail}
          /\ at' = at + 1 /\ order[at] = rail
          /\ UNCHANGED <<surface, order, outcome>> /\ outcome = "pending"
      BY <1>2 DEF ChallengeJSON, Joined, Asks, NextRail
    <2>2. {order[i] : i \in 1 .. at'- 1} = {order[i] : i \in 1 .. at - 1} \cup {rail}
      BY <1>0, <2>1
    <2> QED
      BY <2>1, <2>2
  <1>3. CASE Compose
    BY <1>0, <1>3 DEF Compose
  <1> QED
    BY <1>1, <1>2, <1>3 DEF AnsweredNext

(***************************************************************************)
(* A 402 to which every rail contributed is no dead end: AcceptedRails are *)
(* exactly the rails with a challenge in the body. One rail that fails is  *)
(* enough to break it, since AcceptedRails lists it all the same.          *)
(***************************************************************************)
THEOREM NoDeadEndIfAllAnswer == AnsweredSpec => []NeverDeadEnd
  <1>1. Init => BodyComplete
    BY DEF Init, BodyComplete
  <1>2. TypeOK /\ BodyComplete /\ [AnsweredNext]_vars => BodyComplete'
    BY AnsweredKeeps DEF BodyComplete, vars
  <1>3. TypeOK /\ BodyComplete => NeverDeadEnd
    <2> SUFFICES ASSUME TypeOK, BodyComplete, surface = "http", outcome = "402"
                 PROVE  AcceptedRails = DOMAIN challenges
      BY DEF NeverDeadEnd
    <2>1. Len(order) \in Nat /\ at - 1 = Len(order)
      BY OrderIsSeq DEF TypeOK, BodyComplete
    <2> QED
      BY <2>1 DEF BodyComplete, AcceptedRails
  <1>4. AnsweredSpec => Spec
    <2>1. [AnsweredNext]_vars => [Next]_vars
      BY DEF AnsweredNext, Next
    <2> QED
      BY <2>1, PTL DEF AnsweredSpec, Spec
  <1> QED
    BY <1>1, <1>2, <1>3, <1>4, MergeTypeCorrect, PTL DEF AnsweredSpec
=============================================================================
