------------------------------ MODULE Challenge ------------------------------
(***************************************************************************)
(* How the rails' challenges become one 402: Composer.WriteChallenge with  *)
(* the header merged by present/challenge, and PerCall.challenge with its  *)
(* one merged object. Rails are asked in order, each may fail, and the     *)
(* answer is composed of what the others contributed.                      *)
(*                                                                         *)
(* A PaymentRequired object is the frame of the rail that wrote it first   *)
(* (version, resource URL), its accepts entries, and its extensions. An    *)
(* entry, and an extension, is known by the rail it is of and, for a rail  *)
(* that mints a challenge at every call, the number of the mint.           *)
(***************************************************************************)
EXTENDS Integers, Sequences, FiniteSets

CONSTANTS
    Rail,         \* the composed rails
    Mints,        \* those that mint at every call: dcr402; x402usdc states its requirements
    Key,          \* extension keys
    ExtensionsOf, \* the keys each rail contributes
    ExtraKeys,    \* the keys of the site's own extensions (ChallengeMCP)
    Site          \* who contributes those

ASSUME RailAssumption == IsFiniteSet(Rail) /\ "none" \notin Rail /\ Mints \subseteq Rail
ASSUME ExtensionsAssumption == ExtensionsOf \in [Rail -> SUBSET Key] /\ ExtraKeys \subseteq Key
ASSUME SiteAssumption == Site \notin Rail /\ Site # "none"

VARIABLES
    surface,      \* "http" for the Composer, "mcp" for PerCall
    order,        \* the rails in composition order
    at,           \* the rail asked next
    asked,        \* which of its calls is next: "offer", then "body" (http)
    object,       \* the header, or the merged object
    wrote,        \* the rails that contributed to it, in order
    challenges,   \* the body's challenges by rail name (http)
    outcome

vars == <<surface, order, at, asked, object, wrote, challenges, outcome>>

NoRail == "none"
Empty  == [frame |-> NoRail, accepts |-> <<>>, exts |-> <<>>]

Orders == {o \in [1 .. Cardinality(Rail) -> Rail] : \A i, j \in DOMAIN o : o[i] = o[j] => i = j}
Minted == Rail \X {1, 2}

TypeOK ==
    /\ surface \in {"http", "mcp"}
    /\ order \in Orders
    /\ at \in 1 .. Len(order) + 1
    /\ asked \in {"offer", "body"}
    /\ object.frame \in Rail \cup {Site, NoRail}
    /\ object.accepts \in Seq(Minted)
    /\ DOMAIN object.exts \subseteq Key
    /\ wrote \in Seq(Rail)
    /\ DOMAIN challenges \subseteq Rail
    /\ outcome \in {"pending", "402", "error"}

(* The object PerCall starts from carries the site's own extensions.       *)
SiteObject == [frame |-> Site, accepts |-> <<>>, exts |-> [k \in ExtraKeys |-> <<Site, 1>>]]

Init ==
    /\ surface \in {"http", "mcp"}
    /\ order \in Orders
    /\ at = 1
    /\ asked = "offer"
    /\ object = IF surface = "http" THEN Empty ELSE SiteObject
    /\ wrote = <<>>
    /\ challenges = <<>>
    /\ outcome = "pending"

-----------------------------------------------------------------------------
(* present/challenge.                                                      *)

(* Two maps as one, in which the first keeps its values.                   *)
Joined(first, second) ==
    [k \in DOMAIN first \cup DOMAIN second |-> IF k \in DOMAIN first THEN first[k] ELSE second[k]]

(* Mutation: the incoming extension wins.                                  *)
MergeLastWins(existing, incoming) ==
    [frame |-> existing.frame,
     accepts |-> existing.accepts \o incoming.accepts,
     exts |-> Joined(incoming.exts, existing.exts)]

(* Accepts are appended, extensions are the first writer's, and the frame  *)
(* stays.                                                                  *)
MergeInto(existing, incoming) ==
    [frame |-> existing.frame,
     accepts |-> existing.accepts \o incoming.accepts,
     exts |-> Joined(existing.exts, incoming.exts)]

(* Mutation: the header is set over an earlier rail's.                     *)
SetHeader(existing, incoming) == incoming

SetOrMerge(existing, incoming) ==
    IF existing.frame = NoRail THEN incoming ELSE MergeInto(existing, incoming)

-----------------------------------------------------------------------------
(* What a rail answers when it is asked the n-th time for this 402.        *)
Entry(rail, n) == IF rail \in Mints THEN <<rail, n>> ELSE <<rail, 1>>

PaymentRequiredOf(rail, n) ==
    [frame |-> rail,
     accepts |-> <<Entry(rail, n)>>,
     exts |-> [k \in ExtensionsOf[rail] |-> Entry(rail, n)]]

Asks(rail, call) ==
    /\ outcome = "pending"
    /\ at <= Len(order)
    /\ order[at] = rail
    /\ asked = call

(* Mutation: the index is advanced twice.                                  *)
NextRailSkips == at' = at + 2 /\ asked' = "offer"

NextRail == at' = at + 1 /\ asked' = "offer"

(* Mutation: the failure is logged and the loop's iteration goes on.       *)
RailFailsFallsThrough(rail) ==
    /\ Asks(rail, "offer") \/ Asks(rail, "body")
    /\ IF surface = "http" /\ asked = "offer" THEN asked' = "body" /\ at' = at ELSE NextRail
    /\ UNCHANGED <<surface, order, object, wrote, challenges, outcome>>

(* Write402, ChallengeJSON or MCPAccepts fails: the rail is passed over.   *)
RailFails(rail) ==
    /\ Asks(rail, "offer") \/ Asks(rail, "body")
    /\ NextRail
    /\ UNCHANGED <<surface, order, object, wrote, challenges, outcome>>

Write402(rail) ==
    /\ surface = "http"
    /\ Asks(rail, "offer")
    /\ object' = SetOrMerge(object, PaymentRequiredOf(rail, 1))
    /\ wrote' = Append(wrote, rail)
    /\ asked' = "body"
    /\ UNCHANGED <<surface, order, at, challenges, outcome>>

ChallengeJSON(rail) ==
    /\ Asks(rail, "body")
    /\ challenges' = Joined(challenges, [r \in {rail} |-> PaymentRequiredOf(rail, 2)])
    /\ NextRail
    /\ UNCHANGED <<surface, order, object, wrote, outcome>>

MCPAccepts(rail) ==
    /\ surface = "mcp"
    /\ Asks(rail, "offer")
    /\ object' = MergeInto(object, PaymentRequiredOf(rail, 1))
    /\ wrote' = Append(wrote, rail)
    /\ NextRail
    /\ UNCHANGED <<surface, order, challenges, outcome>>

(* The Composer answers 402 whatever it has; PerCall fails without offers. *)
Compose ==
    /\ outcome = "pending"
    /\ at > Len(order)
    /\ outcome' = IF surface = "mcp" /\ object.accepts = <<>> THEN "error" ELSE "402"
    /\ UNCHANGED <<surface, order, at, asked, object, wrote, challenges>>

Next ==
    \/ \E rail \in Rail : RailFails(rail) \/ Write402(rail) \/ ChallengeJSON(rail) \/ MCPAccepts(rail)
    \/ Compose

Spec == Init /\ [][Next]_vars

-----------------------------------------------------------------------------
(***************************************************************************)
(* Whatever rails fail and whichever come first, merging loses and repeats *)
(* nothing: the object offers one entry of every rail that answered, and   *)
(* the rails in the order of their composition, no rail twice.             *)
(***************************************************************************)
Before(r, s) == \E k, l \in 1 .. Len(order) : k < l /\ order[k] = r /\ order[l] = s

OffersEveryWriter ==
    /\ object.accepts = [i \in 1 .. Len(wrote) |-> <<wrote[i], 1>>]
    /\ \A i, j \in 1 .. Len(wrote) : i < j => Before(wrote[i], wrote[j])

(***************************************************************************)
(* What comes first stays: the frame (resource, version) is the site's own *)
(* or that of the first rail that answered, and so is each extension,      *)
(* whichever rails failed before it.                                       *)
(***************************************************************************)
SitesOwn(k) == surface = "mcp" /\ k \in ExtraKeys

WritersOf(k) == {i \in 1 .. Len(wrote) : k \in ExtensionsOf[wrote[i]]}

FirstFrame ==
    object.frame = IF surface = "mcp" THEN Site
                   ELSE IF wrote = <<>> THEN NoRail ELSE wrote[1]

FirstExtensions ==
    \A k \in Key :
        /\ k \in DOMAIN object.exts <=> SitesOwn(k) \/ WritersOf(k) # {}
        /\ SitesOwn(k) => object.exts[k] = <<Site, 1>>
        /\ \A i \in WritersOf(k) :
              (~SitesOwn(k) /\ \A j \in WritersOf(k) : i <= j) =>
                  object.exts[k] = <<wrote[i], 1>>

FirstWriterWins == FirstFrame /\ FirstExtensions

(***************************************************************************)
(* A buyer who reads the body finds nothing the header lacks: a rail with  *)
(* a challenge in the body has kept its entry in the merged header, and    *)
(* unless the rail mints anew at every call it is the very same entry.     *)
(***************************************************************************)
BodyMatchesHeader ==
    \A rail \in DOMAIN challenges :
        \E i \in 1 .. Len(object.accepts) :
            /\ object.accepts[i][1] = rail
            /\ rail \notin Mints => challenges[rail].accepts = <<object.accepts[i]>>

(***************************************************************************)
(* The inductive invariant behind these: an object without a frame is      *)
(* empty and nobody wrote it, who wrote was asked before, and the rail     *)
(* whose body is asked for next has written its header.                    *)
(***************************************************************************)
Framed ==
    /\ object.frame = NoRail => surface = "http" /\ object = Empty /\ wrote = <<>>
    /\ surface = "mcp" => asked = "offer" /\ challenges = <<>>

WritersWereAsked ==
    \A i \in 1 .. Len(wrote) :
        \E k \in 1 .. Len(order) :
            order[k] = wrote[i] /\ (k < at \/ (k = at /\ asked = "body"))

BodyAfterHeader ==
    /\ asked = "body" => at <= Len(order) /\ \E i \in 1 .. Len(wrote) : wrote[i] = order[at]
    /\ \A rail \in DOMAIN challenges :
          /\ \E i \in 1 .. Len(wrote) : wrote[i] = rail
          /\ challenges[rail] = PaymentRequiredOf(rail, 2)

IInv ==
    /\ TypeOK
    /\ OffersEveryWriter
    /\ FirstWriterWins
    /\ Framed
    /\ WritersWereAsked
    /\ BodyAfterHeader

(***************************************************************************)
(* What the sources say and the code does not do.                          *)
(***************************************************************************)

(* "It is never a dead end: it always lists the rails a buyer can pay on,  *)
(* with each rail's challenge object hanging off Challenges by rail name": *)
(* AcceptedRails lists the rails that failed, too.                         *)
AcceptedRails == {order[i] : i \in 1 .. Len(order)}

NeverDeadEnd ==
    (surface = "http" /\ outcome = "402") => AcceptedRails = DOMAIN challenges
=============================================================================
