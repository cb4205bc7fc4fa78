----------------------------- MODULE Dcr402Rail -----------------------------
(***************************************************************************)
(* The Decred rail (rails/dcr402): challenges minted by the gate library,  *)
(* kept in its sqlite store under the URL and amount they are bound to,    *)
(* and settled against a Lightning preimage or an onchain deposit.         *)
(*                                                                         *)
(* The gate, its store and the dcrlnd node are libraries and services      *)
(* outside the repository. They are modelled from their use: the store may *)
(* drop an offer it holds, may fail, and survives a restart; the gate      *)
(* accepts a preimage that matches, or a deposit at depth, and may refuse  *)
(* for any other reason at any time.                                       *)
(***************************************************************************)
EXTENDS Seam

CONSTANTS
    NotMinted,    \* what an unused hash or address is bound to
    Depth,        \* confirmations a deposit needs
    Expirable     \* the offers the store may drop (a bound on expiry)

Offer == Hash \cup Addr

ASSUME DepthAssumption == Depth \in Nat \ {0}
ASSUME ExpirableAssumption == Expirable \subseteq Offer
ASSUME NotMintedAssumption == NotMinted \notin Resource \X USD

VARIABLES
    bound,        \* what every minted offer is bound to
    live,         \* the offers the store still returns
    paid,         \* the invoices paid: their preimage is known to the buyer
    deposits,     \* the outputs on chain: transaction and deposit address
    confs         \* confirmations of every transaction, capped at Depth

dcr402Vars == <<bound, live, paid, deposits, confs>>

Dcr402TypeOK ==
    /\ bound \in [Offer -> (Resource \X USD) \cup {NotMinted}]
    /\ live \subseteq Offer
    /\ paid \subseteq Hash
    /\ deposits \subseteq Tx \X Addr
    /\ confs \in [Tx -> 0 .. Depth]

Dcr402Init ==
    /\ bound = [o \in Offer |-> NotMinted]
    /\ live = {}
    /\ paid = {}
    /\ deposits = {}
    /\ confs = [t \in Tx |-> 0]

(***************************************************************************)
(* The URL with the amount appended as its last query parameter. Every     *)
(* other field of the specification (purpose, account, body, TTL) is left  *)
(* out of the binding.                                                     *)
(***************************************************************************)
BoundResource(s) == <<s.resource, s.usd>>

(* Mutation: every other network is refused.                               *)
Dcr402DemuxRefusesForeign(c) ==
    IF c.kind \in {"absent", "shapeless"} THEN "leave"
    ELSE IF c.kind \in {"lightning", "onchain"} THEN "claim"
    ELSE "refuse"

(* The verdict TrySettle reaches from the header alone.                    *)
Dcr402Demux(c) ==
    IF c.kind \in {"absent", "shapeless", "foreign", "evm"} THEN "leave"
    ELSE IF c.kind \in {"undecodable", "otherNet", "badDecred"} THEN "refuse"
    ELSE "claim"

OfferOf(c) == IF c.kind = "lightning" THEN c.hash ELSE c.addr

(* Mutation: any stored offer will do.                                     *)
OfferedForAnySite(c, s) == OfferOf(c) \in live

(* GetChallenge or GetOnchainChallenge finds the offer, and it was minted  *)
(* for this site and price.                                                *)
OfferedFor(c, s) ==
    /\ OfferOf(c) \in live
    /\ bound[OfferOf(c)] = BoundResource(s)

(* Mutations: the depth is not awaited; one confirmation too many is.      *)
GateAcceptsShallow(c) ==
    IF c.kind = "lightning" THEN c.good ELSE <<c.tx, c.addr>> \in deposits

GateAcceptsTooLate(c) ==
    IF c.kind = "lightning" THEN c.good
    ELSE <<c.tx, c.addr>> \in deposits /\ confs[c.tx] > Depth

(* gate.Settle: the preimage matches, or the deposit is there at depth.    *)
GateAccepts(c) ==
    IF c.kind = "lightning"
    THEN c.good
    ELSE <<c.tx, c.addr>> \in deposits /\ confs[c.tx] = Depth

(* gate.Settle answers ReasonInsufficientConfs.                            *)
GateWaits(c) ==
    /\ c.kind = "onchain"
    /\ <<c.tx, c.addr>> \in deposits
    /\ confs[c.tx] < Depth

(***************************************************************************)
(* Minting stores fresh offers under the bound resource.                   *)
(***************************************************************************)
Fresh == {o \in Offer : bound[o] = NotMinted}

Mint(offers, s) ==
    /\ offers \subseteq Fresh
    /\ bound' = [o \in Offer |-> IF o \in offers THEN BoundResource(s) ELSE bound[o]]
    /\ live' = live \cup offers
    /\ UNCHANGED <<paid, deposits, confs>>

-----------------------------------------------------------------------------
(* The buyer, the chain and the passage of time.                           *)

PayInvoice(h) ==
    /\ bound[h] # NotMinted
    /\ h \notin paid
    /\ paid' = paid \cup {h}
    /\ UNCHANGED <<bound, live, deposits, confs>>

(* One transaction may pay several deposit addresses.                      *)
Deposit(t, addrs) ==
    /\ addrs # {}
    /\ \A a \in addrs : bound[a] # NotMinted
    /\ \A d \in deposits : d[1] # t
    /\ deposits' = deposits \cup ({t} \X addrs)
    /\ UNCHANGED <<bound, live, paid, confs>>

Confirm(t) ==
    /\ \E d \in deposits : d[1] = t
    /\ confs[t] < Depth
    /\ confs' = [confs EXCEPT ![t] = @ + 1]
    /\ UNCHANGED <<bound, live, paid, deposits>>

Expire(o) ==
    /\ o \in live \cap Expirable
    /\ live' = live \ {o}
    /\ UNCHANGED <<bound, paid, deposits, confs>>

(* What the buyer can hold: a preimage only of an invoice it has paid.     *)
Dcr402Presentable(c) == (c.kind = "lightning" /\ c.good) => c.hash \in paid

(* The seller has been paid for this site at this price.                   *)
Dcr402PaidFor(c, s) ==
    /\ bound[OfferOf(c)] = BoundResource(s)
    /\ IF c.kind = "lightning"
       THEN c.hash \in paid
       ELSE <<c.tx, c.addr>> \in deposits /\ confs[c.tx] = Depth
=============================================================================
