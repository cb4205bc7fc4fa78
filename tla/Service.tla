------------------------------- MODULE Service -------------------------------
(***************************************************************************)
(* A service that sells both ways, as cmd/exampled composes it: Composer's *)
(* sites and top-up and PerCall's tools share the rails, their store and   *)
(* facilitator, and one bill-once guard. A request slot holds a web        *)
(* request or a call, and a buyer may present any credential to either.    *)
(***************************************************************************)
EXTENDS Composer, PerCall

(* The mux chooses the handler by the site: each is guarded by IsCall.     *)
ServiceHandle(q) == Handle(q) \/ HandleCall(q)

ServiceArrive(q) ==
    \/ Arrive(q)
    \/ \E r \in Tool, c \in Presented : Call(q, r, c)

ServiceNext ==
    \/ \E q \in Request : ServiceArrive(q) \/ ServiceHandle(q)
    \/ Environment

ServiceSpec == Init /\ [][ServiceNext]_vars

(***************************************************************************)
(* Liveness under the fairness of both surfaces: goroutines keep running,  *)
(* and the buyers of either surface keep presenting what they paid for,    *)
(* while they compete for the same slots.                                  *)
(***************************************************************************)
ServiceFairSpec ==
    /\ ServiceSpec
    /\ \A q \in Request : WF_vars(ServiceHandle(q))
    /\ TopupBuyers /\ CallBuyers /\ Confirms
=============================================================================
