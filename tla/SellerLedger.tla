---------------------------- MODULE SellerLedger ----------------------------
(***************************************************************************)
(* What the payment surface promises the seller, with no requests, rails   *)
(* or guard in sight: payments arrive; a reference is billed only after    *)
(* the payment it stands for has arrived, and no more often than the       *)
(* bill-once guard's lifetime allows; a bill is credited at most once.     *)
(* Any bill may be left uncredited: the guard promises no grant. Two       *)
(* references that stand for one payment have an entry each.               *)
(***************************************************************************)
EXTENDS Integers

CONSTANTS
    Ref,          \* external references
    Pays,         \* the payment each reference stands for
    Limit         \* bills per reference: 1 with a guard that outlives restarts

VARIABLES received, billed, credits

vars == <<received, billed, credits>>

Init ==
    /\ received = {}
    /\ billed = [r \in Ref |-> 0]
    /\ credits = [r \in Ref |-> 0]

Receive(p) ==
    /\ p \notin received
    /\ received' = received \cup {p}
    /\ UNCHANGED <<billed, credits>>

Bill(r) ==
    /\ Pays[r] \in received
    /\ billed[r] < Limit
    /\ billed' = [billed EXCEPT ![r] = @ + 1]
    /\ UNCHANGED <<received, credits>>

Credit(r) ==
    /\ credits[r] < billed[r]
    /\ credits' = [credits EXCEPT ![r] = @ + 1]
    /\ UNCHANGED <<received, billed>>

Next ==
    \/ \E p \in {Pays[r] : r \in Ref} : Receive(p)
    \/ \E r \in Ref : Bill(r) \/ Credit(r)

Spec == Init /\ [][Next]_vars
=============================================================================
