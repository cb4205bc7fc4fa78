----------------------------- MODULE AtomicRate -----------------------------
(***************************************************************************)
(* What a cached exchange rate promises to concurrent mints, with no mutex *)
(* in sight: a mint asks, and at one moment between its question and its   *)
(* answer it is answered with the rate of that moment. That is the cached  *)
(* rate while it is fresh; otherwise one the source reports, which is      *)
(* cached, or, when the source fails, the last good rate, or the floor.    *)
(***************************************************************************)
EXTENDS Integers

CONSTANTS
    Mint,         \* the concurrent mints
    Rate,         \* the rates the source may report
    Fallback,     \* the floor, NoRate for none
    NoRate,       \* no rate
    TTL           \* how long a rate is fresh

VARIABLES
    asked,        \* the mints that wait for an answer
    used,         \* the rate each mint was last answered with
    rate,         \* the last good rate
    fetched,      \* when it was reported
    now           \* the clock

vars == <<asked, used, rate, fetched, now>>

Init ==
    /\ asked = {}
    /\ used = [m \in Mint |-> NoRate]
    /\ rate = NoRate
    /\ fetched = 0
    /\ now = 0

Fresh == rate # NoRate /\ now - fetched < TTL

Ask(m) ==
    /\ asked' = asked \cup {m}
    /\ UNCHANGED <<used, rate, fetched, now>>

Answer(m, r) ==
    /\ m \in asked
    /\ asked' = asked \ {m}
    /\ used' = [used EXCEPT ![m] = r]

AnswerCached(m) ==
    /\ Fresh
    /\ Answer(m, rate)
    /\ UNCHANGED <<rate, fetched, now>>

AnswerReported(m) ==
    /\ ~Fresh
    /\ rate' \in Rate
    /\ fetched' = now
    /\ Answer(m, rate')
    /\ UNCHANGED now

AnswerUnreported(m) ==
    /\ ~Fresh
    /\ Answer(m, IF rate # NoRate THEN rate ELSE Fallback)
    /\ UNCHANGED <<rate, fetched, now>>

Tick ==
    /\ now' = now + 1
    /\ UNCHANGED <<asked, used, rate, fetched>>

Next ==
    \/ \E m \in Mint :
        Ask(m) \/ AnswerCached(m) \/ AnswerReported(m) \/ AnswerUnreported(m)
    \/ Tick

Spec == Init /\ [][Next]_vars
=============================================================================
