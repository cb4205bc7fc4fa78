------------------------------ MODULE SeenRefs ------------------------------
(***************************************************************************)
(* The bill-once guard: memSeen of seam/compose.go and SQL of              *)
(* seenrefs/seenrefs.go. Both are one atomic step, memSeen under its mutex *)
(* and SQL in one INSERT whose primary key admits one winner.              *)
(***************************************************************************)
EXTENDS Seam

CONSTANT Durable     \* TRUE for seenrefs.SQL, FALSE for memSeen

ASSUME DurableAssumption == Durable \in BOOLEAN

VARIABLE seen        \* the references recorded

(* Mutation: the reference is looked up and never recorded.                *)
MemMarkSettledForgets(ref, first) ==
    /\ first = (ref \notin seen)
    /\ UNCHANGED seen

(* The answer is TRUE exactly on the first call.                           *)
MemMarkSettled(ref, first) ==
    /\ first = (ref \notin seen)
    /\ seen' = seen \cup {ref}

(* Mutation: ON CONFLICT DO NOTHING, which reports a duplicate as success.  *)
SqlMarkSettledIgnoresConflict(ref, first) ==
    \/ first /\ seen' = seen \cup {ref}
    \/ ~first /\ UNCHANGED seen

(***************************************************************************)
(* Every error of the INSERT reads as "already seen": the duplicate key,   *)
(* a database that recorded nothing, and one that recorded the row but     *)
(* whose answer was lost.                                                  *)
(***************************************************************************)
SqlMarkSettled(ref, first) ==
    \/ /\ first
       /\ ref \notin seen
       /\ seen' = seen \cup {ref}
    \/ /\ ~first
       /\ \/ UNCHANGED seen
          \/ seen' = seen \cup {ref}

MarkSettled(ref, first) ==
    IF Durable THEN SqlMarkSettled(ref, first) ELSE MemMarkSettled(ref, first)

(* Mutations: the table is lost with the process; the map outlives it.     *)
GuardRestartLosesTable == seen' = {}
GuardRestartKeepsMap   == UNCHANGED seen

(* The map dies with the process; the table does not.                      *)
GuardRestart == seen' = IF Durable THEN seen ELSE {}
=============================================================================
