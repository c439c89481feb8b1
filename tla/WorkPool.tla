------------------------------- MODULE WorkPool -------------------------------
(***************************************************************************)
(* What the task queues and the terminator promise to the workers of a     *)
(* parallel collection: a pool of tasks, each of which is taken by one     *)
(* worker at a time and finished once, and an end that no worker sees      *)
(* before all tasks are finished.                                          *)
(***************************************************************************)
EXTENDS FiniteSets

CONSTANTS Worker, Task

VARIABLES
  pool,     \* the tasks that anybody may take
  hand,     \* the tasks that a worker has taken or found
  finished,
  over      \* whether a worker has seen the end

vars == <<pool, hand, finished, over>>

Init ==
  /\ pool = {} /\ hand = [w \in Worker |-> {}]
  /\ finished = {} /\ over = [w \in Worker |-> FALSE]

Known == pool \cup finished \cup UNION {hand[w] : w \in Worker}

Find(w) ==
  /\ ~over[w]
  /\ \E t \in Task \ Known : hand' = [hand EXCEPT ![w] = @ \cup {t}]
  /\ UNCHANGED <<pool, finished, over>>

Put(w) ==
  /\ \E S \in SUBSET hand[w] :
       /\ pool' = pool \cup S /\ hand' = [hand EXCEPT ![w] = @ \ S]
  /\ UNCHANGED <<finished, over>>

Take(w) ==
  /\ ~over[w]
  /\ \E S \in SUBSET pool :
       /\ pool' = pool \ S /\ hand' = [hand EXCEPT ![w] = @ \cup S]
  /\ UNCHANGED <<finished, over>>

Finish(w) ==
  /\ \E t \in hand[w] :
       /\ finished' = finished \cup {t} /\ hand' = [hand EXCEPT ![w] = @ \ {t}]
  /\ UNCHANGED <<pool, over>>

Leave(w) ==
  /\ Known = finished
  /\ over' = [over EXCEPT ![w] = TRUE]
  /\ UNCHANGED <<pool, hand, finished>>

Next ==
  \E w \in Worker : Find(w) \/ Put(w) \/ Take(w) \/ Finish(w) \/ Leave(w)

Spec == Init /\ [][Next]_vars

=============================================================================
