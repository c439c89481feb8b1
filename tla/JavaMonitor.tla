---------------------------- MODULE JavaMonitor ----------------------------
(***************************************************************************)
(* The monitor of an object as the Java language has it: one thread holds  *)
(* it, to some depth; wait() releases it whatever the depth and starts to  *)
(* wait in one step; a waiter comes back with the depth it had, after its  *)
(* wait was ended by a notification, a timeout or an interrupt.  Which of  *)
(* them, and so who may end it when, is not part of the abstraction.       *)
(***************************************************************************)
EXTENDS Naturals

CONSTANTS Thread, NULL

VARIABLES
  holder,   \* the thread that holds the monitor, or NULL
  depth,    \* how often each thread has entered and not left the monitor
  waiting   \* the threads that wait for a notification

vars == <<holder, depth, waiting>>

\* The monitor is free, or a thread entered it before it was inflated.
Init ==
  /\ waiting = {}
  /\ holder \in Thread \cup {NULL}
  /\ depth = [t \in Thread |-> IF t = holder THEN 1 ELSE 0]

Enter(t) ==
  /\ holder = NULL /\ depth[t] = 0
  /\ holder' = t /\ depth' = [depth EXCEPT ![t] = 1]
  /\ UNCHANGED waiting

EnterAgain(t) ==
  /\ holder = t /\ depth' = [depth EXCEPT ![t] = @ + 1]
  /\ UNCHANGED <<holder, waiting>>

Exit(t) ==
  /\ holder = t
  /\ holder' = IF depth[t] = 1 THEN NULL ELSE t
  /\ depth' = [depth EXCEPT ![t] = @ - 1]
  /\ UNCHANGED waiting

\* wait(), and complete_exit(), which releases the monitor without waiting.
Release(t, waits) ==
  /\ holder = t /\ holder' = NULL
  /\ waiting' = IF waits THEN waiting \cup {t} ELSE waiting
  /\ UNCHANGED depth

Resume(t) ==
  /\ holder = NULL /\ depth[t] > 0 /\ t \notin waiting
  /\ holder' = t
  /\ UNCHANGED <<depth, waiting>>

\* A notification, a timeout or an interrupt ends the wait of t.
EndWait(t) ==
  /\ t \in waiting /\ waiting' = waiting \ {t}
  /\ UNCHANGED <<holder, depth>>

Next ==
  \E t \in Thread :
     \/ Enter(t) \/ EnterAgain(t) \/ Exit(t) \/ Resume(t) \/ EndWait(t)
     \/ \E waits \in BOOLEAN : Release(t, waits)

Spec == Init /\ [][Next]_vars

=============================================================================
