-------------------------- MODULE AbstractMonitor --------------------------
(***************************************************************************)
(* What mutex.cpp promises its clients: a monitor.  At most one thread     *)
(* holds the lock; wait() releases the lock and starts to wait in one      *)
(* step; only the holder notifies, and each notification ends the wait of  *)
(* one waiter; a waiter may also give up by itself (a timeout); a thread   *)
(* that waits cannot acquire the lock.                                     *)
(***************************************************************************)
CONSTANTS Thread, NULL

VARIABLES holder,   \* the thread that holds the lock, or NULL
          waiting   \* the threads that wait for a notification

absVars == <<holder, waiting>>

AbsInit == holder = NULL /\ waiting = {}

Acquire(t) ==
  /\ holder = NULL /\ t \notin waiting
  /\ holder' = t
  /\ UNCHANGED waiting

Release(t) ==
  /\ holder = t
  /\ holder' = NULL
  /\ UNCHANGED waiting

ReleaseAndWait(t) ==
  /\ holder = t
  /\ holder' = NULL
  /\ waiting' = waiting \cup {t}

\* The holder h ends the wait of t.
NotifyOne(h, t) ==
  /\ holder = h /\ t \in waiting
  /\ waiting' = waiting \ {t}
  /\ UNCHANGED holder

GiveUp(t) ==
  /\ t \in waiting
  /\ waiting' = waiting \ {t}
  /\ UNCHANGED holder

AbsNext ==
  \E t \in Thread :
     \/ Acquire(t) \/ Release(t) \/ ReleaseAndWait(t) \/ GiveUp(t)
     \/ \E u \in Thread : NotifyOne(t, u)

AbsSpec == AbsInit /\ [][AbsNext]_absVars

=============================================================================
