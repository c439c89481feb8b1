------------------------------- MODULE Parker -------------------------------
(***************************************************************************)
(* Parker::park() and unpark() on Linux (os_linux.cpp), the permit behind  *)
(* java.util.concurrent.locks.LockSupport, and os::interrupt() where it    *)
(* uses it.                                                                *)
(*                                                                         *)
(* One Parker, the Java thread it belongs to, and the threads that unpark  *)
(* or interrupt it.  _counter is read and cleared by the fast path of      *)
(* park() without _mutex: a plain store, which may stay in the store       *)
(* buffer of the processor until the thread executes an atomic instruction *)
(* or a fence.  With -XX:+UseMembar the return from park() to Java code    *)
(* executes one (ThreadStateTransition), by default none.                  *)
(***************************************************************************)
EXTENDS Naturals

CONSTANTS
  Unparker,                     \* the threads that call unpark() or interrupt()
  NONE,                         \* no thread
  UseMembar,                    \* -XX:UseMembar
  WorkAroundNPTLTimedWaitHang   \* -XX:WorkAroundNPTLTimedWaitHang

ASSUME ParkerAssumption ==
  /\ NONE \notin Unparker
  /\ UseMembar \in BOOLEAN /\ WorkAroundNPTLTimedWaitHang \in BOOLEAN

VARIABLES
  counter,      \* _counter in memory
  buffered,     \* the fast path's store of 0 is still in the store buffer
  mutex,        \* holder of _mutex, if an unparker
  interrupted,  \* osthread->interrupted()
  pc,           \* where the thread is in park(); "run" is Java code
  upc,          \* where each unparker is
  s,            \* local of unpark(): _counter as it found it
  available     \* an unpark() came since the last park() returned

vars == <<counter, buffered, mutex, interrupted, pc, upc, s, available>>

TypeOK ==
  /\ counter \in {0, 1} /\ buffered \in BOOLEAN
  /\ mutex \in Unparker \cup {NONE}
  /\ interrupted \in BOOLEAN /\ available \in BOOLEAN
  /\ pc \in {"run", "fastStore", "fence", "interrupt", "recheck", "trylock",
             "test", "blocked", "woken"}
  /\ upc \in [Unparker -> {"idle", "lock", "critical", "signal"}]
  /\ s \in [Unparker -> {0, 1}]

Init ==
  /\ counter = 0 /\ buffered = FALSE /\ mutex = NONE
  /\ interrupted = FALSE /\ pc = "run"
  /\ upc = [u \in Unparker |-> "idle"] /\ s = [u \in Unparker |-> 0]
  /\ available = FALSE

----------------------------------------------------------------------------
(* park().                                                                 *)

Return == pc' = "run" /\ available' = FALSE

\* The thread reads its own store, in memory or not.
Counter == IF buffered THEN 0 ELSE counter

park ==
  /\ pc = "run"
  /\ pc' = IF Counter > 0 THEN "fastStore" ELSE "interrupt"
  /\ UNCHANGED <<counter, buffered, mutex, interrupted, upc, s, available>>

\* _counter = 0 ; return ; and with UseMembar a fence on the way to Java code.
FastStore ==
  /\ pc = "fastStore"
  /\ buffered' = TRUE
  /\ IF UseMembar THEN pc' = "fence" /\ UNCHANGED available ELSE Return
  /\ UNCHANGED <<counter, mutex, interrupted, upc, s>>

Fence ==
  /\ pc = "fence" /\ ~buffered /\ Return
  /\ UNCHANGED <<counter, buffered, mutex, interrupted, upc, s>>

\* The store buffer is written to memory.
Drain ==
  /\ buffered
  /\ counter' = 0 /\ buffered' = FALSE
  /\ UNCHANGED <<mutex, interrupted, pc, upc, s, available>>

\* park() returns at once if interrupted, ...
CheckInterrupt(l, m) ==
  /\ pc = l
  /\ IF interrupted THEN Return ELSE pc' = m /\ UNCHANGED available
  /\ UNCHANGED <<counter, buffered, mutex, interrupted, upc, s>>

\* ... or if the time is negative.
NegativeTime ==
  /\ pc = "recheck" /\ Return
  /\ UNCHANGED <<counter, buffered, mutex, interrupted, upc, s>>

\* pthread_mutex_trylock() is atomic: it comes after the buffered store.  When
\* _mutex is held, an unpark() is on its way and park() returns.
TryLock ==
  /\ pc = "trylock" /\ ~buffered
  /\ IF mutex # NONE THEN Return ELSE pc' = "test" /\ UNCHANGED available
  /\ UNCHANGED <<counter, buffered, mutex, interrupted, upc, s>>

\* Under _mutex: take the permit, or wait for one.
MayTake_Never == FALSE
MayTake == counter > 0

TestCounter ==
  /\ pc = "test" /\ mutex = NONE
  /\ IF MayTake
       THEN counter' = 0 /\ Return
       ELSE pc' = "blocked" /\ UNCHANGED <<counter, available>>
  /\ UNCHANGED <<buffered, mutex, interrupted, upc, s>>

\* The wait ends without a signal: spuriously, by EINTR or by a timeout.
WakeUp ==
  /\ pc = "blocked" /\ pc' = "woken"
  /\ UNCHANGED <<counter, buffered, mutex, interrupted, upc, s, available>>

\* Back under _mutex: clear _counter and return.
Awake ==
  /\ pc = "woken" /\ mutex = NONE
  /\ counter' = 0 /\ Return
  /\ UNCHANGED <<buffered, mutex, interrupted, upc, s>>

\* Thread.interrupted(): Java code clears the flag.
ClearInterrupt ==
  /\ pc = "run" /\ interrupted /\ interrupted' = FALSE
  /\ UNCHANGED <<counter, buffered, mutex, pc, upc, s, available>>

----------------------------------------------------------------------------
(* unpark() and interrupt().                                               *)

unpark(u) ==
  /\ upc[u] = "idle"
  /\ upc' = [upc EXCEPT ![u] = "lock"]
  /\ UNCHANGED <<counter, buffered, mutex, interrupted, pc, s, available>>

\* os::interrupt() sets the flag, a fence, and then unparks.
interrupt(u) ==
  /\ upc[u] = "idle"
  /\ interrupted' = TRUE
  /\ upc' = [upc EXCEPT ![u] = "lock"]
  /\ UNCHANGED <<counter, buffered, mutex, pc, s, available>>

\* _counter = 1: unpark() gives one permit, however often it is called.
Given == 1

\* The thread tests _counter in its own critical section, "test": no unpark()
\* is in one then.
UnparkLock(u) ==
  /\ upc[u] = "lock" /\ mutex = NONE /\ pc # "test"
  /\ mutex' = u
  /\ s' = [s EXCEPT ![u] = counter]
  /\ counter' = Given
  /\ available' = TRUE
  /\ upc' = [upc EXCEPT ![u] = "critical"]
  /\ UNCHANGED <<buffered, interrupted, pc>>

Signal == pc' = IF pc = "blocked" THEN "woken" ELSE pc

\* The permit is new: unpark() found _counter clear.
IsNew_Inverted(u) == s[u] > 0
IsNew(u) == s[u] < 1

\* Signal only if the permit is new: under _mutex with the work-around, else
\* after unlocking it.
UnparkUnlock(u) ==
  /\ upc[u] = "critical"
  /\ mutex' = NONE
  /\ IF IsNew(u) /\ ~WorkAroundNPTLTimedWaitHang
       THEN upc' = [upc EXCEPT ![u] = "signal"] /\ UNCHANGED <<pc, s>>
       ELSE /\ upc' = [upc EXCEPT ![u] = "idle"]
            /\ s' = [s EXCEPT ![u] = 0]
            /\ IF IsNew(u) THEN Signal ELSE UNCHANGED pc
  /\ UNCHANGED <<counter, buffered, interrupted, available>>

UnparkSignal(u) ==
  /\ upc[u] = "signal"
  /\ Signal
  /\ upc' = [upc EXCEPT ![u] = "idle"]
  /\ UNCHANGED <<counter, buffered, mutex, interrupted, s, available>>

----------------------------------------------------------------------------

Parking ==
  \/ FastStore \/ Fence \/ CheckInterrupt("interrupt", "recheck")
  \/ CheckInterrupt("recheck", "trylock") \/ TryLock \/ TestCounter \/ Awake

Unparking(u) == UnparkLock(u) \/ UnparkUnlock(u) \/ UnparkSignal(u)

Next ==
  \/ park \/ NegativeTime \/ Parking \/ WakeUp \/ Drain \/ ClearInterrupt
  \/ \E u \in Unparker : unpark(u) \/ interrupt(u) \/ Unparking(u)

Spec == Init /\ [][Next]_vars

\* Threads keep running, a woken thread gets _mutex in the end though others
\* go on locking it, and the store buffer drains; no wakeup is spurious by
\* fairness, and nobody need call unpark().
FairSpec ==
  /\ Spec
  /\ WF_vars(Parking) /\ SF_vars(Awake) /\ WF_vars(Drain)
  /\ \A u \in Unparker : WF_vars(Unparking(u))

----------------------------------------------------------------------------
(* Properties.                                                             *)

\* An unpark() that has set _counter and will still signal if it must.
Signalling == \E u \in Unparker : upc[u] \in {"critical", "signal"} /\ s[u] < 1

\* "Return immediately if a permit is available": a thread does not sleep in
\* park() over an unpark() that came since its last park() returned, unless the
\* signal is on its way.
NoSleepOverPermit == pc = "blocked" /\ available => Signalling

\* An unpark() or an interrupt ends the park() of a blocked thread, although
\* park() gives up on a contended _mutex and unpark() skips the signal when it
\* finds _counter set.
BlockedReturns == pc = "blocked" /\ (available \/ interrupted) ~> pc = "run"

=============================================================================
