--------------------------- MODULE PlatformEvent ---------------------------
(***************************************************************************)
(* os::PlatformEvent on Linux (os_linux.cpp, os_linux.hpp): the park() and *)
(* unpark() under every ParkEvent.                                         *)
(*                                                                         *)
(* One event, the thread associated with it, which alone parks, and the    *)
(* threads that unpark it.  _Event is 1 (a permit), 0, or -1 (the thread   *)
(* is about to block); it is changed by CAS, not under _mutex.  A step is  *)
(* one access to _Event or one pthread call.                               *)
(***************************************************************************)
EXTENDS Integers

CONSTANTS
  Unparker,                     \* the threads that call unpark()
  Self,                         \* the thread associated with the event
  NONE,                         \* no thread
  WorkAroundNPTLTimedWaitHang,  \* -XX:WorkAroundNPTLTimedWaitHang
  FilterSpuriousWakeups         \* -XX:FilterSpuriousWakeups

ASSUME EventAssumption ==
  /\ Self \notin Unparker /\ NONE \notin Unparker /\ Self # NONE
  /\ WorkAroundNPTLTimedWaitHang \in BOOLEAN
  /\ FilterSpuriousWakeups \in BOOLEAN

VARIABLES
  Event,       \* _Event
  nParked,     \* _nParked
  mutex,       \* holder of _mutex
  pc,          \* where Self is in park()
  timed,       \* Self is in park(millis)
  ret,         \* the value park(millis) is about to return
  result,      \* what the last park() returned
  upc,         \* where each unparker is in unpark()
  AnyWaiters   \* local of unpark()

ownerVars == <<pc, timed, ret, result>>
vars == <<Event, nParked, mutex, ownerVars, upc, AnyWaiters>>

\* Self is counted in _nParked at these points.
Counted == {"test", "blocked", "woken", "timedOut", "leave"}

TypeOK ==
  /\ Event \in {-1, 0, 1}
  /\ nParked \in {0, 1}
  /\ mutex \in Unparker \cup {Self, NONE}
  /\ pc \in Counted \cup {"idle", "lock", "store", "unlock"}
  /\ timed \in BOOLEAN
  /\ ret \in {"OK", "TIMEOUT"} /\ result \in {"OK", "TIMEOUT"}
  /\ upc \in [Unparker -> {"idle", "lock", "unlock", "signal"}]
  /\ AnyWaiters \in [Unparker -> {0, 1}]

Init ==
  /\ Event = 0 /\ nParked = 0 /\ mutex = NONE
  /\ pc = "idle" /\ timed = FALSE /\ ret = "OK" /\ result = "OK"
  /\ upc = [u \in Unparker |-> "idle"]
  /\ AnyWaiters = [u \in Unparker |-> 0]

----------------------------------------------------------------------------
(* park() and park(millis).                                                *)

\* Decrement _Event: with a permit park() is done, without one it blocks.
park(millis) ==
  /\ pc = "idle"
  /\ Event' = Event - 1
  /\ IF Event = 0
       THEN /\ pc' = "lock" /\ timed' = millis /\ ret' = "TIMEOUT"
            /\ UNCHANGED result
       ELSE result' = "OK" /\ UNCHANGED <<pc, timed, ret>>
  /\ UNCHANGED <<nParked, mutex, upc, AnyWaiters>>

\* reset(), and TryPark(), which also returns what it clears.
Reset ==
  /\ pc = "idle" /\ Event' = 0
  /\ UNCHANGED <<nParked, mutex, ownerVars, upc, AnyWaiters>>

LockMutex ==
  /\ pc = "lock" /\ mutex = NONE
  /\ mutex' = Self /\ nParked' = nParked + 1 /\ pc' = "test"
  /\ UNCHANGED <<Event, timed, ret, result, upc, AnyWaiters>>

\* The condition of the loop: wait for an unpark() that has not come yet.
MustWait_Always == TRUE
MustWait == Event < 0

\* while (_Event < 0) pthread_cond_wait (_cond, _mutex)
TestEvent ==
  /\ pc = "test"
  /\ IF MustWait THEN pc' = "blocked" /\ mutex' = NONE
                 ELSE pc' = "leave" /\ UNCHANGED mutex
  /\ UNCHANGED <<Event, nParked, timed, ret, result, upc, AnyWaiters>>

\* The wait ends without a signal: EINTR, spuriously, or by a timeout.
WakeSpuriously ==
  /\ pc = "blocked" /\ pc' = "woken"
  /\ UNCHANGED <<Event, nParked, mutex, timed, ret, result, upc, AnyWaiters>>

TimeOut ==
  /\ pc = "blocked" /\ timed /\ pc' = "timedOut"
  /\ UNCHANGED <<Event, nParked, mutex, timed, ret, result, upc, AnyWaiters>>

\* A timeout leaves the loop, and so does any wakeup of a timed wait when
\* spurious ones are not filtered.
LeavesLoop == pc = "timedOut" \/ (timed /\ ~FilterSpuriousWakeups)

\* The wait returns with _mutex.
Relock ==
  /\ pc \in {"woken", "timedOut"} /\ mutex = NONE
  /\ mutex' = Self
  /\ pc' = IF LeavesLoop THEN "leave" ELSE "test"
  /\ UNCHANGED <<Event, nParked, timed, ret, result, upc, AnyWaiters>>

\* The value of park(millis): OK if an unpark() came, timeout or not.
ReturnValue_OnWakeup == "OK"
ReturnValue == IF Event >= 0 THEN "OK" ELSE ret

\* -- _nParked, and read _Event for the value to return; ...
Leave ==
  /\ pc = "leave"
  /\ nParked' = nParked - 1
  /\ ret' = ReturnValue
  /\ pc' = "store"
  /\ UNCHANGED <<Event, mutex, timed, result, upc, AnyWaiters>>

\* ... then clear _Event, a plain store, ...
Cleared == 0

StoreEvent ==
  /\ pc = "store"
  /\ Event' = Cleared /\ result' = ret /\ pc' = "unlock"
  /\ UNCHANGED <<nParked, mutex, timed, ret, upc, AnyWaiters>>

\* ... and unlock _mutex.
UnlockMutex ==
  /\ pc = "unlock"
  /\ mutex' = NONE /\ pc' = "idle" /\ timed' = FALSE /\ ret' = "OK"
  /\ UNCHANGED <<Event, nParked, result, upc, AnyWaiters>>

----------------------------------------------------------------------------
(* unpark().                                                               *)

\* _Event after an unpark(): at most one permit, however many unpark()s.
Incremented == IF Event > 0 THEN Event ELSE Event + 1

\* Increment _Event unless it is 1; the thread is roused if it was -1.
unpark(u) ==
  /\ upc[u] = "idle"
  /\ Event' = Incremented
  /\ upc' = [upc EXCEPT ![u] = IF Event < 0 THEN "lock" ELSE "idle"]
  /\ UNCHANGED <<nParked, mutex, ownerVars, AnyWaiters>>

\* pthread_cond_signal (_cond)
Signal == pc' = IF pc = "blocked" THEN "woken" ELSE pc

\* Read _nParked under _mutex, and signal there if the work-around asks to.
UnparkLock(u) ==
  /\ upc[u] = "lock" /\ mutex = NONE
  /\ mutex' = u
  /\ upc' = [upc EXCEPT ![u] = "unlock"]
  /\ IF nParked # 0 /\ WorkAroundNPTLTimedWaitHang
       THEN Signal /\ UNCHANGED AnyWaiters
       ELSE AnyWaiters' = [AnyWaiters EXCEPT ![u] = nParked] /\ UNCHANGED pc
  /\ UNCHANGED <<Event, nParked, timed, ret, result>>

UnparkUnlock(u) ==
  /\ upc[u] = "unlock"
  /\ mutex' = NONE
  /\ upc' = [upc EXCEPT ![u] = IF AnyWaiters[u] # 0 THEN "signal" ELSE "idle"]
  /\ UNCHANGED <<Event, nParked, ownerVars, AnyWaiters>>

\* Signal after dropping _mutex.
UnparkSignal(u) ==
  /\ upc[u] = "signal"
  /\ Signal
  /\ upc' = [upc EXCEPT ![u] = "idle"]
  /\ AnyWaiters' = [AnyWaiters EXCEPT ![u] = 0]
  /\ UNCHANGED <<Event, nParked, mutex, timed, ret, result>>

----------------------------------------------------------------------------

\* The steps of a thread inside park(), and of one inside unpark().
Parking ==
  LockMutex \/ TestEvent \/ Relock \/ Leave \/ StoreEvent \/ UnlockMutex
Unparking(u) == UnparkLock(u) \/ UnparkUnlock(u) \/ UnparkSignal(u)

Next ==
  \/ \E millis \in BOOLEAN : park(millis)
  \/ Reset \/ Parking \/ WakeSpuriously \/ TimeOut
  \/ \E u \in Unparker : unpark(u) \/ Unparking(u)

Spec == Init /\ [][Next]_vars

\* Threads keep running; nobody need call park() or unpark(), and no wakeup
\* need be spurious.  A timed wait that is entered again and again times out:
\* its deadline is absolute, computed once before the loop.
FairSpec ==
  /\ Spec
  /\ WF_vars(Parking) /\ SF_vars(TimeOut)
  /\ \A u \in Unparker : WF_vars(Unparking(u))

----------------------------------------------------------------------------
(* Properties.                                                             *)

InPark == pc \notin {"idle", "unlock"}

\* The guarantees and assertions of park() and unpark(): _Event is never
\* negative where park() starts and where it returns, _nParked is the number of
\* threads in the waiting loop, 0 or 1, and 0 where park() starts to wait.
Guarantees ==
  /\ pc \in {"idle", "unlock"} => Event >= 0
  /\ nParked = IF pc \in Counted THEN 1 ELSE 0

\* No lost wakeup: a timed park() returns, and any park() once an unpark() has
\* come, though the signal is sent only if _nParked says so, and after dropping
\* _mutex.
ParkReturns == InPark /\ (Event >= 0 \/ timed) ~> pc = "idle"

P == INSTANCE Permit WITH
       permit <- IF InPark THEN (IF Event < 0 THEN 0 ELSE 1) ELSE Event,
       parked <- InPark,
       timed  <- InPark /\ timed

\* park() and unpark() implement a binary permit: a park() that returns OK has
\* taken a permit, one that returns TIMEOUT leaves none, although _Event is
\* stored without CAS while unpark()s increment it.
ImplementsPermit == P!PermitSpec

=============================================================================
