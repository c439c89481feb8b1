----------------------------- MODULE ParkProofs -----------------------------
(***************************************************************************)
(* Proofs about the two ways to park a thread, for any number of unparkers *)
(* and every setting of the flags.  PlatformEvent: the guarantees of the   *)
(* code, and that it implements a binary permit.  Parker: with             *)
(* -XX:+UseMembar no thread sleeps over a permit.                          *)
(***************************************************************************)
EXTENDS PlatformEvent, TLAPS

----------------------------------------------------------------------------
(* PlatformEvent.                                                          *)

\* What park() knows of _Event on its way out: it has been unparked, unless it
\* is timed and gave up; and whether it found so is what it returns.
OutInv ==
  /\ pc \in {"leave", "store"} /\ ~timed => Event >= 0
  /\ pc = "store" /\ ret = "OK" => Event >= 0
  /\ pc = "store" /\ ~timed => ret = "OK"
  /\ pc \in Counted \cup {"lock"} => ret = "TIMEOUT"
  /\ pc = "timedOut" => timed

Inv == TypeOK /\ Guarantees /\ OutInv

USE DEF ownerVars

LEMMA InitInv == Init => Inv
<1>. SUFFICES ASSUME Init PROVE Inv
  OBVIOUS
<1>1. timed \in BOOLEAN
  BY DEF Init
<1>2. Guarantees /\ OutInv
  BY DEF Init, Guarantees, OutInv, Counted
<1>3. /\ Event \in {-1, 0, 1} /\ nParked \in {0, 1}
      /\ mutex \in Unparker \cup {Self, NONE}
      /\ pc \in Counted \cup {"idle", "lock", "store", "unlock"}
      /\ ret \in {"OK", "TIMEOUT"} /\ result \in {"OK", "TIMEOUT"}
  BY DEF Init
<1>4. upc \in [Unparker -> {"idle", "lock", "unlock", "signal"}]
  BY DEF Init
<1>5. AnyWaiters \in [Unparker -> {0, 1}]
  BY DEF Init
<1>. QED  BY <1>1, <1>2, <1>3, <1>4, <1>5 DEF Inv, TypeOK

LEMMA NextInv == Inv /\ [Next]_vars => Inv'
<1>. SUFFICES ASSUME Inv, [Next]_vars PROVE Inv'
  OBVIOUS
<1>. USE DEF Inv, TypeOK, Guarantees, OutInv, Counted
<1>1. ASSUME NEW millis \in BOOLEAN, park(millis) PROVE Inv'
  BY <1>1 DEF park
<1>2. CASE Reset
  BY <1>2 DEF Reset
<1>3. CASE LockMutex
  BY <1>3 DEF LockMutex
<1>4. CASE TestEvent
  BY <1>4 DEF TestEvent, MustWait
<1>5. CASE Relock
  BY <1>5 DEF Relock, LeavesLoop
<1>6. CASE Leave
  BY <1>6 DEF Leave, ReturnValue
<1>7. CASE StoreEvent
  BY <1>7 DEF StoreEvent, Cleared
<1>8. CASE UnlockMutex
  BY <1>8 DEF UnlockMutex
<1>9. CASE WakeSpuriously
  BY <1>9 DEF WakeSpuriously
<1>10. CASE TimeOut
  BY <1>10 DEF TimeOut
<1>11. ASSUME NEW u \in Unparker, unpark(u) PROVE Inv'
  BY <1>11 DEF unpark, Incremented
<1>12. ASSUME NEW u \in Unparker, UnparkLock(u) PROVE Inv'
  BY <1>12 DEF UnparkLock, Signal
<1>13. ASSUME NEW u \in Unparker, UnparkUnlock(u) PROVE Inv'
  BY <1>13 DEF UnparkUnlock
<1>14. ASSUME NEW u \in Unparker, UnparkSignal(u) PROVE Inv'
  BY <1>14 DEF UnparkSignal, Signal
<1>15. CASE UNCHANGED vars
  BY <1>15 DEF vars
<1>. QED
  BY <1>1, <1>2, <1>3, <1>4, <1>5, <1>6, <1>7, <1>8, <1>9, <1>10, <1>11, <1>12,
     <1>13, <1>14, <1>15
  DEF Next, Parking, Unparking

LEMMA EventInvariance == Spec => []Inv
  BY InitInv, NextInv, PTL DEF Spec

\* The types; _Event stays within -1..1 for any number of unparkers.
THEOREM EventTypes == Spec => []TypeOK
<1>1. Inv => TypeOK
  BY DEF Inv
<1>. QED  BY <1>1, EventInvariance, PTL

\* The guarantee()s of park(), park(millis) and TryPark() never fail.
THEOREM EventGuarantees == Spec => []Guarantees
<1>1. Inv => Guarantees
  BY DEF Inv
<1>. QED  BY <1>1, EventInvariance, PTL

\* park() and unpark() implement a binary permit, with timeouts that leave no
\* permit behind.
THEOREM PermitRefinement == Spec => ImplementsPermit
<1>1. Init => P!PermitInit
  BY DEF Init, P!PermitInit, InPark
<1>2. ASSUME Inv, [Next]_vars PROVE [P!PermitNext]_(P!permitVars)
  <2>. USE DEF Inv, TypeOK, Guarantees, OutInv, Counted, InPark, P!PermitNext,
            P!permitVars, P!Clear, P!GiveUp, P!Take, P!Enter, P!MakeAvailable
  <2>1. ASSUME NEW millis \in BOOLEAN, park(millis) PROVE [P!PermitNext]_(P!permitVars)
    BY <1>2, <2>1 DEF park
  <2>2. CASE Reset
    BY <1>2, <2>2 DEF Reset
  <2>3. CASE LockMutex
    BY <1>2, <2>3 DEF LockMutex
  <2>4. CASE TestEvent
    BY <1>2, <2>4 DEF TestEvent, MustWait
  <2>5. CASE Relock
    BY <1>2, <2>5 DEF Relock, LeavesLoop
  <2>6. CASE Leave
    BY <1>2, <2>6 DEF Leave, ReturnValue
  <2>7. CASE StoreEvent
    BY <1>2, <2>7 DEF StoreEvent, Cleared
  <2>8. CASE UnlockMutex
    BY <1>2, <2>8 DEF UnlockMutex
  <2>9. CASE WakeSpuriously
    BY <1>2, <2>9 DEF WakeSpuriously
  <2>10. CASE TimeOut
    BY <1>2, <2>10 DEF TimeOut
  <2>11. ASSUME NEW u \in Unparker, unpark(u) PROVE [P!PermitNext]_(P!permitVars)
    BY <1>2, <2>11 DEF unpark, Incremented
  <2>12. ASSUME NEW u \in Unparker, UnparkLock(u) PROVE [P!PermitNext]_(P!permitVars)
    BY <1>2, <2>12 DEF UnparkLock, Signal
  <2>13. ASSUME NEW u \in Unparker, UnparkUnlock(u) PROVE [P!PermitNext]_(P!permitVars)
    BY <1>2, <2>13 DEF UnparkUnlock
  <2>14. ASSUME NEW u \in Unparker, UnparkSignal(u) PROVE [P!PermitNext]_(P!permitVars)
    BY <1>2, <2>14 DEF UnparkSignal, Signal
  <2>15. CASE UNCHANGED vars
    BY <1>2, <2>15 DEF vars
  <2>. QED
    BY <1>2, <2>1, <2>2, <2>3, <2>4, <2>5, <2>6, <2>7, <2>8, <2>9, <2>10, <2>11,
       <2>12, <2>13, <2>14, <2>15
    DEF Next, Parking, Unparking
<1>. QED
  BY <1>1, <1>2, EventInvariance, PTL DEF Spec, ImplementsPermit, P!PermitSpec

----------------------------------------------------------------------------
(* Parker, with or without the NPTL work-around.  Without the fence the    *)
(* first conjunct of FencedInv fails, and so does the theorem.  What       *)
(* follows is about a Parker alone: mutex, pc and upc are its own.         *)

CONSTANT UseMembar
VARIABLES counter, buffered, interrupted, s, available

K == INSTANCE Parker

\* _mutex has one holder.
MutexInv == \A u \in Unparker : upc[u] = "critical" <=> mutex = u

\* The fence keeps the store inside park(): a permit that is available is in
\* memory outside the fast path.  Who sleeps over a _counter that is set is
\* about to be signalled by the unpark() that found it clear.
FencedInv ==
  /\ buffered => pc = "fence"
  /\ available => counter = 1 \/ pc = "fence"
  /\ pc = "blocked" /\ counter = 1 => K!Signalling

ParkerInv == K!TypeOK /\ MutexInv /\ (UseMembar => FencedInv)

LEMMA ParkerInitInv == K!Init => ParkerInv
  BY EventAssumption DEF K!Init, ParkerInv, K!TypeOK, MutexInv, FencedInv

\* The steps of park() leave the unparkers alone; those that let the thread sleep
\* find _counter clear.
LEMMA ParkInv ==
  ASSUME ParkerInv,
         K!park \/ K!NegativeTime \/ K!Parking \/ K!WakeUp \/ K!Drain \/ K!ClearInterrupt
  PROVE  ParkerInv'
<1>1. UNCHANGED <<mutex, upc, s>> /\ (K!Signalling' <=> K!Signalling)
  BY DEF K!park, K!NegativeTime, K!Parking, K!WakeUp, K!Drain, K!ClearInterrupt, K!FastStore, K!Fence,
         K!CheckInterrupt, K!TryLock, K!TestCounter, K!Awake, K!Return, K!Signalling
<1>2. MutexInv'
  BY <1>1 DEF ParkerInv, MutexInv
<1>. USE DEF K!Return
<1>3. CASE K!park
  <2>1. K!TypeOK'
    BY <1>3 DEF K!park, K!Counter, ParkerInv, K!TypeOK
  <2>2. FencedInv => FencedInv'
    BY <1>1, <1>3 DEF K!park, K!Counter, ParkerInv, K!TypeOK, FencedInv
  <2>. QED BY <1>2, <2>1, <2>2 DEF ParkerInv
<1>4. CASE K!NegativeTime
  <2>1. K!TypeOK'
    BY <1>4 DEF K!NegativeTime, ParkerInv, K!TypeOK
  <2>2. FencedInv => FencedInv'
    BY <1>1, <1>4 DEF K!NegativeTime, ParkerInv, K!TypeOK, FencedInv
  <2>. QED BY <1>2, <2>1, <2>2 DEF ParkerInv
<1>5. CASE K!WakeUp \/ K!Drain \/ K!ClearInterrupt
  <2>1. K!TypeOK'
    BY <1>5 DEF K!WakeUp, K!Drain, K!ClearInterrupt, ParkerInv, K!TypeOK
  <2>2. FencedInv => FencedInv'
    BY <1>1, <1>5 DEF K!WakeUp, K!Drain, K!ClearInterrupt, ParkerInv, K!TypeOK, FencedInv
  <2>. QED BY <1>2, <2>1, <2>2 DEF ParkerInv
<1>6. CASE K!FastStore \/ K!Fence
  <2>1. K!TypeOK'
    BY <1>6 DEF K!FastStore, K!Fence, ParkerInv, K!TypeOK
  <2>2. UseMembar /\ FencedInv => FencedInv'
    BY <1>1, <1>6 DEF K!FastStore, K!Fence, ParkerInv, K!TypeOK, FencedInv
  <2>. QED BY <1>2, <2>1, <2>2 DEF ParkerInv
<1>7. CASE K!CheckInterrupt("interrupt", "recheck")
  <2>1. K!TypeOK'
    BY <1>7 DEF K!CheckInterrupt, ParkerInv, K!TypeOK
  <2>2. FencedInv => FencedInv'
    BY <1>1, <1>7 DEF K!CheckInterrupt, ParkerInv, K!TypeOK, FencedInv
  <2>. QED BY <1>2, <2>1, <2>2 DEF ParkerInv
<1>8. CASE K!CheckInterrupt("recheck", "trylock")
  <2>1. K!TypeOK'
    BY <1>8 DEF K!CheckInterrupt, ParkerInv, K!TypeOK
  <2>2. FencedInv => FencedInv'
    BY <1>1, <1>8 DEF K!CheckInterrupt, ParkerInv, K!TypeOK, FencedInv
  <2>. QED BY <1>2, <2>1, <2>2 DEF ParkerInv
<1>9. CASE K!TryLock
  <2>1. K!TypeOK'
    BY <1>9 DEF K!TryLock, ParkerInv, K!TypeOK
  <2>2. FencedInv => FencedInv'
    BY <1>1, <1>9 DEF K!TryLock, ParkerInv, K!TypeOK, FencedInv
  <2>. QED BY <1>2, <2>1, <2>2 DEF ParkerInv
<1>10. CASE K!TestCounter \/ K!Awake
  <2>1. K!TypeOK'
    BY <1>10 DEF K!TestCounter, K!MayTake, K!Awake, ParkerInv, K!TypeOK
  <2>2. FencedInv => FencedInv'
    BY <1>1, <1>10 DEF K!TestCounter, K!MayTake, K!Awake, ParkerInv, K!TypeOK, FencedInv
  <2>. QED BY <1>2, <2>1, <2>2 DEF ParkerInv
<1>. QED BY <1>3, <1>4, <1>5, <1>6, <1>7, <1>8, <1>9, <1>10 DEF K!Parking

\* unpark() leaves a signaller behind whenever it sets a _counter that was clear.
LEMMA UnparkInv ==
  ASSUME ParkerInv, NEW u \in Unparker, K!unpark(u) \/ K!interrupt(u) \/ K!Unparking(u)
  PROVE  ParkerInv'
<1>. USE EventAssumption DEF ParkerInv, K!TypeOK
<1>1. CASE K!unpark(u) \/ K!interrupt(u)
  <2>1. K!Signalling' <=> K!Signalling
    BY <1>1 DEF K!unpark, K!interrupt, K!Signalling
  <2>2. K!TypeOK' /\ MutexInv'
    BY <1>1 DEF K!unpark, K!interrupt, MutexInv
  <2>3. FencedInv => FencedInv'
    BY <1>1, <2>1 DEF K!unpark, K!interrupt, FencedInv
  <2>. QED BY <2>2, <2>3
<1>2. CASE K!UnparkLock(u)
  <2>1. K!TypeOK' /\ MutexInv'
    BY <1>2 DEF K!UnparkLock, K!Given, MutexInv
  <2>2. counter = 0 => K!Signalling'
    BY <1>2 DEF K!UnparkLock, K!Signalling
  <2>3. K!Signalling => K!Signalling'
    BY <1>2 DEF K!UnparkLock, K!Signalling
  <2>4. FencedInv => FencedInv'
    BY <1>2, <2>2, <2>3 DEF K!UnparkLock, K!Given, FencedInv
  <2>. QED BY <2>1, <2>4
<1>3. CASE K!UnparkUnlock(u)
  <2>1. K!TypeOK' /\ MutexInv'
    BY <1>3 DEF K!UnparkUnlock, K!IsNew, K!Signal, MutexInv
  <2>2. K!Signalling => K!Signalling' \/ pc' # "blocked"
    BY <1>3 DEF K!UnparkUnlock, K!IsNew, K!Signal, K!Signalling
  <2>3. FencedInv => FencedInv'
    BY <1>3, <2>2 DEF K!UnparkUnlock, K!Signal, FencedInv
  <2>. QED BY <2>1, <2>3
<1>4. CASE K!UnparkSignal(u)
  BY <1>4 DEF K!UnparkSignal, K!Signal, MutexInv, FencedInv
<1>. QED BY <1>1, <1>2, <1>3, <1>4 DEF K!Unparking

LEMMA ParkerNextInv == ParkerInv /\ [K!Next]_(K!vars) => ParkerInv'
<1>. SUFFICES ASSUME ParkerInv, [K!Next]_(K!vars) PROVE ParkerInv'
  OBVIOUS
<1>1. CASE UNCHANGED K!vars
  BY <1>1 DEF K!vars, ParkerInv, K!TypeOK, MutexInv, FencedInv, K!Signalling
<1>2. CASE K!Next
  BY <1>2, ParkInv, UnparkInv DEF K!Next
<1>. QED BY <1>1, <1>2

\* The invariant holds in every state that park(), unpark() and interrupt() reach.
THEOREM ParkerInvariance == K!Spec => []ParkerInv
  BY ParkerInitInv, ParkerNextInv, PTL DEF K!Spec

\* _counter stays 0 or 1, though unpark() stores and does not count.
THEOREM ParkerTypes == K!Spec => []K!TypeOK
<1>1. ParkerInv => K!TypeOK
  BY DEF ParkerInv
<1>. QED BY ParkerInvariance, <1>1, PTL

\* park() of a thread that has a permit does not sleep, or its signal is on its
\* way, when the return from the fast path executes a fence.
THEOREM PermitSeen == K!Spec => [](UseMembar => K!NoSleepOverPermit)
<1>1. ParkerInv => (UseMembar => K!NoSleepOverPermit)
  BY DEF ParkerInv, FencedInv, K!NoSleepOverPermit
<1>. QED BY ParkerInvariance, <1>1, PTL

=============================================================================
