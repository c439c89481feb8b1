--------------------------- MODULE NativeMonitor ---------------------------
(***************************************************************************)
(* HotSpot's native Mutex/Monitor (runtime/mutex.cpp, mutex.hpp).          *)
(*                                                                         *)
(* One monitor and the threads that use it.  Every access to a shared word *)
(* (_LockWord, _OnDeck, _EntryList, _WaitSet, Notified, the ParkEvent) is  *)
(* a step of its own; a CAS loop is the one step at which its CAS          *)
(* succeeds.  A thread stands for its _MutexEvent, the ParkEvent that      *)
(* represents it on the lists.                                             *)
(*                                                                         *)
(* The program counter of a thread names the point of mutex.cpp it has     *)
(* reached; "idle" is a thread outside the monitor, "cs" one that owns it. *)
(***************************************************************************)
EXTENDS Naturals, Sequences, Functions

CONSTANTS
  Thread,                \* the threads, each with its own _MutexEvent
  NULL,                  \* the null pointer
  LBIT,                  \* _LBIT, the value that locks _OnDeck transiently
  THREADPTR,             \* the address of a Thread: no ParkEvent's address
  NativeMonitorFlags,    \* the bits of -XX:NativeMonitorFlags that are set
  NativeMonitorTimeout,  \* TRUE iff -XX:NativeMonitorTimeout is positive
  Ops                    \* the client operations the instance exercises

ASSUME ConstantsAssumption ==
  /\ NULL \notin Thread /\ LBIT \notin Thread /\ THREADPTR \notin Thread
  /\ NULL # LBIT /\ NULL # THREADPTR /\ LBIT # THREADPTR
  /\ NativeMonitorFlags \subseteq {1, 16, 32}
  /\ NativeMonitorTimeout \in BOOLEAN
  /\ Ops \subseteq {"lock", "try_lock", "jvm_raw_lock", "notify",
                    "notify_all", "wait", "timed_wait", "suspend", "quiesce"}

VARIABLES
  LockByte,      \* low byte of _LockWord: the outer lock
  cxq,           \* rest of _LockWord: recently arrived threads, newest first
  EntryList,     \* _EntryList
  OnDeck,        \* _OnDeck: the heir presumptive, and the inner lock
  WaitSet,       \* _WaitSet, newest first
  WaitLock,      \* holder of _WaitLock
  owner,         \* _owner
  Event,         \* permit of each thread's ParkEvent
  Notified,      \* ParkEvent::Notified
  pc,            \* where each thread is
  ret,           \* the caller: where IUnlock(), ILock() or notify() returns
  w,             \* local: the ParkEvent to wake or to notify
  List,          \* local: the segment detached from the cxq
  seen,          \* local: the sample of _LockWord taken by IUnlock()
  WasOnWaitSet,  \* local of IWait(): left the WaitSet by itself
  timo,          \* argument of IWait(): TRUE iff the wait is timed
  quiet          \* the clients have stopped starting operations

lockVars  == <<LockByte, cxq>>
queueVars == <<EntryList, OnDeck>>
waitVars  == <<WaitSet, WaitLock, Notified>>
locals    == <<ret, w, List, seen, WasOnWaitSet, timo>>
vars      == <<lockVars, queueVars, waitVars, owner, Event, pc, locals, quiet>>

NoSample == [locked |-> FALSE, empty |-> TRUE]

Label ==
  { "idle", "ILock", "reset", "AcquireOrPush", "awaitOnDeck", "parkAwait",
    "OnDeck_LOOP", "parkOnDeck", "clearOnDeck", "set_owner", "cs",
    "drop", "readOnDeck", "sampleLockWord", "sampleEntryList", "Succession",
    "WakeOne", "passOnDeck", "recheckLock", "unpark",
    "drain", "setEntryList", "Punt", "resample",
    "notify", "notifyPop", "notifyPush", "notifyFlag", "notifyUnpark",
    "waitAdd", "waitLoop", "waitPark", "waitDone", "waitUnlink",
    "reenter", "parkReenter", "suspended", "rawReset", "rawPush" }

TypeOK ==
  /\ LockByte \in BOOLEAN
  /\ cxq \in Seq(Thread)
  /\ EntryList \in Seq(Thread)
  /\ OnDeck \in Thread \cup {NULL, LBIT, THREADPTR}
  /\ WaitSet \in Seq(Thread)
  /\ WaitLock \in Thread \cup {NULL}
  /\ owner \in Thread \cup {NULL}
  /\ Event \in [Thread -> {0, 1}]
  /\ Notified \in [Thread -> BOOLEAN]
  /\ pc \in [Thread -> Label]
  /\ ret \in [Thread -> {"idle", "raw", "waitLoop", "suspended",
                      "notify", "notify_all"}]
  /\ w \in [Thread -> Thread \cup {NULL, THREADPTR}]
  /\ List \in [Thread -> Seq(Thread)]
  /\ seen \in [Thread -> [locked : BOOLEAN, empty : BOOLEAN]]
  /\ WasOnWaitSet \in [Thread -> BOOLEAN]
  /\ timo \in [Thread -> BOOLEAN]
  /\ quiet \in BOOLEAN

\* ClearMonitor(): the state of a new monitor, no thread using it.
Init ==
  /\ LockByte = FALSE /\ cxq = <<>> /\ EntryList = <<>> /\ OnDeck = NULL
  /\ WaitSet = <<>> /\ WaitLock = NULL /\ owner = NULL
  /\ Event = [t \in Thread |-> 0]
  /\ Notified = [t \in Thread |-> FALSE]
  /\ pc = [t \in Thread |-> "idle"]
  /\ ret = [t \in Thread |-> "idle"]
  /\ w = [t \in Thread |-> NULL]
  /\ List = [t \in Thread |-> <<>>]
  /\ seen = [t \in Thread |-> NoSample]
  /\ WasOnWaitSet = [t \in Thread |-> FALSE]
  /\ timo = [t \in Thread |-> FALSE]
  /\ quiet = FALSE

At(t, l)       == pc[t] = l
Goto(t, l)     == pc' = [pc EXCEPT ![t] = l]
Step(t, l, m)  == At(t, l) /\ Goto(t, m)

\* A new client operation: the thread is at l and has not been told to stop.
Begin(t, op, l) == op \in Ops /\ ~quiet /\ At(t, l)

----------------------------------------------------------------------------
(* The tests and updates of shared words the operations are made of.  The  *)
(* definitions named X_... are plausible errors in X: none is used here,   *)
(* each shows that a property depends on X.                                *)

\* The LBIT of the LockWord is clear when the CAS that sets it succeeds.
Free_Unchecked == TRUE
Free == ~LockByte

\* The cxq with t pushed on it.
Pushed_Forgotten(t) == cxq
Pushed(t) == <<t>> \o cxq

\* The inner lock can be taken: the CAS from null to _LBIT succeeds.
InnerFree == OnDeck = NULL

\* _OnDeck == ESelf
IsOnDeck_Anyone(t) == OnDeck # NULL
IsOnDeck(t) == OnDeck = t

\* PlatformEvent::unpark() leaves one permit, however often it is called.
Signalled(e) == 1

\* IUnlock() has nobody to wake, or the lock was taken in the meantime.
NoSuccession(t) == (seen[t].empty /\ EntryList = <<>>) \/ seen[t].locked

\* The unpark of the OnDeck thread is left to the owner of the lock.
Delegated_Always == TRUE
Delegated == LockByte

\* A thread arrived while the inner lock was held, and nobody serves it.
LateArrival_Ignored == FALSE
LateArrival == cxq # <<>> /\ ~LockByte

\* The WaitSet without the thread that notify() chooses, its head.
WaitSetTail == Tail(WaitSet)

RemoveAt(s, i) == SubSeq(s, 1, i - 1) \o SubSeq(s, i + 1, Len(s))

\* IWait() unlinks its thread, wherever in the WaitSet it is.
Unlink_Nothing(t) == UNCHANGED WaitSet
Unlink(t) == \E i \in DOMAIN WaitSet : WaitSet[i] = t /\ WaitSet' = RemoveAt(WaitSet, i)

\* IWait()'s test whether it left the loop by a notification.
WasNotified_Assumed(t) == TRUE
WasNotified(t) == Notified[t]

----------------------------------------------------------------------------
(* ILock() and its callers lock(), lock_without_safepoint_check(),         *)
(* try_lock() and jvm_raw_lock().                                          *)

lock(t) ==
  /\ Begin(t, "lock", "idle") /\ Goto(t, "ILock")
  /\ UNCHANGED <<lockVars, queueVars, waitVars, owner, Event, locals, quiet>>

\* try_lock() that takes the lock; one that finds the LockByte set only returns.
try_lock(t) ==
  /\ Begin(t, "try_lock", "idle")
  /\ Free
  /\ LockByte' = TRUE
  /\ Goto(t, "set_owner")
  /\ UNCHANGED <<cxq, queueVars, waitVars, owner, Event, locals, quiet>>

\* TryFast() and TrySpin(): take the lock if it is free; give up only on
\* having seen it held.
TryFastAndSpin(t, l, acquired, held) ==
  /\ At(t, l)
  /\ \/ Free /\ LockByte' = TRUE /\ Goto(t, acquired)
     \/ LockByte /\ UNCHANGED LockByte /\ Goto(t, held)
  /\ UNCHANGED <<cxq, queueVars, waitVars, owner, Event, locals, quiet>>

ILock(t) == TryFastAndSpin(t, "ILock", "set_owner", "reset")

\* jvm_raw_lock(): TryLock() and TrySpin(), else a ParkEvent for transient
\* use, reset before AcquireOrPush(); then the loop that IWait() has too.
jvm_raw_lock(t) ==
  /\ Begin(t, "jvm_raw_lock", "idle")
  /\ \/ Free /\ LockByte' = TRUE /\ Goto(t, "set_owner")
     \/ LockByte /\ UNCHANGED LockByte /\ Goto(t, "rawReset")
  /\ ret' = [ret EXCEPT ![t] = "raw"]
  /\ UNCHANGED <<cxq, queueVars, waitVars, owner, Event, w, List, seen,
                 WasOnWaitSet, timo, quiet>>

RawReset(t) ==
  /\ Step(t, "rawReset", "rawPush")
  /\ Event' = [Event EXCEPT ![t] = 0]
  /\ UNCHANGED <<lockVars, queueVars, waitVars, owner, locals, quiet>>

\* Slow path: reset the event and, with flag 32, try to barge on the inner lock.
ResetEvent(t) ==
  /\ At(t, "reset")
  /\ Event' = [Event EXCEPT ![t] = 0]
  /\ IF 32 \in NativeMonitorFlags /\ InnerFree
       THEN OnDeck' = THREADPTR /\ Goto(t, "OnDeck_LOOP")
       ELSE UNCHANGED OnDeck /\ Goto(t, "AcquireOrPush")
  /\ UNCHANGED <<lockVars, EntryList, waitVars, owner, locals, quiet>>

AcquireOrPush(t, l, pushed) ==
  /\ At(t, l)
  /\ \/ /\ Free
        /\ LockByte' = TRUE
        /\ Goto(t, "set_owner")
        /\ UNCHANGED cxq
     \/ /\ LockByte
        /\ cxq' = Pushed(t)
        /\ Goto(t, pushed)
        /\ UNCHANGED LockByte
  /\ UNCHANGED <<queueVars, waitVars, owner, Event, locals, quiet>>

\* while (_OnDeck != ESelf) ParkCommon (ESelf, 0) ;
AwaitOnDeck(t) ==
  /\ At(t, "awaitOnDeck")
  /\ Goto(t, IF IsOnDeck(t) THEN "OnDeck_LOOP" ELSE "parkAwait")
  /\ UNCHANGED <<lockVars, queueVars, waitVars, owner, Event, locals, quiet>>

\* ParkCommon(): consume the permit, or give up after NativeMonitorTimeout.
ParkCommon(t, l, m) ==
  /\ Step(t, l, m)
  /\ Event[t] = 1 \/ NativeMonitorTimeout
  /\ Event' = [Event EXCEPT ![t] = 0]
  /\ UNCHANGED <<lockVars, queueVars, waitVars, owner, locals, quiet>>

OnDeck_LOOP(t) == TryFastAndSpin(t, "OnDeck_LOOP", "clearOnDeck", "parkOnDeck")

\* Drop the inner lock, having acquired the outer one.
ClearOnDeck_Forgotten(t) ==
  /\ Step(t, "clearOnDeck", "set_owner")
  /\ UNCHANGED <<OnDeck, lockVars, EntryList, waitVars, owner, Event, locals, quiet>>
ClearOnDeck(t) ==
  /\ Step(t, "clearOnDeck", "set_owner")
  /\ OnDeck' = NULL
  /\ UNCHANGED <<lockVars, EntryList, waitVars, owner, Event, locals, quiet>>

\* The lock operation or wait() is complete.  A thread that uses a raw monitor
\* may be foreign to the VM: then it has no Thread and the owner stays null.
SetOwner(t) ==
  /\ Step(t, "set_owner", "cs")
  /\ owner' \in IF ret[t] = "raw" THEN {t, NULL} ELSE {t}
  /\ ret' = [ret EXCEPT ![t] = "idle"]
  /\ WasOnWaitSet' = [WasOnWaitSet EXCEPT ![t] = FALSE]
  /\ timo' = [timo EXCEPT ![t] = FALSE]
  /\ UNCHANGED <<lockVars, queueVars, waitVars, Event, w, List, seen, quiet>>

----------------------------------------------------------------------------
(* IUnlock() and its callers.                                              *)

unlock(t) ==
  /\ Step(t, "cs", "drop")
  /\ owner' = NULL
  /\ UNCHANGED <<lockVars, queueVars, waitVars, Event, locals, quiet>>

Return(t) == Goto(t, ret[t])

\* Store 0 into the LockByte, leaving the cxq; OrderAccess::storeload().
DropLock(t) ==
  /\ Step(t, "drop", "readOnDeck")
  /\ LockByte' = FALSE
  /\ UNCHANGED <<cxq, queueVars, waitVars, owner, Event, locals, quiet>>

\* An OnDeck thread is unparked; an inner lock held by another exiting thread
\* makes that thread responsible for progress.
ReadOnDeck(t) ==
  /\ At(t, "readOnDeck")
  /\ CASE OnDeck = NULL -> Goto(t, "sampleLockWord") /\ UNCHANGED w
       [] OnDeck = LBIT -> Return(t) /\ UNCHANGED w
       [] OTHER -> Goto(t, "unpark") /\ w' = [w EXCEPT ![t] = OnDeck]
  /\ UNCHANGED <<lockVars, queueVars, waitVars, owner, Event, ret, List, seen,
                 WasOnWaitSet, timo, quiet>>

\* w->unpark().  The address of a Thread is no ParkEvent of the model.
Unparked(t) ==
  /\ Event' = [u \in Thread |-> IF u = w[t] THEN Signalled(Event[u]) ELSE Event[u]]
  /\ w' = [w EXCEPT ![t] = NULL]

Unpark(t) ==
  /\ At(t, "unpark")
  /\ Unparked(t)
  /\ Return(t)
  /\ UNCHANGED <<lockVars, queueVars, waitVars, owner, ret, List, seen,
                 WasOnWaitSet, timo, quiet>>

SampleLockWord(t) ==
  /\ Step(t, "sampleLockWord", "sampleEntryList")
  /\ seen' = [seen EXCEPT ![t] = [locked |-> LockByte, empty |-> cxq = <<>>]]
  /\ UNCHANGED <<lockVars, queueVars, waitVars, owner, Event, ret, w, List,
                 WasOnWaitSet, timo, quiet>>

\* Nobody to wake, or the lock was taken since: done.  Otherwise arrange
\* the succession.
SampleEntryList(t) ==
  /\ At(t, "sampleEntryList")
  /\ IF NoSuccession(t)
       THEN Return(t)
       ELSE Goto(t, "Succession")
  /\ seen' = [seen EXCEPT ![t] = NoSample]
  /\ UNCHANGED <<lockVars, queueVars, waitVars, owner, Event, ret, w, List,
                 WasOnWaitSet, timo, quiet>>

\* CAS _OnDeck from null to _LBIT; the inner lock then protects _EntryList.
Succession(t) ==
  /\ At(t, "Succession")
  /\ IF InnerFree
       THEN OnDeck' = LBIT /\ Goto(t, IF EntryList # <<>> THEN "WakeOne" ELSE "drain")
       ELSE UNCHANGED OnDeck /\ Return(t)
  /\ UNCHANGED <<lockVars, EntryList, waitVars, owner, Event, locals, quiet>>

\* Unlink the head of the EntryList ...
WakeOne(t) ==
  /\ Step(t, "WakeOne", "passOnDeck")
  /\ w' = [w EXCEPT ![t] = Head(EntryList)]
  /\ EntryList' = Tail(EntryList)
  /\ UNCHANGED <<lockVars, OnDeck, waitVars, owner, Event, ret, List, seen,
                 WasOnWaitSet, timo, quiet>>

\* ... and pass OnDeck to it.
PassOnDeck(t) ==
  /\ Step(t, "passOnDeck", "recheckLock")
  /\ OnDeck' = w[t]
  /\ UNCHANGED <<lockVars, EntryList, waitVars, owner, Event, locals, quiet>>

\* If the lock has been taken, its holder will unpark the OnDeck thread.
RecheckLock(t) ==
  /\ At(t, "recheckLock")
  /\ IF Delegated
       THEN Return(t) /\ w' = [w EXCEPT ![t] = NULL]
       ELSE Goto(t, "unpark") /\ UNCHANGED w
  /\ UNCHANGED <<lockVars, queueVars, waitVars, owner, Event, ret, List, seen,
                 WasOnWaitSet, timo, quiet>>

\* The EntryList is empty: detach the cxq unless it is empty or locked.
Drain(t) ==
  /\ At(t, "drain")
  /\ IF cxq = <<>> \/ LockByte
       THEN Goto(t, "Punt") /\ UNCHANGED <<cxq, List>>
       ELSE /\ List' = [List EXCEPT ![t] = cxq]
            /\ cxq' = <<>>
            /\ Goto(t, "setEntryList")
  /\ UNCHANGED <<LockByte, queueVars, waitVars, owner, Event, ret, w, seen,
                 WasOnWaitSet, timo, quiet>>

SetEntryList(t) ==
  /\ Step(t, "setEntryList", "WakeOne")
  /\ EntryList' = List[t]
  /\ List' = [List EXCEPT ![t] = <<>>]
  /\ UNCHANGED <<lockVars, OnDeck, waitVars, owner, Event, ret, w, seen,
                 WasOnWaitSet, timo, quiet>>

\* Release the inner lock and ...
Punt(t) ==
  /\ Step(t, "Punt", "resample")
  /\ OnDeck' = NULL
  /\ UNCHANGED <<lockVars, EntryList, waitVars, owner, Event, locals, quiet>>

\* ... look again for a thread that arrived while it was held.
Resample(t) ==
  /\ At(t, "resample")
  /\ IF LateArrival THEN Goto(t, "Succession") ELSE Return(t)
  /\ UNCHANGED <<lockVars, queueVars, waitVars, owner, Event, locals, quiet>>

----------------------------------------------------------------------------
(* notify() and notify_all().                                              *)

notify(t, op) ==
  /\ Begin(t, op, "cs") /\ op \in {"notify", "notify_all"}
  /\ Goto(t, "notify")
  /\ ret' = [ret EXCEPT ![t] = op]
  /\ UNCHANGED <<lockVars, queueVars, waitVars, owner, Event, w, List, seen,
                 WasOnWaitSet, timo, quiet>>

\* The end of notify(), and of the loop body of notify_all().
NotifyReturn(t) ==
  IF ret[t] = "notify_all"
    THEN Goto(t, "notify") /\ UNCHANGED ret
    ELSE Goto(t, "cs") /\ ret' = [ret EXCEPT ![t] = "idle"]

\* The unprotected test of _WaitSet, repeated by notify_all() for each waiter.
NotifyTest(t) ==
  /\ At(t, "notify")
  /\ IF WaitSet = <<>>
       THEN Goto(t, "cs") /\ ret' = [ret EXCEPT ![t] = "idle"]
       ELSE Goto(t, "notifyPop") /\ UNCHANGED ret
  /\ UNCHANGED <<lockVars, queueVars, waitVars, owner, Event, w, List, seen,
                 WasOnWaitSet, timo, quiet>>

\* Take the WaitLock and unlink the head, if the WaitSet still has one.
NotifyPop(t) ==
  /\ At(t, "notifyPop")
  /\ WaitLock = NULL
  /\ IF WaitSet = <<>>
       THEN NotifyReturn(t) /\ UNCHANGED <<w, WaitSet, WaitLock>>
       ELSE /\ Goto(t, "notifyPush")
            /\ WaitLock' = t
            /\ w' = [w EXCEPT ![t] = Head(WaitSet)]
            /\ WaitSet' = WaitSetTail
            /\ UNCHANGED ret
  /\ UNCHANGED <<lockVars, queueVars, Notified, owner, Event, List, seen,
                 WasOnWaitSet, timo, quiet>>

NotifyPush(t) ==
  /\ Step(t, "notifyPush", "notifyFlag")
  /\ cxq' = Pushed(w[t])
  /\ UNCHANGED <<LockByte, queueVars, waitVars, owner, Event, locals, quiet>>

\* Notified = 1 and release the WaitLock; with flag 16 unpark the notifyee too.
NotifyFlag(t) ==
  /\ At(t, "notifyFlag")
  /\ Notified' = [Notified EXCEPT ![w[t]] = TRUE]
  /\ WaitLock' = NULL
  /\ IF 16 \in NativeMonitorFlags
       THEN Goto(t, "notifyUnpark") /\ UNCHANGED <<w, ret>>
       ELSE NotifyReturn(t) /\ w' = [w EXCEPT ![t] = NULL]
  /\ UNCHANGED <<lockVars, queueVars, WaitSet, owner, Event, List, seen,
                 WasOnWaitSet, timo, quiet>>

NotifyUnpark(t) ==
  /\ At(t, "notifyUnpark")
  /\ Unparked(t)
  /\ NotifyReturn(t)
  /\ UNCHANGED <<lockVars, queueVars, waitVars, owner, List, seen,
                 WasOnWaitSet, timo, quiet>>

----------------------------------------------------------------------------
(* wait() and IWait().                                                     *)

wait(t, op) ==
  /\ Begin(t, op, "cs") /\ op \in {"wait", "timed_wait"}
  /\ Goto(t, "waitAdd")
  /\ owner' = NULL
  /\ timo' = [timo EXCEPT ![t] = op = "timed_wait"]
  /\ UNCHANGED <<lockVars, queueVars, waitVars, Event, ret, w, List, seen,
                 WasOnWaitSet, quiet>>

\* Reset the event and join the WaitSet under the WaitLock; then IUnlock().
WaitAdd(t) ==
  /\ Step(t, "waitAdd", "drop")
  /\ WaitLock = NULL
  /\ Notified' = [Notified EXCEPT ![t] = FALSE]
  /\ Event' = [Event EXCEPT ![t] = 0]
  /\ WaitSet' = <<t>> \o WaitSet
  /\ ret' = [ret EXCEPT ![t] = "waitLoop"]
  /\ UNCHANGED <<lockVars, queueVars, WaitLock, owner, w, List, seen,
                 WasOnWaitSet, timo, quiet>>

\* A notified thread leaves the loop, and need not test Notified again.
WaitLoop(t) ==
  /\ At(t, "waitLoop")
  /\ Goto(t, IF Notified[t] THEN "reenter" ELSE "waitPark")
  /\ UNCHANGED <<lockVars, queueVars, waitVars, owner, Event, locals, quiet>>

\* ParkCommon (ESelf, timo): a timeout leaves the loop, a permit stays in it
\* unless flag 1 is set.  A park() that times out takes a permit that comes
\* late with it (Permit!GiveUp).
WaitPark(t) ==
  /\ At(t, "waitPark")
  /\ \/ /\ Event[t] = 1
        /\ Goto(t, IF 1 \in NativeMonitorFlags THEN "waitDone" ELSE "waitLoop")
     \/ /\ timo[t] \/ NativeMonitorTimeout
        /\ Goto(t, "waitDone")
  /\ Event' = [Event EXCEPT ![t] = 0]
  /\ UNCHANGED <<lockVars, queueVars, waitVars, owner, locals, quiet>>

\* The first test of Notified after a timeout.
WaitDone(t) ==
  /\ At(t, "waitDone")
  /\ Goto(t, IF WasNotified(t) THEN "reenter" ELSE "waitUnlink")
  /\ UNCHANGED <<lockVars, queueVars, waitVars, owner, Event, locals, quiet>>

\* The second test, under the WaitLock: unlink and re-enter by ILock(), or
\* re-enter as a notified thread.
WaitUnlink(t) ==
  /\ At(t, "waitUnlink")
  /\ WaitLock = NULL
  /\ IF Notified[t]
       THEN Goto(t, "reenter") /\ UNCHANGED <<WaitSet, WasOnWaitSet>>
       ELSE /\ Unlink(t)
            /\ WasOnWaitSet' = [WasOnWaitSet EXCEPT ![t] = TRUE]
            /\ Goto(t, "ILock")
  /\ UNCHANGED <<lockVars, queueVars, WaitLock, Notified, owner, Event, ret, w,
                 List, seen, timo, quiet>>

\* if (_OnDeck == ESelf && TrySpin(Self)) break ; ParkCommon (ESelf, 0) ;
Reenter(t) ==
  /\ At(t, "reenter")
  /\ \/ IsOnDeck(t) /\ Free /\ LockByte' = TRUE /\ Goto(t, "clearOnDeck")
     \/ (~IsOnDeck(t) \/ LockByte) /\ UNCHANGED LockByte /\ Goto(t, "parkReenter")
  /\ UNCHANGED <<cxq, queueVars, waitVars, owner, Event, locals, quiet>>

\* wait() with as_suspend_equivalent: suspended while it waited, the thread
\* drops the lock, suspends itself and locks again.
SuspendAfterWait(t) ==
  /\ Begin(t, "suspend", "set_owner")
  /\ ret[t] = "waitLoop"
  /\ Goto(t, "drop")
  /\ ret' = [ret EXCEPT ![t] = "suspended"]
  /\ UNCHANGED <<lockVars, queueVars, waitVars, owner, Event, w, List, seen,
                 WasOnWaitSet, timo, quiet>>

\* java_suspend_self() returns.
Resumed(t) ==
  /\ Step(t, "suspended", "ILock")
  /\ UNCHANGED <<lockVars, queueVars, waitVars, owner, Event, locals, quiet>>

----------------------------------------------------------------------------

\* The clients start no more operations; those in progress run on.
Quiesce ==
  /\ "quiesce" \in Ops /\ ~quiet
  /\ quiet' = TRUE
  /\ UNCHANGED <<lockVars, queueVars, waitVars, owner, Event, pc, locals>>

Park(t) ==
  \/ ParkCommon(t, "parkAwait", "awaitOnDeck")
  \/ ParkCommon(t, "parkOnDeck", "OnDeck_LOOP")
  \/ ParkCommon(t, "parkReenter", "reenter")

\* The steps of a thread inside an operation.
Run(t) ==
  \/ ILock(t) \/ ResetEvent(t) \/ RawReset(t)
  \/ AcquireOrPush(t, "AcquireOrPush", "awaitOnDeck")
  \/ AcquireOrPush(t, "rawPush", "reenter")
  \/ AwaitOnDeck(t) \/ Park(t) \/ OnDeck_LOOP(t) \/ ClearOnDeck(t) \/ SetOwner(t)
  \/ unlock(t) \/ DropLock(t) \/ ReadOnDeck(t) \/ Unpark(t)
  \/ SampleLockWord(t) \/ SampleEntryList(t) \/ Succession(t)
  \/ WakeOne(t) \/ PassOnDeck(t) \/ RecheckLock(t)
  \/ Drain(t) \/ SetEntryList(t) \/ Punt(t) \/ Resample(t)
  \/ NotifyTest(t) \/ NotifyPop(t) \/ NotifyPush(t) \/ NotifyFlag(t)
  \/ NotifyUnpark(t)
  \/ WaitAdd(t) \/ WaitLoop(t) \/ WaitPark(t) \/ WaitDone(t) \/ WaitUnlink(t)
  \/ Reenter(t)

\* The operations a client may start, and the suspension of a thread.
Call(t) ==
  \/ lock(t) \/ try_lock(t) \/ jvm_raw_lock(t)
  \/ SuspendAfterWait(t) \/ Resumed(t)
  \/ \E op \in Ops : notify(t, op) \/ wait(t, op)

Next == Quiesce \/ \E t \in Thread : Run(t) \/ Call(t)

Spec == Init /\ [][Next]_vars

\* Every thread keeps running, and leaves its critical section.
FairSpec == Spec /\ \A t \in Thread : WF_vars(Run(t))

----------------------------------------------------------------------------
(* Properties.                                                             *)

\* The points of mutex.cpp at which a thread has the outer lock.
Locked == { "clearOnDeck", "set_owner", "cs", "drop", "waitAdd", "notify",
            "notifyPop", "notifyPush", "notifyFlag", "notifyUnpark" }

\* The points of IUnlock() at which a thread has locked _OnDeck with _LBIT.
Inner == { "WakeOne", "passOnDeck", "drain", "setEntryList",
           "Punt" }

\* The points of IUnlock() after the lock is dropped.
Releasing == Inner \cup { "readOnDeck", "sampleLockWord", "sampleEntryList",
                          "Succession", "recheckLock", "unpark", "resample" }

\* The points at which ILock() believes its thread to be the heir presumptive.
HeirPresumptive == { "OnDeck_LOOP", "parkOnDeck", "clearOnDeck" }

HasLock(t) == pc[t] \in Locked

\* The LockByte is set exactly while a thread has the lock, and never two have
\* it: across the barging fast path, AcquireOrPush(), the OnDeck thread and the
\* re-entry after wait() (TryLock, TryFast, TrySpin, AcquireOrPush, ILock).
MutualExclusion ==
  /\ LockByte <=> \E t \in Thread : HasLock(t)
  /\ \A t, u \in Thread : HasLock(t) /\ HasLock(u) => t = u

\* _OnDeck is a lock on the lists: _LBIT is there exactly while one exiting
\* thread arranges the succession ("only one concurrent consumer").
OneConsumer ==
  /\ OnDeck = LBIT <=> \E t \in Thread : pc[t] \in Inner
  /\ \A t, u \in Thread : pc[t] \in Inner /\ pc[u] \in Inner => t = u

\* The assertions _OnDeck == ESelf of ILock(): a thread in the OnDeck loop, or
\* past it, is the heir presumptive.
OnDeckIsSelf ==
  \A t \in Thread : pc[t] \in HeirPresumptive => OnDeck = t

\* "Once OnDeck, a thread stays OnDeck until it acquires the lock": no step
\* takes the position from a thread but its own, made with the lock.
OnDeckStable ==
  [][\A t \in Thread :
       OnDeck = t /\ OnDeck' # t => HasLock(t) /\ OnDeck' = NULL]_vars

\* The ParkEvents taken off a list and not yet put on the next one.
InTransit(t) == CASE pc[t] = "passOnDeck" -> <<w[t]>>
                  [] pc[t] = "notifyPush" -> <<w[t]>>
                  [] OTHER -> List[t]

Listed == Range(cxq) \cup Range(EntryList) \cup Range(WaitSet)

\* "A thread can appear on at most one list": the cxq, the EntryList, the
\* WaitSet, a detached segment; and the OnDeck thread is on none.  With
\* one ListNext field per ParkEvent, anything else corrupts a list.
AtMostOneList ==
  /\ IsInjective(cxq) /\ IsInjective(EntryList) /\ IsInjective(WaitSet)
  /\ Range(cxq) \cap Range(EntryList) = {}
  /\ Range(WaitSet) \cap (Range(cxq) \cup Range(EntryList)) = {}
  /\ OnDeck \notin Listed
  /\ \A t \in Thread :
       /\ IsInjective(InTransit(t))
       /\ Range(InTransit(t)) \cap (Listed \cup {OnDeck}) = {}
       /\ \A u \in Thread \ {t} : Range(InTransit(t)) \cap Range(InTransit(u)) = {}

\* The assertions w != Thread::current()->_MutexEvent: outside wait() a thread
\* that unlocks finds itself neither OnDeck nor at the head of the EntryList.
NeverOwnSuccessor ==
  \A t \in Thread : pc[t] \in Releasing /\ ret[t] = "idle" => w[t] # t

\* A thread inside IWait() that has left its critical section.
InWait(t) ==
  \/ pc[t] \in {"waitLoop", "waitPark", "waitDone", "waitUnlink"}
  \/ pc[t] \in Releasing /\ ret[t] = "waitLoop"

\* No notification is lost and none is invented: a waiter is on the WaitSet or
\* in the hands of the notifier until it is Notified, and from then on it is
\* queued for the lock; wait() returns "timed out" exactly to the
\* threads no notify() has chosen, though a timeout races with notify().
NotificationsKept ==
  \A t \in Thread :
    /\ InWait(t) /\ ~Notified[t] =>
         t \in Range(WaitSet) \/ \E u \in Thread :
             w[u] = t /\ pc[u] \in {"notifyPush", "notifyFlag"}
    /\ InWait(t) /\ Notified[t] =>
         \/ OnDeck = t \/ t \in Range(cxq \o EntryList)
         \/ \E u \in Thread : t \in Range(InTransit(u))
    /\ pc[t] = "set_owner" /\ ret[t] \in {"waitLoop", "suspended"} =>
         WasOnWaitSet[t] = ~Notified[t]

\* A thread that the permit of its ParkEvent, or its own steps, let run.
Runs(t) == Event[t] = 1 \/ pc[t] \notin {"parkAwait", "parkOnDeck", "waitPark", "parkReenter"}

\* No stranding: when the lock is free and a thread is queued for it, someone
\* is about to wake a successor or the OnDeck thread is awake.
NoStranding ==
  ~LockByte /\ (cxq \o EntryList # <<>> \/ OnDeck # NULL) =>
    \/ \E t \in Thread : pc[t] \in Releasing
    \/ \E t \in Thread : OnDeck = t /\ Runs(t)

\* A thread that may stop: outside the monitor, suspended, or in an untimed
\* wait() that nobody has notified.
AtRest(t) ==
  \/ pc[t] \in {"idle", "suspended"}
  \/ pc[t] = "waitPark" /\ ~Notified[t] /\ ~timo[t]

\* Once the clients start nothing new, every lock(), every timed wait() and
\* every notified wait() completes: no wakeup is lost between park() and unpark().
EveryoneServed == quiet ~> \A t \in Thread : AtRest(t)

----------------------------------------------------------------------------
(* The monitor the clients see.                                            *)

Holder == IF \E t \in Thread : HasLock(t)
            THEN CHOOSE t \in Thread : HasLock(t) ELSE NULL

\* A thread that still has the lock waits only once it has released it.
Waiting == {t \in Range(WaitSet) : ~HasLock(t)}

Abs == INSTANCE AbstractMonitor WITH holder <- Holder, waiting <- Waiting

\* mutex.cpp implements a monitor: the lock changes hands only through its
\* being free, wait() gives it up and starts to wait in one step, only the
\* holder ends the wait of another thread, and a waiter cannot take the lock.
ImplementsMonitor == Abs!AbsSpec

=============================================================================
