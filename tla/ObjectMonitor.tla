--------------------------- MODULE ObjectMonitor ---------------------------
(***************************************************************************)
(* The monitor of a Java object (class ObjectMonitor, runtime/             *)
(* synchronizer.cpp): enter(), exit(), the 1-0 exit of compiled code       *)
(* (Fast_Unlock, x86_32.ad), wait(), notify(), notifyAll(),                *)
(* complete_exit() and reenter(), with spinning, the succession protocol   *)
(* (_succ, _Responsible), Thread.interrupt() and external suspension.      *)
(*                                                                         *)
(* Every access to a word that threads share without a lock is a step; a   *)
(* CAS loop is the one step at which its CAS succeeds, unless the code     *)
(* does something on failure.  The lists only the owner may change are     *)
(* sequences.  A thread stands for its ObjectWaiter and its _ParkEvent: it *)
(* has never more than one node on a list.                                 *)
(*                                                                         *)
(* The program counter names the point of synchronizer.cpp a thread has    *)
(* reached; "out" is a thread outside the monitor, "in" one that holds it  *)
(* and runs Java code.                                                     *)
(***************************************************************************)
EXTENDS Integers, Sequences, Functions

CONSTANTS
  Thread,
  NULL,
  Settings        \* the settings to choose from

\* The settings of -XX:SyncKnobs that the model has; Knob_SuccEnabled, Knob_ResetEvent
\* and -XX:SyncFlags have their defaults.  And what bounds the model: the rounds of
\* spinning that admission control lets happen, what each thread may do with
\* the monitor once it holds it, how often threads enter from outside, how deep
\* they enter again, how many interrupts and suspensions there are.
Setting ==
  [ ExitPolicy : {0, 1}, QMode : 0..4, MoveNotifyee : 0..4,
    SpinAt : SUBSET {"contend", "reset", "futile", "rPark"},
    Ops : [Thread -> SUBSET {"nothing", "wait", "timed_wait", "notify",
                             "notifyAll", "complete_exit"}],
    MaxCalls : Nat, MaxRecursions : Nat, MaxEvents : Nat ]

\* The address of t's BasicLock: the owner of a monitor that a contender
\* inflated while t held the lock on its stack.
BasicLock(t) == <<"BasicLock", t>>

\* Addresses of threads and of BasicLocks are different and not NULL.
ASSUME ConstantsAssumption ==
  /\ NULL \notin Thread /\ Settings \subseteq Setting
  /\ \A t \in Thread : BasicLock(t) \notin Thread \cup {NULL}

VARIABLES
  owner,        \* _owner: a thread, its BasicLock, or NULL
  recursions,   \* _recursions
  cxq,          \* _cxq: the recently arrived threads, newest first
  EntryList,    \* _EntryList
  succ,         \* _succ: the heir presumptive
  Responsible,  \* _Responsible: the thread that polls against stranding
  count,        \* _count: contenders, a reason not to deflate
  waiters,      \* _waiters
  WaitSet,      \* _WaitSet, oldest first
  WaitSetLock,  \* whether a notifier holds _WaitSetLock
  TState,       \* ObjectWaiter::TState
  notified,     \* ObjectWaiter::_notified
  event,        \* the permit of _ParkEvent
  interrupted,  \* OSThread::interrupted()
  signalled,    \* the threads whose interrupter has yet to unpark them
  suspended,    \* JavaThread::is_external_suspend()
  set,          \* the settings DeferredInitialize() found, and the bounds
  pc,
  ret,          \* local: the caller TrySpin() or exit() returns to
  op,           \* what the thread will do, or is doing, with the monitor
  other,        \* local: nxt of EnterI(), Wakee of ExitEpilog(), iterator
  save,         \* local: the recursions wait() or complete_exit() gave up
  WasNotified,  \* local of wait()
  calls, events \* what is left of the bounds

lockVars  == <<owner, recursions>>
queueVars == <<cxq, EntryList, TState>>
heirVars  == <<succ, Responsible>>
busyVars  == <<count, waiters>>
waitVars  == <<WaitSet, WaitSetLock, notified>>
envVars   == <<interrupted, signalled, suspended, set, events>>
locals    == <<ret, op, other, save, WasNotified, calls>>
vars      == <<lockVars, queueVars, heirVars, busyVars, waitVars, event,
               envVars, pc, locals>>

Label ==
  { "out", "in", "enter", "contend", "EnterI", "reset", "readCxq", "push",
    "pushRetry", "resp", "respCas", "loop", "choose", "park", "timedPark",
    "woken", "futile", "futileClear", "unlink", "egress", "egressClear",
    "responsible", "suspendCheck", "selfSuspend",
    "spin", "setSucc", "spinning", "spun", "spunClear", "abort", "abortClear",
    "abortTry",
    "exit", "drop", "dropRatify", "ratify", "ldEntryList", "ldCxq", "ldSucc",
    "recas", "select", "abdicate", "epilog", "epilogDrop", "unpark",
    "fastDrop",
    "waitAdd", "repost", "waitTest", "waitNotified",
    "waitPark", "waitSuspend", "waitSuspended", "waitState", "waitUnlink",
    "waitSucc", "waitSuccClear", "waitReenter", "waitEnd",
    "ReenterI", "rPark", "rSuspend", "rSuspendClear", "rSuspended", "rTry",
    "notify", "notifyFlag", "notifyPlace", "notifyAll", "allState", "allPlace", "allNext",
    "reenter", "reentered" }

TypeOK ==
  /\ owner \in Thread \cup {NULL} \cup {BasicLock(t) : t \in Thread}
  /\ recursions \in Nat
  /\ cxq \in Seq(Thread) /\ EntryList \in Seq(Thread) /\ WaitSet \in Seq(Thread)
  /\ succ \in Thread \cup {NULL} /\ Responsible \in Thread \cup {NULL}
  /\ count \in Nat /\ waiters \in Nat
  /\ WaitSetLock \in BOOLEAN
  /\ TState \in [Thread -> {"TS_RUN", "TS_WAIT", "TS_ENTER", "TS_CXQ"}]
  /\ notified \in [Thread -> BOOLEAN]
  /\ event \in [Thread -> {0, 1}]
  /\ interrupted \in [Thread -> BOOLEAN] /\ suspended \in [Thread -> BOOLEAN]
  /\ signalled \subseteq Thread
  /\ set \in Settings
  /\ pc \in [Thread -> Label]
  /\ ret \in [Thread -> Label]
  /\ op \in [Thread -> {"nothing", "wait", "timed_wait", "notify", "notifyAll",
                       "complete_exit", "waiting", "timed_waiting", "reentering"}]
  /\ other \in [Thread -> Thread \cup {NULL}]
  /\ save \in [Thread -> Nat]
  /\ WasNotified \in [Thread -> BOOLEAN]
  /\ calls \in Nat /\ events \in Nat

\* inflate(): the new monitor is free, or belongs to the BasicLock of the
\* thread that had the object stack-locked.
Init ==
  /\ set \in Settings
  /\ \E t \in Thread :
       /\ pc \in {[u \in Thread |-> "out"],
                  [u \in Thread |-> IF u = t THEN "in" ELSE "out"]}
       /\ owner = IF pc[t] = "in" THEN BasicLock(t) ELSE NULL
       /\ \E o \in set.Ops[t] : op = [u \in Thread |-> IF pc[u] = "in" THEN o ELSE "nothing"]
  /\ recursions = 0 /\ cxq = <<>> /\ EntryList = <<>> /\ WaitSet = <<>>
  /\ succ = NULL /\ Responsible = NULL /\ count = 0 /\ waiters = 0
  /\ WaitSetLock = FALSE
  /\ TState = [t \in Thread |-> "TS_RUN"]
  /\ notified = [t \in Thread |-> FALSE]
  /\ event = [t \in Thread |-> 0]
  /\ interrupted = [t \in Thread |-> FALSE]
  /\ suspended = [t \in Thread |-> FALSE]
  /\ signalled = {}
  /\ ret = [t \in Thread |-> "out"]
  /\ other = [t \in Thread |-> NULL]
  /\ save = [t \in Thread |-> 0]
  /\ WasNotified = [t \in Thread |-> FALSE]
  /\ calls = set.MaxCalls /\ events = set.MaxEvents

At(t, l)      == pc[t] = l
Goto(t, l)    == pc' = [pc EXCEPT ![t] = l]
Step(t, l, m) == At(t, l) /\ Goto(t, m)

----------------------------------------------------------------------------
(* The tests and updates the operations are made of.  The definitions      *)
(* named X_... are plausible errors in X: none is used here, each shows    *)
(* that a property depends on X.                                           *)

\* Atomic::cmpxchg_ptr (Self, &_owner, NULL)
Acquired_Unchecked(t) == owner' = t
Acquired(t) == owner = NULL /\ owner' = t

\* The owner becomes the thread when it was the thread's BasicLock.  Only the owner
\* calls: anybody else has IllegalMonitorStateException, and changes nothing.
Transmuted(t) == owner' = t

\* Where enter() returns: to Java code, to wait() or to reenter().
Entered(t) ==
  CASE op[t] \in {"waiting", "timed_waiting"} -> "waitEnd"
    [] op[t] = "reentering" -> "reentered"
    [] OTHER -> "in"

\* The head of the _cxq, as a pointer.
TopOfCxq == IF cxq = <<>> THEN NULL ELSE Head(cxq)

\* nxt == NULL && _EntryList == NULL: the thread is the first contender.
OnsetOfContention_Never(t) == FALSE
OnsetOfContention(t) == other[t] = NULL /\ EntryList = <<>>

\* Atomic::inc_ptr(&_count)
Contended_Not == count
Contended == count + 1

\* _recursions != 0: this exit() is not the last one.
Nested == recursions # 0

\* _succ is null: exit() must find a successor.
NoHeir == succ = NULL

\* unpark()
Unparked(w) == [event EXCEPT ![w] = 1]

\* The _cxq, oldest first.
Reversed(s) == [i \in 1..Len(s) |-> s[Len(s) - i + 1]]

\* The threads drained from the _cxq join the EntryList: policy Knob_QMode.
Drained ==
  CASE set.QMode = 1 -> Reversed(cxq)
    [] set.QMode = 3 -> EntryList \o cxq
    [] set.QMode = 4 -> cxq \o EntryList
    [] OTHER -> cxq

\* A list with the node of t unlinked, wherever it is.
Without(s, t) ==
  IF t \in Range(s)
    THEN LET k == CHOOSE i \in DOMAIN s : s[i] = t
         IN  [i \in 1..Len(s)-1 |-> IF i < k THEN s[i] ELSE s[i+1]]
    ELSE s

\* UnlinkAfterAcquire(): off the list that TState names.
Unlinked_FromEntryList(t) ==
  /\ EntryList' = Without(EntryList, t) /\ UNCHANGED cxq
Unlinked(t) ==
  IF TState[t] = "TS_ENTER"
    THEN EntryList' = Without(EntryList, t) /\ UNCHANGED cxq
    ELSE cxq' = Without(cxq, t) /\ UNCHANGED EntryList

\* if (_Responsible == Self) _Responsible = NULL
Resigned(t) == IF Responsible = t THEN NULL ELSE Responsible

\* The recursions a thread has again after wait().
Restored_Fresh(t) == 0
Restored(t) == save[t]

\* The loops of EnterI() and ReenterI(), and where they return; ReenterI() spins
\* before it parks, EnterI() after a futile wakeup.
Loop(t)   == IF ret[t] = "rPark" THEN "ReenterI" ELSE "loop"
Egress(t) == IF ret[t] = "rPark" THEN "waitEnd" ELSE "responsible"

----------------------------------------------------------------------------
(* TryLock() and TrySpin().                                                *)

TryLock(t, l, acquired, lost) ==
  /\ At(t, l)
  /\ \/ Acquired(t) /\ Goto(t, acquired)
     \/ owner # NULL /\ UNCHANGED owner /\ Goto(t, lost)
  /\ UNCHANGED <<recursions, queueVars, heirVars, busyVars, waitVars, event,
                 envVars, locals>>

\* TrySpin() has the lock; ret says where it would have gone without it.
SpinWon(t) ==
  CASE ret[t] = "contend" -> Entered(t)
    [] ret[t] = "reset" -> "suspendCheck"
    [] OTHER -> "unlink"

\* The first probes; then the thread may be refused to spin, or it makes
\* itself the heir if there is none.
TrySpin(t) ==
  /\ At(t, "spin")
  /\ \/ Acquired(t) /\ Goto(t, SpinWon(t))
     \/ /\ owner # NULL /\ UNCHANGED owner
        /\ \/ Goto(t, ret[t])
           \/ /\ ret[t] \in set.SpinAt
              /\ Goto(t, IF succ = NULL THEN "setSucc" ELSE "spinning")
  /\ UNCHANGED <<recursions, queueVars, heirVars, busyVars, waitVars, event,
                 envVars, locals>>

SetSucc(t) ==
  /\ Step(t, "setSucc", "spinning")
  /\ succ' = t
  /\ UNCHANGED <<lockVars, queueVars, Responsible, busyVars, waitVars, event,
                 envVars, locals>>

\* The loop: the lock is there, or the owner is still there, or the thread
\* has spun long enough (or a safepoint is pending, or the owner changed).
Spin(t) ==
  /\ At(t, "spinning")
  /\ \/ Acquired(t) /\ Goto(t, "spun")
     \/ owner # NULL /\ succ = NULL /\ UNCHANGED owner /\ Goto(t, "setSucc")
     \/ UNCHANGED owner /\ Goto(t, "abort")
  /\ UNCHANGED <<recursions, queueVars, heirVars, busyVars, waitVars, event,
                 envVars, locals>>

\* if (_succ == Self) _succ = NULL: a test and a store.
IsHeir_Never(t) == FALSE
IsHeir(t) == succ = t

TestSucc(t, l, clear, next) ==
  /\ At(t, l)
  /\ Goto(t, IF IsHeir(t) THEN clear ELSE next)
  /\ UNCHANGED <<lockVars, queueVars, heirVars, busyVars, waitVars, event,
                 envVars, locals>>

ClearSucc(t, l, next) ==
  /\ Step(t, l, next)
  /\ succ' = NULL
  /\ UNCHANGED <<lockVars, queueVars, Responsible, busyVars, waitVars, event,
                 envVars, locals>>

SpinSteps(t) ==
  \/ TrySpin(t) \/ SetSucc(t) \/ Spin(t)
  \/ TestSucc(t, "spun", "spunClear", SpinWon(t))
  \/ ClearSucc(t, "spunClear", SpinWon(t))
  \/ TestSucc(t, "abort", "abortClear", ret[t])
  \/ ClearSucc(t, "abortClear", "abortTry")
  \/ TryLock(t, "abortTry", SpinWon(t), ret[t])

----------------------------------------------------------------------------
(* enter() and EnterI().                                                   *)

\* The CAS at the top of enter(); on contention a first round of spinning.
EnterCas(t) ==
  \/ Acquired(t) /\ Goto(t, Entered(t)) /\ UNCHANGED ret
  \/ /\ owner # NULL /\ UNCHANGED owner
     /\ Goto(t, "spin") /\ ret' = [ret EXCEPT ![t] = "contend"]

\* A thread outside the monitor enters it, to do o there.
enter(t, o) ==
  /\ At(t, "out") /\ calls > 0
  /\ op' = [op EXCEPT ![t] = o]
  /\ calls' = calls - 1
  /\ EnterCas(t)
  /\ UNCHANGED <<recursions, queueVars, heirVars, busyVars, waitVars, event,
                 envVars, other, save, WasNotified>>

\* wait() and reenter() call enter().
Enter(t) ==
  /\ At(t, "enter") \/ At(t, "reenter")
  /\ EnterCas(t)
  /\ UNCHANGED <<recursions, queueVars, heirVars, busyVars, waitVars, event,
                 envVars, op, other, save, WasNotified, calls>>

\* The owner enters again; its BasicLock counted as the first entry.
enterAgain(t) ==
  /\ At(t, "in") /\ op[t] # "nothing" /\ recursions < set.MaxRecursions
  /\ Transmuted(t)
  /\ recursions' = IF owner = BasicLock(t) THEN 1 ELSE recursions + 1
  /\ UNCHANGED <<queueVars, heirVars, busyVars, waitVars, event, envVars, pc,
                 locals>>

\* Contention: _count keeps the monitor from being deflated.  Then EnterI(), to
\* which a thread also comes back that was suspended.
EnterI(t) ==
  /\ \/ At(t, "contend") /\ count' = Contended
     \/ At(t, "EnterI") /\ UNCHANGED count
  /\ \/ Acquired(t) /\ Goto(t, "suspendCheck") /\ UNCHANGED ret
     \/ /\ owner # NULL /\ UNCHANGED owner
        /\ Goto(t, "spin") /\ ret' = [ret EXCEPT ![t] = "reset"]
  /\ UNCHANGED <<recursions, queueVars, heirVars, waiters, waitVars, event,
                 envVars, op, other, save, WasNotified, calls>>

\* A node for the _cxq, with the event reset.
Reset(t) ==
  /\ Step(t, "reset", "readCxq")
  /\ event' = [event EXCEPT ![t] = 0]
  /\ TState' = [TState EXCEPT ![t] = "TS_CXQ"]
  /\ UNCHANGED <<lockVars, cxq, EntryList, heirVars, busyVars, waitVars,
                 envVars, locals>>

ReadCxq(t) ==
  /\ Step(t, "readCxq", "push")
  /\ other' = [other EXCEPT ![t] = TopOfCxq]
  /\ UNCHANGED <<lockVars, queueVars, heirVars, busyVars, waitVars, event,
                 envVars, ret, op, save, WasNotified, calls>>

\* The CAS that pushes the node; when it fails the lock is tried once more.
Push(t) ==
  /\ At(t, "push")
  /\ IF TopOfCxq = other[t]
       THEN /\ cxq' = <<t>> \o cxq
            /\ ret' = [ret EXCEPT ![t] = "futile"]
            /\ Goto(t, "resp")
       ELSE Goto(t, "pushRetry") /\ UNCHANGED <<cxq, ret>>
  /\ UNCHANGED <<lockVars, EntryList, TState, heirVars, busyVars, waitVars,
                 event, envVars, op, other, save, WasNotified, calls>>

PushRetry(t) ==
  /\ At(t, "pushRetry")
  /\ \/ /\ Acquired(t) /\ Goto(t, "suspendCheck")
        /\ TState' = [TState EXCEPT ![t] = "TS_RUN"]
     \/ owner # NULL /\ UNCHANGED <<owner, TState>> /\ Goto(t, "readCxq")
  /\ other' = [other EXCEPT ![t] = NULL]
  /\ UNCHANGED <<recursions, cxq, EntryList, heirVars, busyVars, waitVars,
                 event, envVars, ret, op, save, WasNotified, calls>>

\* The first contender tries to become the responsible thread.
TestOnset(t) ==
  /\ At(t, "resp")
  /\ Goto(t, IF OnsetOfContention(t) THEN "respCas" ELSE "loop")
  /\ other' = [other EXCEPT ![t] = NULL]
  /\ UNCHANGED <<lockVars, queueVars, heirVars, busyVars, waitVars, event,
                 envVars, ret, op, save, WasNotified, calls>>

AssumeResponsibility(t) ==
  /\ Step(t, "respCas", "loop")
  /\ Responsible' = IF Responsible = NULL THEN t ELSE Responsible
  /\ UNCHANGED <<lockVars, queueVars, succ, busyVars, waitVars, event, envVars,
                 locals>>

\* Only the responsible thread parks with a timeout.
ChoosePark(t) ==
  /\ At(t, "choose")
  /\ Goto(t, IF Responsible = t THEN "timedPark" ELSE "park")
  /\ UNCHANGED <<lockVars, queueVars, heirVars, busyVars, waitVars, event,
                 envVars, locals>>

\* _ParkEvent->park(): consume the permit, or give up when the time is over.
Park(t, l, timed, next) ==
  /\ Step(t, l, next)
  /\ event[t] = 1 \/ timed
  /\ event' = [event EXCEPT ![t] = 0]
  /\ UNCHANGED <<lockVars, queueVars, heirVars, busyVars, waitVars, envVars,
                 locals>>

Unlink(t) ==
  /\ Step(t, "unlink", "egress")
  /\ Unlinked(t)
  /\ TState' = [TState EXCEPT ![t] = "TS_RUN"]
  /\ UNCHANGED <<lockVars, heirVars, busyVars, waitVars, event, envVars, locals>>

\* EnterI() is about to return, and a thread that was queued is no longer the
\* responsible one; a thread that is suspended does not enter, it gives the
\* lock back and suspends itself (ExitSuspendEquivalent).
EnterEnd(t) ==
  /\ At(t, "responsible") \/ At(t, "suspendCheck")
  /\ Responsible' = IF At(t, "responsible") THEN Resigned(t) ELSE Responsible
  /\ IF suspended[t]
       THEN /\ recursions' = 0 /\ succ' = NULL
            /\ ret' = [ret EXCEPT ![t] = "selfSuspend"]
            /\ Goto(t, "exit")
            /\ UNCHANGED count
       ELSE /\ count' = count - 1
            /\ ret' = [ret EXCEPT ![t] = "out"]
            /\ Goto(t, Entered(t))
            /\ UNCHANGED <<recursions, succ>>
  /\ UNCHANGED <<owner, queueVars, waiters, waitVars, event, envVars, op, other,
                 save, WasNotified, calls>>

\* java_suspend_self(), until java_resume().
SelfSuspended(t, l, next) ==
  /\ ~suspended[t]
  /\ Step(t, l, next)
  /\ UNCHANGED <<lockVars, queueVars, heirVars, busyVars, waitVars, event,
                 envVars, locals>>

EnterSteps(t) ==
  \/ Enter(t) \/ EnterI(t) \/ Reset(t) \/ ReadCxq(t) \/ Push(t)
  \/ PushRetry(t) \/ TestOnset(t) \/ AssumeResponsibility(t)
  \/ TryLock(t, "loop", "unlink", "choose") \/ ChoosePark(t)
  \/ Park(t, "park", FALSE, "woken") \/ Park(t, "timedPark", TRUE, "woken")
  \/ TryLock(t, "woken", "unlink", "spin")
  \/ TestSucc(t, "futile", "futileClear", Loop(t))
  \/ ClearSucc(t, "futileClear", Loop(t))
  \/ Unlink(t)
  \/ TestSucc(t, "egress", "egressClear", Egress(t))
  \/ ClearSucc(t, "egressClear", Egress(t))
  \/ EnterEnd(t) \/ SelfSuspended(t, "selfSuspend", "EnterI")

----------------------------------------------------------------------------
(* exit(), ExitEpilog() and the exit of compiled code.                     *)

Return(t) == Goto(t, ret[t])

\* monitorexit, or the call of exit() by wait(), complete_exit() and a
\* suspended enter().
exit(t) ==
  /\ \/ At(t, "in") /\ op[t] = "nothing" /\ ret' = [ret EXCEPT ![t] = "out"]
     \/ At(t, "exit") /\ UNCHANGED ret
  /\ Transmuted(t)
  /\ IF Nested
       THEN recursions' = recursions - 1 /\ UNCHANGED <<Responsible, pc>>
       ELSE Responsible' = NULL /\ Goto(t, "drop") /\ UNCHANGED recursions
  /\ UNCHANGED <<queueVars, succ, busyVars, waitVars, event, envVars, op, other,
                 save, WasNotified, calls>>

\* Drop the lock at once, or with Knob_ExitPolicy only if nobody needs waking.
Drop(t) ==
  /\ At(t, "drop")
  /\ IF set.ExitPolicy = 0
       THEN owner' = NULL /\ Goto(t, "ldEntryList")
       ELSE /\ UNCHANGED owner
            /\ Goto(t, IF cxq \o EntryList = <<>> \/ ~NoHeir
                         THEN "dropRatify" ELSE "select")
  /\ UNCHANGED <<recursions, queueVars, heirVars, busyVars, waitVars, event,
                 envVars, locals>>

DropRatify(t) ==
  /\ Step(t, "dropRatify", "ratify")
  /\ owner' = NULL
  /\ UNCHANGED <<recursions, queueVars, heirVars, busyVars, waitVars, event,
                 envVars, locals>>

\* With the lock dropped: three loads that decide whether to wake somebody.
Load(t, l, needed, next, otherwise) ==
  /\ At(t, l)
  /\ Goto(t, IF needed THEN next ELSE otherwise)
  /\ UNCHANGED <<lockVars, queueVars, heirVars, busyVars, waitVars, event,
                 envVars, locals>>

\* Retake the lock, only an owner may touch the lists; whoever took it in
\* the meantime has the duty now.
Reacquire(t) == TryLock(t, "recas", "select", ret[t])

\* The node to wake; the lock is still held.
Wake(t, w) == other' = [other EXCEPT ![t] = w] /\ Goto(t, "epilog")

Drain ==
  /\ EntryList' = Drained /\ cxq' = <<>>
  /\ TState' = [t \in Thread |-> IF t \in Range(cxq) THEN "TS_ENTER" ELSE TState[t]]

\* Choose the successor, draining the _cxq as Knob_QMode says.
Select(t) ==
  /\ At(t, "select")
  /\ CASE set.QMode = 2 /\ cxq # <<>> ->
            Wake(t, Head(cxq)) /\ UNCHANGED queueVars
       [] set.QMode \in {3, 4} /\ cxq # <<>> -> Drain /\ Wake(t, Head(Drained))
       [] EntryList # <<>> /\ ~(set.QMode \in {2, 3, 4} /\ cxq # <<>>) ->
            Wake(t, Head(EntryList)) /\ UNCHANGED queueVars
       [] EntryList = <<>> /\ cxq = <<>> ->
            Goto(t, "drop") /\ UNCHANGED <<queueVars, other>>
       [] OTHER -> Drain /\ Goto(t, "abdicate") /\ UNCHANGED other
  /\ UNCHANGED <<lockVars, heirVars, busyVars, waitVars, event, envVars, ret, op,
                 save, WasNotified, calls>>

\* A spinner that became the heir makes the wakeup unnecessary.
Abdicate(t) ==
  /\ At(t, "abdicate")
  /\ IF NoHeir
       THEN Wake(t, Head(EntryList))
       ELSE Goto(t, "drop") /\ UNCHANGED other
  /\ UNCHANGED <<lockVars, queueVars, heirVars, busyVars, waitVars, event,
                 envVars, ret, op, save, WasNotified, calls>>

\* ExitEpilog(): name the heir, drop the lock, unpark the heir.
NameHeir(t) ==
  /\ Step(t, "epilog", "epilogDrop")
  /\ succ' = other[t]
  /\ UNCHANGED <<lockVars, queueVars, Responsible, busyVars, waitVars, event,
                 envVars, locals>>

EpilogDrop(t) ==
  /\ Step(t, "epilogDrop", "unpark")
  /\ owner' = NULL
  /\ UNCHANGED <<recursions, queueVars, heirVars, busyVars, waitVars, event,
                 envVars, locals>>

Unpark(t) ==
  /\ At(t, "unpark") /\ Return(t)
  /\ event' = Unparked(other[t])
  /\ other' = [other EXCEPT ![t] = NULL]
  /\ UNCHANGED <<lockVars, queueVars, heirVars, busyVars, waitVars, envVars, ret,
                 op, save, WasNotified, calls>>

\* Compiled code drops the lock without a barrier or a second look when it
\* finds nobody queued; else, or with recursions, it calls exit().
Fast_Unlock(t) ==
  /\ Step(t, "in", "fastDrop") /\ op[t] = "nothing"
  /\ owner = t /\ recursions = 0 /\ cxq \o EntryList = <<>>
  /\ UNCHANGED <<lockVars, queueVars, heirVars, busyVars, waitVars, event,
                 envVars, locals>>

FastDrop(t) ==
  /\ Step(t, "fastDrop", "out")
  /\ owner' = NULL
  /\ UNCHANGED <<recursions, queueVars, heirVars, busyVars, waitVars, event,
                 envVars, locals>>

\* complete_exit(): all recursions at once, to be restored by reenter().
complete_exit(t) ==
  /\ Step(t, "in", "exit") /\ op[t] = "complete_exit"
  /\ Transmuted(t)
  /\ save' = [save EXCEPT ![t] = recursions] /\ recursions' = 0
  /\ ret' = [ret EXCEPT ![t] = "reenter"]
  /\ op' = [op EXCEPT ![t] = "reentering"]
  /\ UNCHANGED <<queueVars, heirVars, busyVars, waitVars, event, envVars, other,
                 WasNotified, calls>>

Reentered(t) ==
  /\ Step(t, "reentered", "in")
  /\ recursions' = Restored(t) /\ save' = [save EXCEPT ![t] = 0]
  /\ op' = [op EXCEPT ![t] = "nothing"]
  /\ UNCHANGED <<owner, queueVars, heirVars, busyVars, waitVars, event, envVars,
                 ret, other, WasNotified, calls>>

ExitSteps(t) ==
  \/ exit(t) \/ Drop(t) \/ DropRatify(t)
  \/ Load(t, "ratify", cxq # <<>>, "ldSucc", ret[t])
  \/ Load(t, "ldEntryList", EntryList # <<>>, "ldSucc", "ldCxq")
  \/ Load(t, "ldCxq", cxq # <<>>, "ldSucc", ret[t])
  \/ Load(t, "ldSucc", NoHeir, "recas", ret[t])
  \/ Reacquire(t) \/ Select(t) \/ Abdicate(t)
  \/ NameHeir(t) \/ EpilogDrop(t) \/ Unpark(t)
  \/ Fast_Unlock(t) \/ FastDrop(t) \/ complete_exit(t) \/ Reentered(t)

----------------------------------------------------------------------------
(* wait() and ReenterI().                                                  *)

\* wait() of the owner; a pending interrupt ends it at once with an exception.
wait(t) ==
  /\ At(t, "in") /\ op[t] \in {"wait", "timed_wait"}
  /\ Transmuted(t)
  /\ IF interrupted[t]
       THEN /\ interrupted' = [interrupted EXCEPT ![t] = FALSE]
            /\ op' = [op EXCEPT ![t] = "nothing"]
            /\ UNCHANGED pc
       ELSE /\ op' = [op EXCEPT ![t] = IF @ = "wait" THEN "waiting" ELSE "timed_waiting"]
            /\ Goto(t, "waitAdd")
            /\ UNCHANGED interrupted
  /\ UNCHANGED <<recursions, queueVars, heirVars, busyVars, waitVars, event,
                 signalled, suspended, set, events, ret, other, save,
                 WasNotified, calls>>

\* A node and a fresh event: from here on an interrupt leaves a permit or is seen
\* by the test below.  AddWaiter() under _WaitSetLock; then the monitor is given
\* up altogether.
AddWaiter(t) ==
  /\ Step(t, "waitAdd", "exit")
  /\ ~WaitSetLock
  /\ event' = [event EXCEPT ![t] = 0]
  /\ TState' = [TState EXCEPT ![t] = "TS_WAIT"]
  /\ notified' = [notified EXCEPT ![t] = FALSE]
  /\ WaitSet' = Append(WaitSet, t)
  /\ Responsible' = NULL
  /\ save' = [save EXCEPT ![t] = recursions] /\ recursions' = 0
  /\ waiters' = waiters + 1
  /\ ret' = [ret EXCEPT ![t] = "repost"]
  /\ UNCHANGED <<owner, cxq, EntryList, succ, count, WaitSetLock, envVars, op,
                 other, WasNotified, calls>>

\* An unpark that an event handler might have consumed is posted again.
Repost(t) ==
  /\ Step(t, "repost", "waitTest")
  /\ event' = IF notified[t] /\ succ = t THEN Unparked(t) ELSE event
  /\ UNCHANGED <<lockVars, queueVars, heirVars, busyVars, waitVars, envVars,
                 locals>>

\* Back from park(), or past it: off the WaitSet, if no notify() got there
\* first.  TState is read without the lock, then with it.
DequeueSpecificWaiter(t) ==
  IF TState[t] = "TS_WAIT"
    THEN /\ WaitSet' = Without(WaitSet, t)
         /\ TState' = [TState EXCEPT ![t] = "TS_RUN"]
    ELSE UNCHANGED <<WaitSet, TState>>

WaitUnlink(t) ==
  /\ Step(t, "waitUnlink", "waitSucc")
  /\ ~WaitSetLock
  /\ DequeueSpecificWaiter(t)
  /\ UNCHANGED <<lockVars, cxq, EntryList, heirVars, busyVars, WaitSetLock,
                 notified, event, envVars, locals>>

\* Re-entry: through enter(), or from the list that notify() put it on.
WaitReenter(t) ==
  /\ At(t, "waitReenter")
  /\ WasNotified' = [WasNotified EXCEPT ![t] = notified[t]]
  /\ IF TState[t] = "TS_RUN"
       THEN Goto(t, "enter") /\ UNCHANGED ret
       ELSE Goto(t, "ReenterI") /\ ret' = [ret EXCEPT ![t] = "rPark"]
  /\ UNCHANGED <<lockVars, queueVars, heirVars, busyVars, waitVars, event,
                 envVars, op, other, save, calls>>

\* Suspended while queued for the re-entry.
SuspendCheckReenter(t) ==
  /\ At(t, "rSuspend")
  /\ Goto(t, CASE ~suspended[t] -> "rTry"
               [] suspended[t] /\ succ = t -> "rSuspendClear"
               [] OTHER -> "rSuspended")
  /\ UNCHANGED <<lockVars, queueVars, heirVars, busyVars, waitVars, event,
                 envVars, locals>>

\* The lock is back; without a notification a pending interrupt is thrown.
WaitEnd(t) ==
  /\ Step(t, "waitEnd", "in")
  /\ recursions' = Restored(t) /\ save' = [save EXCEPT ![t] = 0]
  /\ waiters' = waiters - 1
  /\ interrupted' = [interrupted EXCEPT ![t] = @ /\ WasNotified[t]]
  /\ notified' = [notified EXCEPT ![t] = FALSE]
  /\ WasNotified' = [WasNotified EXCEPT ![t] = FALSE]
  /\ op' = [op EXCEPT ![t] = "nothing"]
  /\ ret' = [ret EXCEPT ![t] = "out"]
  /\ UNCHANGED <<owner, queueVars, heirVars, count, WaitSet, WaitSetLock, event,
                 signalled, suspended, set, events, other, calls>>

WaitSteps(t) ==
  \/ wait(t) \/ AddWaiter(t) \/ Repost(t)
  \/ Load(t, "waitTest", ~interrupted[t], "waitNotified", "waitSuspend")
  \/ Load(t, "waitNotified", ~notified[t], "waitPark", "waitSuspend")
  \/ Park(t, "waitPark", op[t] = "timed_waiting", "waitSuspend")
  \/ Load(t, "waitSuspend", suspended[t], "waitSuspended", "waitState")
  \/ SelfSuspended(t, "waitSuspended", "waitState")
  \/ Load(t, "waitState", TState[t] = "TS_WAIT", "waitUnlink", "waitSucc")
  \/ WaitUnlink(t)
  \/ TestSucc(t, "waitSucc", "waitSuccClear", "waitReenter")
  \/ ClearSucc(t, "waitSuccClear", "waitReenter")
  \/ WaitReenter(t)
  \/ TryLock(t, "ReenterI", "unlink", "spin")
  \/ Park(t, "rPark", FALSE, "rSuspend")
  \/ SuspendCheckReenter(t) \/ ClearSucc(t, "rSuspendClear", "rSuspended")
  \/ SelfSuspended(t, "rSuspended", "rSuspend")
  \/ TryLock(t, "rTry", "unlink", "futile")
  \/ WaitEnd(t)

----------------------------------------------------------------------------
(* notify() and notifyAll().                                               *)

\* The unlocked test whether anybody waits.
notify(t) ==
  /\ At(t, "in") /\ op[t] \in {"notify", "notifyAll"}
  /\ Transmuted(t)
  /\ IF WaitSet = <<>>
       THEN op' = [op EXCEPT ![t] = "nothing"] /\ UNCHANGED pc
       ELSE Goto(t, op[t]) /\ UNCHANGED op
  /\ UNCHANGED <<recursions, queueVars, heirVars, busyVars, waitVars, event,
                 envVars, ret, other, save, WasNotified, calls>>

\* The end of the section under _WaitSetLock.
NotifyDone(t) ==
  /\ WaitSetLock' = FALSE
  /\ other' = [other EXCEPT ![t] = NULL]
  /\ op' = [op EXCEPT ![t] = "nothing"]
  /\ Goto(t, "in")

\* DequeueWaiter() under _WaitSetLock: the oldest waiter, if there is one left.
DequeueWaiter(t) ==
  /\ WaitSet # <<>>
  /\ other' = [other EXCEPT ![t] = Head(WaitSet)]
  /\ WaitSet' = Tail(WaitSet)
  /\ WaitSetLock' = TRUE

\* notify() says first that the waiter is queued, then that it is notified ...
NotifyTake(t) ==
  /\ At(t, "notify") /\ ~WaitSetLock
  /\ \/ /\ WaitSet = <<>> /\ NotifyDone(t)
        /\ UNCHANGED <<WaitSet, TState>>
     \/ /\ DequeueWaiter(t)
        /\ TState' = IF set.MoveNotifyee = 4 THEN TState
                     ELSE [TState EXCEPT ![Head(WaitSet)] = "TS_ENTER"]
        /\ Goto(t, "notifyFlag") /\ UNCHANGED op
  /\ UNCHANGED <<lockVars, cxq, EntryList, heirVars, busyVars, notified, event,
                 envVars, ret, save, WasNotified, calls>>

SetNotified(t) ==
  /\ Step(t, "notifyFlag", "notifyPlace")
  /\ notified' = [notified EXCEPT ![other[t]] = TRUE]
  /\ UNCHANGED <<lockVars, queueVars, heirVars, busyVars, WaitSet, WaitSetLock,
                 event, envVars, locals>>

\* ... and notifyAll() the other way round.
NotifyAllTake(t) ==
  /\ (At(t, "notifyAll") /\ ~WaitSetLock) \/ At(t, "allNext")
  /\ \/ /\ WaitSet = <<>> /\ NotifyDone(t)
        /\ UNCHANGED <<WaitSet, notified>>
     \/ /\ DequeueWaiter(t)
        /\ notified' = [notified EXCEPT ![Head(WaitSet)] = TRUE]
        /\ Goto(t, "allState") /\ UNCHANGED op
  /\ UNCHANGED <<lockVars, queueVars, heirVars, busyVars, event, envVars, ret,
                 save, WasNotified, calls>>

SetTState(t) ==
  /\ Step(t, "allState", "allPlace")
  /\ TState' = IF set.MoveNotifyee = 4 THEN TState
               ELSE [TState EXCEPT ![other[t]] = "TS_ENTER"]
  /\ UNCHANGED <<lockVars, cxq, EntryList, heirVars, busyVars, waitVars, event,
                 envVars, locals>>

\* Where the waiter goes: policy Knob_MoveNotifyee.
Queued(w, toEntryList, toCxq, state) ==
  /\ EntryList' = toEntryList /\ cxq' = toCxq
  /\ TState' = [TState EXCEPT ![w] = state]

Place(w, direct) ==
  CASE set.MoveNotifyee = 0 -> Queued(w, <<w>> \o EntryList, cxq, "TS_ENTER") /\ UNCHANGED event
    [] set.MoveNotifyee = 1 -> Queued(w, EntryList \o <<w>>, cxq, "TS_ENTER") /\ UNCHANGED event
    [] set.MoveNotifyee = 2 ->
         (IF direct /\ EntryList = <<>> THEN Queued(w, <<w>>, cxq, "TS_ENTER")
          ELSE Queued(w, EntryList, <<w>> \o cxq, "TS_CXQ")) /\ UNCHANGED event
    [] set.MoveNotifyee = 3 -> Queued(w, EntryList, cxq \o <<w>>, "TS_CXQ") /\ UNCHANGED event
    [] OTHER -> Queued(w, EntryList, cxq, "TS_RUN") /\ event' = Unparked(w)

NotifyPlace(t) ==
  /\ At(t, "notifyPlace")
  /\ Place(other[t], TRUE)
  /\ NotifyDone(t)
  /\ UNCHANGED <<lockVars, heirVars, busyVars, WaitSet, notified, envVars, ret,
                 save, WasNotified, calls>>

NotifyAllPlace(t) ==
  /\ Step(t, "allPlace", "allNext")
  /\ Place(other[t], FALSE)
  /\ other' = [other EXCEPT ![t] = NULL]
  /\ UNCHANGED <<lockVars, heirVars, busyVars, waitVars, envVars, ret, op, save,
                 WasNotified, calls>>

NotifySteps(t) ==
  \/ notify(t) \/ NotifyTake(t) \/ SetNotified(t) \/ NotifyPlace(t)
  \/ NotifyAllTake(t) \/ SetTState(t) \/ NotifyAllPlace(t)

----------------------------------------------------------------------------
(* Thread.interrupt() and the suspension of a thread by another one.       *)

\* The thread looks at its interrupted flag, or parks.  What happens to the flag
\* earlier makes no difference, it might as well happen just before.
HeedsInterrupt(t) ==
  \/ pc[t] = "in" /\ op[t] \in {"wait", "timed_wait"}
  \/ pc[t] \in {"waitAdd", "waitTest", "waitPark", "waitEnd",
                "park", "timedPark", "rPark"}

\* os::interrupt(): set the flag, then unpark.
interrupt(t) ==
  /\ HeedsInterrupt(t)
  /\ events > 0 /\ events' = events - 1
  /\ ~interrupted[t] /\ interrupted' = [interrupted EXCEPT ![t] = TRUE]
  /\ signalled' = signalled \cup {t}
  /\ UNCHANGED <<lockVars, queueVars, heirVars, busyVars, waitVars, event,
                 suspended, set, pc, locals>>

InterruptUnpark(t) ==
  /\ t \in signalled /\ signalled' = signalled \ {t}
  /\ event' = Unparked(t)
  /\ UNCHANGED <<lockVars, queueVars, heirVars, busyVars, waitVars, interrupted,
                 suspended, set, events, pc, locals>>

\* A request that the thread finds when it next looks (ExitSuspendEquivalent).
java_suspend(t) ==
  /\ pc[t] \in {"responsible", "suspendCheck", "waitSuspend", "rSuspend"}
  /\ events > 0 /\ events' = events - 1
  /\ ~suspended[t] /\ suspended' = [suspended EXCEPT ![t] = TRUE]
  /\ UNCHANGED <<lockVars, queueVars, heirVars, busyVars, waitVars, event,
                 interrupted, signalled, set, pc, locals>>

java_resume(t) ==
  /\ suspended[t] /\ suspended' = [suspended EXCEPT ![t] = FALSE]
  /\ UNCHANGED <<lockVars, queueVars, heirVars, busyVars, waitVars, event,
                 interrupted, signalled, set, events, pc, locals>>

Run(t) ==
  \/ SpinSteps(t) \/ EnterSteps(t) \/ ExitSteps(t) \/ WaitSteps(t) \/ NotifySteps(t)

Next ==
  \E t \in Thread :
     \/ Run(t) \/ enterAgain(t) \/ \E o \in set.Ops[t] : enter(t, o)
     \/ interrupt(t) \/ InterruptUnpark(t) \/ java_suspend(t) \/ java_resume(t)

Spec == Init /\ [][Next]_vars

\* Every thread keeps running and leaves the monitor; an interrupter unparks
\* the thread; a suspended thread is resumed in the end.
FairSpec ==
  Spec /\ \A t \in Thread :
            WF_vars(Run(t)) /\ WF_vars(InterruptUnpark(t)) /\ WF_vars(java_resume(t))

----------------------------------------------------------------------------
(* Properties.                                                             *)

\* The points at which a thread has the lock.
Holding ==
  { "in", "fastDrop", "spun", "spunClear", "unlink", "egress", "egressClear",
    "responsible", "suspendCheck", "exit", "drop", "dropRatify",
    "select", "abdicate", "epilog", "epilogDrop", "waitAdd",
    "waitEnd", "reentered", "notify", "notifyFlag", "notifyPlace",
    "notifyAll", "allNext", "allState", "allPlace" }

Holds(t) == pc[t] \in Holding

\* At most one thread is past an acquisition, and _owner names it: enter(),
\* the spinner, the woken thread, the re-entry after wait() and the exiting
\* thread that takes the lock back to wake a successor exclude each other.
MutualExclusion ==
  \A t \in Thread : Holds(t) <=> owner \in {t, BasicLock(t)}

\* A waiter between the WaitSet and the list that notify() puts it on.
InTransit(t) ==
  \E u \in Thread : /\ other[u] = t
                    /\ pc[u] \in {"notifyFlag", "notifyPlace", "allState", "allPlace"}

\* A node is on the one list that its TState names, which is how
\* UnlinkAfterAcquire() and wait() find out where to unlink it: through drains
\* of the _cxq, notifications and timeouts that race with them.
OnTheListTStateNames ==
  /\ IsInjective(cxq \o EntryList \o WaitSet)
  /\ \A t \in Thread :
       /\ t \in Range(cxq) <=>
            TState[t] = "TS_CXQ" /\ pc[t] \notin {"readCxq", "push", "pushRetry"}
       /\ t \in Range(EntryList) <=> TState[t] = "TS_ENTER" /\ ~InTransit(t)
       /\ t \in Range(WaitSet) <=>
            TState[t] = "TS_WAIT" /\ ~InTransit(t)

\* The asserts and guarantees of synchronizer.cpp: whoever acquires the lock finds no
\* recursions, and _count balances; those on _succ, _Responsible and _notified.
Assertions ==
  /\ owner = NULL => recursions = 0
  /\ count >= 0
  /\ \A t \in Thread :
       /\ pc[t] \in {"EnterI", "reset", "suspendCheck", "in", "waitEnd", "reentered"} =>
            succ # t /\ Responsible # t
       /\ pc[t] \in {"waitEnd", "reentered"} => recursions = 0
       /\ t \in Range(WaitSet) => ~notified[t]
       /\ pc[t] \in {"waitEnd", "in"} => TState[t] = "TS_RUN"
       /\ pc[t] = "waitReenter" => TState[t] # "TS_WAIT"
       /\ pc[t] \in {"ReenterI", "rPark", "rTry"} => waiters > 0

\* is_busy(): deflate_idle_monitors() leaves the monitor alone.
is_busy ==
  count # 0 \/ waiters # 0 \/ owner # NULL \/ cxq # <<>> \/ EntryList # <<>>

\* The points inside the monitor at which the thread does not have the lock and is
\* _thread_blocked (or, by way of the exit() of a suspended enter(), may be), so that
\* a safepoint can be reached around it; EnterI() also spins in this state.
AtSafepoint(t) ==
  \/ pc[t] \in { "EnterI", "reset", "readCxq", "push", "pushRetry", "resp",
                 "respCas", "loop", "choose", "park", "timedPark", "woken",
                 "futile", "futileClear", "selfSuspend", "waitTest",
                 "waitNotified", "waitPark", "waitSuspend", "waitSuspended",
                 "rPark", "rSuspend", "rSuspendClear", "rSuspended" }
  \/ /\ ret[t] \in {"reset", "futile"}
     /\ pc[t] \in {"spin", "setSucc", "spinning", "abort", "abortClear", "abortTry"}
  \/ ret[t] = "selfSuspend" /\ pc[t] \in {"ldEntryList", "ldCxq", "ldSucc", "recas", "unpark"}

\* A monitor that a thread will come back to is never deflated: wherever a
\* safepoint can find a thread inside the monitor, is_busy() holds.
BusyWhileUsed == \A t \in Thread : AtSafepoint(t) => is_busy

\* "Monitor notify has precedence over thread interrupt": a thread that
\* notify() took off the WaitSet knows it when it decides whether to throw
\* InterruptedException, so that the notification is not lost.
NotifyHasPrecedence ==
  \A t \in Thread : pc[t] = "waitEnd" /\ notified[t] => WasNotified[t]

\* A thread that may stop: outside the monitor, or in an untimed wait() that
\* nobody has notified.
AtRest(t) ==
  \/ pc[t] = "out"
  \/ pc[t] = "waitPark" /\ ~notified[t] /\ op[t] = "waiting"

\* No thread is stranded: every enter(), timed wait() and notified wait()
\* completes, though Fast_Unlock releases the lock without looking back, exit()
\* leaves the wakeup to the heir and only one thread polls.  This is asked of the
\* default Knob_ExitPolicy, 0, which looks at the lists again after the release.
EveryoneServed ==
  set.ExitPolicy = 0 => <>[](\A t \in Thread : AtRest(t))

----------------------------------------------------------------------------
(* The monitor that Java programs see.  A release takes effect when exit() *)
(* decides to drop the lock, an acquisition when enter(), wait() or        *)
(* reenter() is past its last chance to give the lock back.                *)

Visible ==
  { "in", "fastDrop", "waitAdd", "notify", "notifyFlag", "notifyPlace",
    "notifyAll", "allNext", "allState", "allPlace" }

HasIt(t) == pc[t] \in Visible

Holder == IF \E t \in Thread : HasIt(t) THEN CHOOSE t \in Thread : HasIt(t) ELSE NULL

Waiting == {t \in Range(WaitSet) : ~HasIt(t)}

Depth ==
  [t \in Thread |->
     CASE HasIt(t) -> recursions + 1
       [] ~HasIt(t) /\ op[t] \in {"waiting", "timed_waiting", "reentering"} -> save[t] + 1
       [] OTHER -> 0]

Abs == INSTANCE JavaMonitor WITH holder <- Holder, depth <- Depth, waiting <- Waiting

\* synchronizer.cpp implements the monitor of the Java language: it is held by
\* one thread, as often as that thread entered it; wait() gives it up and starts
\* to wait in one step and gets the same depth back, after a notification or not.
ImplementsMonitor == Abs!Spec

=============================================================================
