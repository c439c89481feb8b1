------------------------ MODULE ObjectMonitorProofs ------------------------
(***************************************************************************)
(* Proofs about ObjectMonitor, for any set of threads and all settings of  *)
(* Knob_ExitPolicy, Knob_QMode and Knob_MoveNotifyee.                      *)
(***************************************************************************)
EXTENDS ObjectMonitor, FiniteSets, TLAPS

\* Zenon proves most leaves; those that say so are left to SMT.
USE ZenonT(40)

----------------------------------------------------------------------------
(* The control points, by the operation they belong to.  TrySpin() and     *)
(* exit() are called from several places, which ret tells apart.           *)

Spinning == {"spin", "setSucc", "spinning", "spun", "spunClear", "abort", "abortClear",
             "abortTry"}
Exiting == {"exit", "drop", "dropRatify", "ratify", "ldEntryList", "ldCxq", "ldSucc",
            "recas", "select", "abdicate", "epilog", "epilogDrop", "unpark"}
Notifying == {"notify", "notifyFlag", "notifyPlace", "notifyAll", "allState", "allPlace",
              "allNext"}

\* EnterI(): before its node is on the _cxq, and from then on.
Pushing == {"readCxq", "push", "pushRetry"}
Enqueued == {"resp", "respCas", "loop", "choose", "park", "timedPark", "woken"}

\* What EnterI() and ReenterI() have in common: a futile wakeup, and the end.
Futile == {"futile", "futileClear"}
Leaving == {"unlink", "egress", "egressClear"}

\* wait() from exit() on, and ReenterI().
Sleeping == {"repost", "waitTest", "waitNotified", "waitPark", "waitSuspend",
             "waitSuspended", "waitState", "waitUnlink"}
Woken == {"waitSucc", "waitSuccClear", "waitReenter"}
Reentering == {"ReenterI", "rPark", "rSuspend", "rSuspendClear", "rSuspended", "rTry"}

\* notify() or notifyAll() has a waiter in its hands, or the _WaitSetLock.
Moving == {"notifyFlag", "notifyPlace", "allState", "allPlace"}
Locked == Moving \cup {"allNext"}

\* The thread has gone through the part of EnterI() that queues it.
Queues(t) ==
  \/ pc[t] \in Enqueued \cup {"responsible"}
  \/ pc[t] \in Spinning \cup Futile \cup Leaving /\ ret[t] = "futile"

\* The thread counts as a contender: from the increment of _count to the decrement.
Contends(t) ==
  \/ Queues(t)
  \/ pc[t] \in Pushing \cup {"EnterI", "reset", "suspendCheck", "selfSuspend"}
  \/ pc[t] \in Spinning /\ ret[t] = "reset"
  \/ pc[t] \in Exiting /\ ret[t] = "selfSuspend"

\* The thread is in wait(), its node is not, or no longer, its own.
Waits(t) ==
  \/ pc[t] \in Sleeping \cup Woken \cup Reentering
  \/ pc[t] \in Spinning \cup Futile \cup Leaving /\ ret[t] = "rPark"
  \/ pc[t] \in Exiting /\ ret[t] = "repost"

WaitOps == {"waiting", "timed_waiting"}

\* The thread counts as a waiter.
Waited(t) == op[t] \in WaitOps /\ pc[t] # "waitAdd"

----------------------------------------------------------------------------
(* The inductive invariant.                                                *)

\* ret is a caller of the operation the thread is in.
RetInv(t) ==
  /\ pc[t] \in Spinning => ret[t] \in {"contend", "reset", "futile", "rPark"}
  /\ pc[t] \in Exiting => ret[t] \in {"out", "selfSuspend", "reenter", "repost"}
  /\ pc[t] \in Enqueued \cup {"responsible"} => ret[t] = "futile"
  /\ pc[t] \in Reentering => ret[t] = "rPark"
  /\ pc[t] \in Futile \cup Leaving => ret[t] \in {"futile", "rPark"}

\* op is what the thread does with the monitor.
OpInv(t) ==
  /\ Waits(t) \/ pc[t] \in {"waitAdd", "enter", "waitEnd"} => op[t] \in WaitOps
  /\ pc[t] \in {"reenter", "reentered"} \/ (pc[t] \in Exiting /\ ret[t] = "reenter") =>
       op[t] = "reentering"
  /\ pc[t] = "fastDrop" \/ (pc[t] \in Exiting /\ ret[t] = "out") => op[t] = "nothing"
  /\ pc[t] \in {"out", "in"} \cup Notifying => op[t] \notin WaitOps \cup {"reentering"}

\* TState says whether the thread has a node, and of what kind.
Listed(t) == TState[t] \in {"TS_ENTER", "TS_CXQ"}
NodeInv(t) ==
  /\ pc[t] \in Pushing => TState[t] = "TS_CXQ"
  /\ pc[t] \in Enqueued \cup Futile \cup Reentering \cup {"unlink"} => Listed(t)
  /\ pc[t] \in Spinning /\ ret[t] \in {"futile", "rPark"} => Listed(t)
  /\ pc[t] \in Woken => TState[t] # "TS_WAIT"
  /\ \/ pc[t] \in {"out", "in", "enter", "contend", "EnterI", "reset", "suspendCheck",
                   "selfSuspend", "egress", "egressClear", "responsible", "fastDrop",
                   "waitAdd", "waitEnd", "reenter", "reentered"} \cup Notifying
     \/ pc[t] \in Spinning /\ ret[t] \in {"contend", "reset"}
     \/ pc[t] \in Exiting /\ ret[t] # "repost"
     => TState[t] = "TS_RUN"

\* Where recursions may be other than zero.
Nesting == {"in", "waitAdd"} \cup Notifying

LockInv ==
  /\ MutualExclusion
  /\ recursions = 0 \/ \E t \in Thread : pc[t] \in Nesting
  /\ \A t \in Thread : owner = BasicLock(t) => pc[t] = "in" /\ recursions = 0

\* A node is on the list its TState names, unless it is new or with a notifier.
OnList(t) ==
  /\ t \in Range(cxq) <=> TState[t] = "TS_CXQ" /\ pc[t] \notin Pushing
  /\ t \in Range(EntryList) <=> TState[t] = "TS_ENTER" /\ ~InTransit(t)
  /\ t \in Range(WaitSet) <=> TState[t] = "TS_WAIT" /\ ~InTransit(t)
  /\ t \in Range(WaitSet) => ~notified[t]

HandInv(u) ==
  /\ pc[u] \in Locked => WaitSetLock
  /\ pc[u] \in Moving =>
       /\ other[u] \in Thread
       /\ TState[other[u]] = IF pc[u] = "allState" \/ set.MoveNotifyee = 4
                               THEN "TS_WAIT" ELSE "TS_ENTER"

ListInv ==
  /\ IsInjective(cxq) /\ IsInjective(EntryList) /\ IsInjective(WaitSet)
  /\ \A t \in Thread : OnList(t) /\ HandInv(t)

\* Who may be the heir: a queued thread, or one that spins, until it has looked.
MayBeHeir(t) ==
  \/ Listed(t) /\ pc[t] \notin Pushing
  \/ pc[t] \in {"setSucc", "spinning", "spun", "spunClear", "abort", "abortClear",
                "egress", "egressClear"}

HeirInv(t) ==
  /\ succ = t => MayBeHeir(t)
  /\ Responsible = t => Queues(t)
  /\ pc[t] = "epilog" => other[t] \in Range(cxq) \cup Range(EntryList)
  /\ pc[t] = "abdicate" => EntryList # <<>>

\* _count and _waiters count.
Contenders == {t \in Thread : Contends(t)}
Waiters == {t \in Thread : Waited(t)}
CountInv ==
  /\ IsFiniteSet(Contenders) /\ count = Cardinality(Contenders)
  /\ IsFiniteSet(Waiters) /\ waiters = Cardinality(Waiters)

LocalInv(t) == RetInv(t) /\ OpInv(t) /\ NodeInv(t)

Inv ==
  /\ TypeOK /\ LockInv /\ ListInv /\ CountInv
  /\ \A t \in Thread : LocalInv(t) /\ HeirInv(t)
----------------------------------------------------------------------------
(* The effect of a step.                                                   *)

\* What a thread does outside the operations, and what is done to it.
ClientSteps(t) ==
  \/ enterAgain(t) \/ \E o \in set.Ops[t] : enter(t, o)
  \/ interrupt(t) \/ InterruptUnpark(t) \/ java_suspend(t) \/ java_resume(t)
Act(t) == Run(t) \/ ClientSteps(t)

\* The other threads stay where they are, and so does the setting.
Others(t) ==
  /\ \A u \in Thread \ {t} : /\ pc'[u] = pc[u] /\ ret'[u] = ret[u] /\ op'[u] = op[u]
                             /\ other'[u] = other[u] /\ save'[u] = save[u]
  /\ set' = set

\* The thread keeps, takes over from its BasicLock, acquires or drops the lock.
LockEffect(t) ==
  \/ owner' = owner /\ (Holds(t)' <=> Holds(t))
  \/ owner' = t /\ Holds(t) /\ Holds(t)'
  \/ owner = NULL /\ owner' = t /\ ~Holds(t) /\ Holds(t)'
  \/ owner' = NULL /\ Holds(t) /\ ~Holds(t)'

\* Only the holder touches recursions, and leaves with none.
NestEffect(t) ==
  /\ Holds(t) \/ recursions' = recursions
  /\ \/ recursions' = 0 \/ pc'[t] \in Nesting
     \/ recursions' = recursions /\ pc[t] \notin Nesting
  /\ pc[t] = "in" => owner' = t \/ (pc'[t] = "in" /\ recursions' = recursions)

\* _count and _waiters follow the thread.
CountEffect(t) ==
  /\ \/ count' = count /\ (Contends(t)' <=> Contends(t))
     \/ count' = count + 1 /\ ~Contends(t) /\ Contends(t)'
     \/ count' = count - 1 /\ Contends(t) /\ ~Contends(t)'
  /\ \/ waiters' = waiters /\ (Waited(t)' <=> Waited(t))
     \/ waiters' = waiters + 1 /\ ~Waited(t) /\ Waited(t)'
     \/ waiters' = waiters - 1 /\ Waited(t) /\ ~Waited(t)'

\* A thread that is the heir stays where it may be, one that is responsible
\* stays queued; only ExitEpilog() makes another thread the heir.
HeirEffect(t) ==
  /\ \/ succ' = NULL
     \/ succ' = t /\ pc'[t] = "spinning"
     \/ succ' = other[t] /\ pc[t] = "epilog" /\ pc'[t] = "epilogDrop" /\ TState' = TState
     \/ succ' = succ /\ (succ = t /\ MayBeHeir(t) => MayBeHeir(t)')
  /\ \/ Responsible' = NULL \/ Responsible' = Resigned(t)
     \/ Responsible' = t /\ Queues(t)'
     \/ Responsible' = Responsible /\ (Queues(t) => Queues(t)')
  /\ pc'[t] \in {"epilog", "abdicate"} =>
       Select(t) \/ Abdicate(t) \/ (pc'[t] = pc[t] /\ other'[t] = other[t])

\* The lists and TState are left alone, and the thread is as it was with regard to
\* them; or it is one of the steps that change them.
Quiet(t) ==
  /\ UNCHANGED <<cxq, EntryList, TState, WaitSet, WaitSetLock>>
  /\ pc'[t] \in Pushing <=> pc[t] \in Pushing
  /\ pc'[t] \in Locked => pc[t] \in Locked
  /\ pc'[t] \in Moving <=> pc[t] \in Moving
  /\ pc[t] \in Moving => other'[t] = other[t] /\ (pc'[t] = "allState" <=> pc[t] = "allState")
  /\ \A u \in Thread : notified'[u] => notified[u] \/ (pc[t] \in Moving /\ u = other[t])
ListStep(t) ==
  \/ Reset(t) \/ Push(t) \/ PushRetry(t) \/ Unlink(t) \/ Select(t) \/ AddWaiter(t)
  \/ WaitUnlink(t) \/ NotifyTake(t) \/ NotifyPlace(t) \/ NotifyAllTake(t)
  \/ SetTState(t) \/ NotifyAllPlace(t)

\* The thread goes on as its locals say.
LocalEffect(t) == RetInv(t)' /\ OpInv(t)' /\ (TState'[t] = TState[t] => NodeInv(t)')

\* The types of what the steps assign to.
PcType == pc \in [Thread -> Label] /\ ret \in [Thread -> Label]
LocalType ==
  /\ op \in [Thread -> {"nothing", "wait", "timed_wait", "notify", "notifyAll",
                        "complete_exit", "waiting", "timed_waiting", "reentering"}]
  /\ other \in [Thread -> Thread \cup {NULL}] /\ save \in [Thread -> Nat]
  /\ TState \in [Thread -> {"TS_RUN", "TS_WAIT", "TS_ENTER", "TS_CXQ"}]
  /\ notified \in [Thread -> BOOLEAN]

EnvType ==
  /\ recursions \in Nat /\ WaitSetLock \in BOOLEAN
  /\ event \in [Thread -> {0, 1}]
  /\ interrupted \in [Thread -> BOOLEAN] /\ suspended \in [Thread -> BOOLEAN]
  /\ signalled \subseteq Thread
  /\ set \in Settings
  /\ WasNotified \in [Thread -> BOOLEAN]
  /\ calls \in Nat /\ events \in Nat

LEMMA Types == TypeOK => PcType /\ LocalType /\ EnvType
  BY DEF TypeOK, PcType, LocalType, EnvType

\* What clients ask for is not one of wait()'s states.
LEMMA OpsFacts ==
  ASSUME TypeOK, NEW t \in Thread, NEW o \in set.Ops[t]
  PROVE  /\ o \in {"nothing", "wait", "timed_wait", "notify", "notifyAll", "complete_exit"}
         /\ o \notin WaitOps \cup {"reentering"}
<1>1. set \in Setting
  BY ConstantsAssumption DEF TypeOK
<1>2. o \in {"nothing", "wait", "timed_wait", "notify", "notifyAll", "complete_exit"}
  BY SMT, <1>1 DEF Setting
<1>. QED  BY <1>2 DEF WaitOps

----------------------------------------------------------------------------
(* The monitor that Java programs see.                                     *)

\* The depth of a thread that does not hold the monitor.
Away(t) == IF op[t] \in {"waiting", "timed_waiting", "reentering"} THEN save[t] + 1 ELSE 0

\* What a Java program sees of a step.
ViewEffect(t) ==
  \/ /\ HasIt(t)' <=> HasIt(t)
     /\ HasIt(t) => recursions' = recursions
     /\ ~HasIt(t) => Away(t)' = Away(t)
     /\ WaitSet' = WaitSet
  \/ /\ ~HasIt(t) /\ pc'[t] = "in" /\ Away(t) = 0
     /\ recursions' = recursions /\ WaitSet' = WaitSet
  \/ /\ pc[t] = "in" /\ pc'[t] = "in" /\ WaitSet' = WaitSet
     /\ \/ recursions' = recursions + 1
        \/ recursions' = recursions - 1 /\ recursions # 0
  \/ HasIt(t) /\ ~HasIt(t)' /\ Away(t)' = 0 /\ recursions = 0 /\ WaitSet' = WaitSet
  \/ HasIt(t) /\ ~HasIt(t)' /\ Away(t)' = recursions + 1 /\ WaitSet' = WaitSet
  \/ /\ pc[t] \in {"waitEnd", "reentered"} /\ pc'[t] = "in"
     /\ Away(t) = recursions' + 1 /\ WaitSet' = WaitSet
  \/ AddWaiter(t) \/ WaitUnlink(t) \/ NotifyTake(t) \/ NotifyAllTake(t)

\* Every action leads where its caller expects.
LEMMA LocalStep ==
  ASSUME NEW t \in Thread, TypeOK, PcType, LocalType, LocalInv(t), Act(t)
  PROVE  LocalEffect(t)
<1>. USE DEF At, Goto, locals, queueVars, PcType, LocalType, LocalInv, LocalEffect,
           RetInv, OpInv, NodeInv, Listed, Waits, WaitOps, Notifying, Sleeping, Woken,
           Reentering, Spinning, Exiting, Pushing, Enqueued, Futile, Leaving
<1>1. CASE SpinSteps(t)
  <2>1. CASE TrySpin(t)
    BY SMT, <2>1 DEF TrySpin, Acquired, SpinWon, Entered
  <2>2. CASE SetSucc(t)
    BY <2>2 DEF SetSucc, Step
  <2>3. CASE Spin(t)
    BY SMT, <2>3 DEF Spin, Acquired
  <2>4. CASE TestSucc(t, "spun", "spunClear", SpinWon(t))
    BY SMT, <2>4 DEF TestSucc, IsHeir, SpinWon, Entered
  <2>5. CASE ClearSucc(t, "spunClear", SpinWon(t))
    BY SMT, <2>5 DEF ClearSucc, Step, SpinWon, Entered
  <2>6. CASE TestSucc(t, "abort", "abortClear", ret[t])
    BY SMT, <2>6 DEF TestSucc, IsHeir
  <2>7. CASE ClearSucc(t, "abortClear", "abortTry")
    BY <2>7 DEF ClearSucc, Step
  <2>8. CASE TryLock(t, "abortTry", SpinWon(t), ret[t])
    BY SMT, <2>8 DEF TryLock, Acquired, SpinWon, Entered
  <2>. QED  BY <1>1, <2>1, <2>2, <2>3, <2>4, <2>5, <2>6, <2>7, <2>8 DEF SpinSteps
<1>2. CASE EnterSteps(t)
  <2>1. CASE Enter(t)
    BY SMT, <2>1 DEF Enter, EnterCas, Acquired, Entered
  <2>2. CASE EnterI(t)
    BY SMT, <2>2 DEF EnterI, Acquired, Contended
  <2>3. CASE Reset(t)
    BY <2>3 DEF Reset, Step
  <2>4. CASE ReadCxq(t)
    BY <2>4 DEF ReadCxq, Step, TopOfCxq
  <2>5. CASE Push(t)
    BY SMT, <2>5 DEF Push, TopOfCxq
  <2>6. CASE PushRetry(t)
    BY SMT, <2>6 DEF PushRetry, Acquired
  <2>7. CASE TestOnset(t)
    BY <2>7 DEF TestOnset, OnsetOfContention
  <2>8. CASE AssumeResponsibility(t)
    BY <2>8 DEF AssumeResponsibility, Step
  <2>9. CASE TryLock(t, "loop", "unlink", "choose")
    BY SMT, <2>9 DEF TryLock, Acquired
  <2>10. CASE ChoosePark(t)
    BY <2>10 DEF ChoosePark
  <2>11. CASE Park(t, "park", FALSE, "woken")
    BY <2>11 DEF Park, Step
  <2>12. CASE Park(t, "timedPark", TRUE, "woken")
    BY <2>12 DEF Park, Step
  <2>13. CASE TryLock(t, "woken", "unlink", "spin")
    BY SMT, <2>13 DEF TryLock, Acquired
  <2>14. CASE TestSucc(t, "futile", "futileClear", Loop(t))
    BY <2>14 DEF TestSucc, IsHeir, Loop
  <2>15. CASE ClearSucc(t, "futileClear", Loop(t))
    BY <2>15 DEF ClearSucc, Step, Loop
  <2>16. CASE Unlink(t)
    BY <2>16 DEF Unlink, Step, Unlinked
  <2>17. CASE TestSucc(t, "egress", "egressClear", Egress(t))
    BY <2>17 DEF TestSucc, IsHeir, Egress
  <2>18. CASE ClearSucc(t, "egressClear", Egress(t))
    BY <2>18 DEF ClearSucc, Step, Egress
  <2>19. CASE EnterEnd(t)
    BY SMT, <2>19 DEF EnterEnd, Resigned, Entered
  <2>20. CASE SelfSuspended(t, "selfSuspend", "EnterI")
    BY <2>20 DEF SelfSuspended, Step
  <2>. QED  BY <1>2, <2>1, <2>2, <2>3, <2>4, <2>5, <2>6, <2>7, <2>8, <2>9, <2>10,
            <2>11, <2>12, <2>13, <2>14, <2>15, <2>16, <2>17, <2>18, <2>19,
            <2>20 DEF EnterSteps
<1>3. CASE ExitSteps(t)
  <2>1. CASE exit(t)
    BY SMT, <2>1 DEF exit, Transmuted, Nested
  <2>2. CASE Drop(t)
    BY SMT, <2>2 DEF Drop, NoHeir
  <2>3. CASE DropRatify(t)
    BY <2>3 DEF DropRatify, Step
  <2>4. CASE Load(t, "ratify", cxq # <<>>, "ldSucc", ret[t])
    BY SMT, <2>4 DEF Load
  <2>5. CASE Load(t, "ldEntryList", EntryList # <<>>, "ldSucc", "ldCxq")
    BY <2>5 DEF Load
  <2>6. CASE Load(t, "ldCxq", cxq # <<>>, "ldSucc", ret[t])
    BY SMT, <2>6 DEF Load
  <2>7. CASE Load(t, "ldSucc", NoHeir, "recas", ret[t])
    BY SMT, <2>7 DEF Load
  <2>8. CASE Reacquire(t)
    BY SMT, <2>8 DEF Reacquire, TryLock, Acquired
  <2>9. CASE Select(t)
    BY SMT, <2>9 DEF Select, Wake, Drain
  <2>10. CASE Abdicate(t)
    BY SMT, <2>10 DEF Abdicate, Wake, NoHeir
  <2>11. CASE NameHeir(t)
    BY <2>11 DEF NameHeir, Step
  <2>12. CASE EpilogDrop(t)
    BY <2>12 DEF EpilogDrop, Step
  <2>13. CASE Unpark(t)
    BY SMT, <2>13 DEF Unpark, Return
  <2>14. CASE Fast_Unlock(t)
    BY <2>14 DEF Fast_Unlock, Step
  <2>15. CASE FastDrop(t)
    BY <2>15 DEF FastDrop, Step
  <2>16. CASE complete_exit(t)
    BY <2>16 DEF complete_exit, Step, Transmuted
  <2>17. CASE Reentered(t)
    BY <2>17 DEF Reentered, Step, Restored
  <2>. QED  BY <1>3, <2>1, <2>2, <2>3, <2>4, <2>5, <2>6, <2>7, <2>8, <2>9, <2>10,
            <2>11, <2>12, <2>13, <2>14, <2>15, <2>16, <2>17 DEF ExitSteps
<1>4. CASE WaitSteps(t)
  <2>1. CASE wait(t)
    BY SMT, <2>1 DEF wait, Transmuted
  <2>2. CASE AddWaiter(t)
    BY <2>2 DEF AddWaiter, Step
  <2>3. CASE Repost(t)
    BY <2>3 DEF Repost, Step
  <2>4. CASE Load(t, "waitTest", ~interrupted[t], "waitNotified", "waitSuspend")
    BY <2>4 DEF Load
  <2>5. CASE Load(t, "waitNotified", ~notified[t], "waitPark", "waitSuspend")
    BY <2>5 DEF Load
  <2>6. CASE Park(t, "waitPark", op[t] = "timed_waiting", "waitSuspend")
    BY <2>6 DEF Park, Step
  <2>7. CASE Load(t, "waitSuspend", suspended[t], "waitSuspended", "waitState")
    BY <2>7 DEF Load
  <2>8. CASE SelfSuspended(t, "waitSuspended", "waitState")
    BY <2>8 DEF SelfSuspended, Step
  <2>9. CASE Load(t, "waitState", TState[t] = "TS_WAIT", "waitUnlink", "waitSucc")
    BY <2>9 DEF Load
  <2>10. CASE WaitUnlink(t)
    BY <2>10 DEF WaitUnlink, Step, DequeueSpecificWaiter
  <2>11. CASE TestSucc(t, "waitSucc", "waitSuccClear", "waitReenter")
    BY <2>11 DEF TestSucc, IsHeir
  <2>12. CASE ClearSucc(t, "waitSuccClear", "waitReenter")
    BY <2>12 DEF ClearSucc, Step
  <2>13. CASE WaitReenter(t)
    BY SMT, <2>13 DEF WaitReenter
  <2>14. CASE TryLock(t, "ReenterI", "unlink", "spin")
    BY SMT, <2>14 DEF TryLock, Acquired
  <2>15. CASE Park(t, "rPark", FALSE, "rSuspend")
    BY <2>15 DEF Park, Step
  <2>16. CASE SuspendCheckReenter(t)
    BY <2>16 DEF SuspendCheckReenter
  <2>17. CASE ClearSucc(t, "rSuspendClear", "rSuspended")
    BY <2>17 DEF ClearSucc, Step
  <2>18. CASE SelfSuspended(t, "rSuspended", "rSuspend")
    BY <2>18 DEF SelfSuspended, Step
  <2>19. CASE TryLock(t, "rTry", "unlink", "futile")
    BY SMT, <2>19 DEF TryLock, Acquired
  <2>20. CASE WaitEnd(t)
    BY <2>20 DEF WaitEnd, Step, Restored
  <2>. QED  BY <1>4, <2>1, <2>2, <2>3, <2>4, <2>5, <2>6, <2>7, <2>8, <2>9, <2>10,
            <2>11, <2>12, <2>13, <2>14, <2>15, <2>16, <2>17, <2>18, <2>19,
            <2>20 DEF WaitSteps
<1>5. CASE NotifySteps(t)
  <2>1. CASE notify(t)
    BY SMT, <2>1 DEF notify, Transmuted
  <2>2. CASE NotifyTake(t)
    BY SMT, <2>2 DEF NotifyTake, NotifyDone, DequeueWaiter
  <2>3. CASE SetNotified(t)
    BY <2>3 DEF SetNotified, Step
  <2>4. CASE NotifyPlace(t)
    BY <2>4 DEF NotifyPlace, NotifyDone, Place, Queued
  <2>5. CASE NotifyAllTake(t)
    BY SMT, <2>5 DEF NotifyAllTake, NotifyDone, DequeueWaiter
  <2>6. CASE SetTState(t)
    BY <2>6 DEF SetTState, Step
  <2>7. CASE NotifyAllPlace(t)
    BY <2>7 DEF NotifyAllPlace, Step, Place, Queued
  <2>. QED  BY <1>5, <2>1, <2>2, <2>3, <2>4, <2>5, <2>6, <2>7 DEF NotifySteps
<1>6. CASE ClientSteps(t)
  <2>1. CASE enterAgain(t)
    BY <2>1 DEF enterAgain, Transmuted
  <2>2. CASE \E o \in set.Ops[t] : enter(t, o)
    BY SMT, <2>2, OpsFacts DEF enter, EnterCas, Acquired, Entered
  <2>3. CASE interrupt(t)
    BY <2>3 DEF interrupt
  <2>4. CASE InterruptUnpark(t)
    BY <2>4 DEF InterruptUnpark
  <2>5. CASE java_suspend(t)
    BY <2>5 DEF java_suspend
  <2>6. CASE java_resume(t)
    BY <2>6 DEF java_resume
  <2>. QED  BY <1>6, <2>1, <2>2, <2>3, <2>4, <2>5, <2>6 DEF ClientSteps
<1>. QED  BY <1>1, <1>2, <1>3, <1>4, <1>5, <1>6 DEF Act, Run

\* Every action goes to a control point.
LEMMA PcTypeStep ==
  ASSUME NEW t \in Thread, PcType, Act(t)
  PROVE  PcType'
<1>. USE DEF At, Goto, locals, PcType, Label
<1>1. CASE SpinSteps(t)
  <2>1. CASE TrySpin(t)
    BY SMT, <2>1 DEF TrySpin, Acquired, SpinWon, Entered
  <2>2. CASE SetSucc(t)
    BY <2>2 DEF SetSucc, Step
  <2>3. CASE Spin(t)
    BY SMT, <2>3 DEF Spin, Acquired
  <2>4. CASE TestSucc(t, "spun", "spunClear", SpinWon(t))
    BY <2>4 DEF TestSucc, IsHeir, SpinWon, Entered
  <2>5. CASE ClearSucc(t, "spunClear", SpinWon(t))
    BY <2>5 DEF ClearSucc, Step, SpinWon, Entered
  <2>6. CASE TestSucc(t, "abort", "abortClear", ret[t])
    BY SMT, <2>6 DEF TestSucc, IsHeir
  <2>7. CASE ClearSucc(t, "abortClear", "abortTry")
    BY <2>7 DEF ClearSucc, Step
  <2>8. CASE TryLock(t, "abortTry", SpinWon(t), ret[t])
    BY SMT, <2>8 DEF TryLock, Acquired, SpinWon, Entered
  <2>. QED  BY <1>1, <2>1, <2>2, <2>3, <2>4, <2>5, <2>6, <2>7, <2>8 DEF SpinSteps
<1>2. CASE EnterSteps(t)
  <2>1. CASE Enter(t)
    BY SMT, <2>1 DEF Enter, EnterCas, Acquired, Entered
  <2>2. CASE EnterI(t)
    BY SMT, <2>2 DEF EnterI, Acquired, Contended
  <2>3. CASE Reset(t)
    BY <2>3 DEF Reset, Step
  <2>4. CASE ReadCxq(t)
    BY <2>4 DEF ReadCxq, Step, TopOfCxq
  <2>5. CASE Push(t)
    BY SMT, <2>5 DEF Push, TopOfCxq
  <2>6. CASE PushRetry(t)
    BY SMT, <2>6 DEF PushRetry, Acquired
  <2>7. CASE TestOnset(t)
    BY <2>7 DEF TestOnset, OnsetOfContention
  <2>8. CASE AssumeResponsibility(t)
    BY <2>8 DEF AssumeResponsibility, Step
  <2>9. CASE TryLock(t, "loop", "unlink", "choose")
    BY SMT, <2>9 DEF TryLock, Acquired
  <2>10. CASE ChoosePark(t)
    BY <2>10 DEF ChoosePark
  <2>11. CASE Park(t, "park", FALSE, "woken")
    BY <2>11 DEF Park, Step
  <2>12. CASE Park(t, "timedPark", TRUE, "woken")
    BY <2>12 DEF Park, Step
  <2>13. CASE TryLock(t, "woken", "unlink", "spin")
    BY SMT, <2>13 DEF TryLock, Acquired
  <2>14. CASE TestSucc(t, "futile", "futileClear", Loop(t))
    BY <2>14 DEF TestSucc, IsHeir, Loop
  <2>15. CASE ClearSucc(t, "futileClear", Loop(t))
    BY <2>15 DEF ClearSucc, Step, Loop
  <2>16. CASE Unlink(t)
    BY <2>16 DEF Unlink, Step, Unlinked
  <2>17. CASE TestSucc(t, "egress", "egressClear", Egress(t))
    BY <2>17 DEF TestSucc, IsHeir, Egress
  <2>18. CASE ClearSucc(t, "egressClear", Egress(t))
    BY <2>18 DEF ClearSucc, Step, Egress
  <2>19. CASE EnterEnd(t)
    BY SMT, <2>19 DEF EnterEnd, Resigned, Entered
  <2>20. CASE SelfSuspended(t, "selfSuspend", "EnterI")
    BY <2>20 DEF SelfSuspended, Step
  <2>. QED  BY <1>2, <2>1, <2>2, <2>3, <2>4, <2>5, <2>6, <2>7, <2>8, <2>9, <2>10,
            <2>11, <2>12, <2>13, <2>14, <2>15, <2>16, <2>17, <2>18, <2>19,
            <2>20 DEF EnterSteps
<1>3. CASE ExitSteps(t)
  <2>1. CASE exit(t)
    BY SMT, <2>1 DEF exit, Transmuted, Nested
  <2>2. CASE Drop(t)
    BY SMT, <2>2 DEF Drop, NoHeir
  <2>3. CASE DropRatify(t)
    BY <2>3 DEF DropRatify, Step
  <2>4. CASE Load(t, "ratify", cxq # <<>>, "ldSucc", ret[t])
    BY SMT, <2>4 DEF Load
  <2>5. CASE Load(t, "ldEntryList", EntryList # <<>>, "ldSucc", "ldCxq")
    BY <2>5 DEF Load
  <2>6. CASE Load(t, "ldCxq", cxq # <<>>, "ldSucc", ret[t])
    BY SMT, <2>6 DEF Load
  <2>7. CASE Load(t, "ldSucc", NoHeir, "recas", ret[t])
    BY SMT, <2>7 DEF Load
  <2>8. CASE Reacquire(t)
    BY SMT, <2>8 DEF Reacquire, TryLock, Acquired
  <2>9. CASE Select(t)
    BY SMT, <2>9 DEF Select, Wake, Drain
  <2>10. CASE Abdicate(t)
    BY SMT, <2>10 DEF Abdicate, Wake, NoHeir
  <2>11. CASE NameHeir(t)
    BY <2>11 DEF NameHeir, Step
  <2>12. CASE EpilogDrop(t)
    BY <2>12 DEF EpilogDrop, Step
  <2>13. CASE Unpark(t)
    BY SMT, <2>13 DEF Unpark, Return
  <2>14. CASE Fast_Unlock(t)
    BY <2>14 DEF Fast_Unlock, Step
  <2>15. CASE FastDrop(t)
    BY <2>15 DEF FastDrop, Step
  <2>16. CASE complete_exit(t)
    BY <2>16 DEF complete_exit, Step, Transmuted
  <2>17. CASE Reentered(t)
    BY <2>17 DEF Reentered, Step, Restored
  <2>. QED  BY <1>3, <2>1, <2>2, <2>3, <2>4, <2>5, <2>6, <2>7, <2>8, <2>9, <2>10,
            <2>11, <2>12, <2>13, <2>14, <2>15, <2>16, <2>17 DEF ExitSteps
<1>4. CASE WaitSteps(t)
  <2>1. CASE wait(t)
    BY SMT, <2>1 DEF wait, Transmuted
  <2>2. CASE AddWaiter(t)
    BY <2>2 DEF AddWaiter, Step
  <2>3. CASE Repost(t)
    BY <2>3 DEF Repost, Step
  <2>4. CASE Load(t, "waitTest", ~interrupted[t], "waitNotified", "waitSuspend")
    BY <2>4 DEF Load
  <2>5. CASE Load(t, "waitNotified", ~notified[t], "waitPark", "waitSuspend")
    BY <2>5 DEF Load
  <2>6. CASE Park(t, "waitPark", op[t] = "timed_waiting", "waitSuspend")
    BY <2>6 DEF Park, Step
  <2>7. CASE Load(t, "waitSuspend", suspended[t], "waitSuspended", "waitState")
    BY <2>7 DEF Load
  <2>8. CASE SelfSuspended(t, "waitSuspended", "waitState")
    BY <2>8 DEF SelfSuspended, Step
  <2>9. CASE Load(t, "waitState", TState[t] = "TS_WAIT", "waitUnlink", "waitSucc")
    BY <2>9 DEF Load
  <2>10. CASE WaitUnlink(t)
    BY <2>10 DEF WaitUnlink, Step, DequeueSpecificWaiter
  <2>11. CASE TestSucc(t, "waitSucc", "waitSuccClear", "waitReenter")
    BY <2>11 DEF TestSucc, IsHeir
  <2>12. CASE ClearSucc(t, "waitSuccClear", "waitReenter")
    BY <2>12 DEF ClearSucc, Step
  <2>13. CASE WaitReenter(t)
    BY SMT, <2>13 DEF WaitReenter
  <2>14. CASE TryLock(t, "ReenterI", "unlink", "spin")
    BY SMT, <2>14 DEF TryLock, Acquired
  <2>15. CASE Park(t, "rPark", FALSE, "rSuspend")
    BY <2>15 DEF Park, Step
  <2>16. CASE SuspendCheckReenter(t)
    BY <2>16 DEF SuspendCheckReenter
  <2>17. CASE ClearSucc(t, "rSuspendClear", "rSuspended")
    BY <2>17 DEF ClearSucc, Step
  <2>18. CASE SelfSuspended(t, "rSuspended", "rSuspend")
    BY <2>18 DEF SelfSuspended, Step
  <2>19. CASE TryLock(t, "rTry", "unlink", "futile")
    BY SMT, <2>19 DEF TryLock, Acquired
  <2>20. CASE WaitEnd(t)
    BY <2>20 DEF WaitEnd, Step, Restored
  <2>. QED  BY <1>4, <2>1, <2>2, <2>3, <2>4, <2>5, <2>6, <2>7, <2>8, <2>9, <2>10,
            <2>11, <2>12, <2>13, <2>14, <2>15, <2>16, <2>17, <2>18, <2>19,
            <2>20 DEF WaitSteps
<1>5. CASE NotifySteps(t)
  <2>1. CASE notify(t)
    BY SMT, <2>1 DEF notify, Transmuted
  <2>2. CASE NotifyTake(t)
    BY SMT, <2>2 DEF NotifyTake, NotifyDone, DequeueWaiter
  <2>3. CASE SetNotified(t)
    BY <2>3 DEF SetNotified, Step
  <2>4. CASE NotifyPlace(t)
    BY <2>4 DEF NotifyPlace, NotifyDone, Place, Queued
  <2>5. CASE NotifyAllTake(t)
    BY SMT, <2>5 DEF NotifyAllTake, NotifyDone, DequeueWaiter
  <2>6. CASE SetTState(t)
    BY <2>6 DEF SetTState, Step
  <2>7. CASE NotifyAllPlace(t)
    BY <2>7 DEF NotifyAllPlace, Step, Place, Queued
  <2>. QED  BY <1>5, <2>1, <2>2, <2>3, <2>4, <2>5, <2>6, <2>7 DEF NotifySteps
<1>6. CASE ClientSteps(t)
  <2>1. CASE enterAgain(t)
    BY <2>1 DEF enterAgain, Transmuted
  <2>2. CASE \E o \in set.Ops[t] : enter(t, o)
    BY SMT, <2>2 DEF enter, EnterCas, Acquired, Entered
  <2>3. CASE interrupt(t)
    BY <2>3 DEF interrupt
  <2>4. CASE InterruptUnpark(t)
    BY <2>4 DEF InterruptUnpark
  <2>5. CASE java_suspend(t)
    BY <2>5 DEF java_suspend
  <2>6. CASE java_resume(t)
    BY <2>6 DEF java_resume
  <2>. QED  BY <1>6, <2>1, <2>2, <2>3, <2>4, <2>5, <2>6 DEF ClientSteps
<1>. QED  BY <1>1, <1>2, <1>3, <1>4, <1>5, <1>6 DEF Act, Run

\* Every action counts its thread correctly.
LEMMA CountStep ==
  ASSUME NEW t \in Thread, TypeOK, PcType, LocalType, RetInv(t), OpInv(t), Act(t)
  PROVE  CountEffect(t)
<1>. USE DEF At, Goto, locals, busyVars, PcType, LocalType, RetInv, OpInv, CountEffect,
           Contends, Queues, Waits, Waited, WaitOps, Notifying, Sleeping, Woken,
           Reentering, Spinning, Exiting, Pushing, Enqueued, Futile, Leaving
<1>1. CASE SpinSteps(t)
  <2>1. CASE TrySpin(t)
    BY SMT, <2>1 DEF TrySpin, Acquired, SpinWon, Entered
  <2>2. CASE SetSucc(t)
    BY <2>2 DEF SetSucc, Step
  <2>3. CASE Spin(t)
    BY <2>3 DEF Spin, Acquired
  <2>4. CASE TestSucc(t, "spun", "spunClear", SpinWon(t))
    BY <2>4 DEF TestSucc, IsHeir, SpinWon, Entered
  <2>5. CASE ClearSucc(t, "spunClear", SpinWon(t))
    BY <2>5 DEF ClearSucc, Step, SpinWon, Entered
  <2>6. CASE TestSucc(t, "abort", "abortClear", ret[t])
    BY <2>6 DEF TestSucc, IsHeir
  <2>7. CASE ClearSucc(t, "abortClear", "abortTry")
    BY <2>7 DEF ClearSucc, Step
  <2>8. CASE TryLock(t, "abortTry", SpinWon(t), ret[t])
    BY SMT, <2>8 DEF TryLock, Acquired, SpinWon, Entered
  <2>. QED  BY <1>1, <2>1, <2>2, <2>3, <2>4, <2>5, <2>6, <2>7, <2>8 DEF SpinSteps
<1>2. CASE EnterSteps(t)
  <2>1. CASE Enter(t)
    BY SMT, <2>1 DEF Enter, EnterCas, Acquired, Entered
  <2>2. CASE EnterI(t)
    BY <2>2 DEF EnterI, Acquired, Contended
  <2>3. CASE Reset(t)
    BY <2>3 DEF Reset, Step
  <2>4. CASE ReadCxq(t)
    BY <2>4 DEF ReadCxq, Step, TopOfCxq
  <2>5. CASE Push(t)
    BY <2>5 DEF Push, TopOfCxq
  <2>6. CASE PushRetry(t)
    BY <2>6 DEF PushRetry, Acquired
  <2>7. CASE TestOnset(t)
    BY <2>7 DEF TestOnset, OnsetOfContention
  <2>8. CASE AssumeResponsibility(t)
    BY <2>8 DEF AssumeResponsibility, Step
  <2>9. CASE TryLock(t, "loop", "unlink", "choose")
    BY <2>9 DEF TryLock, Acquired
  <2>10. CASE ChoosePark(t)
    BY <2>10 DEF ChoosePark
  <2>11. CASE Park(t, "park", FALSE, "woken")
    BY <2>11 DEF Park, Step
  <2>12. CASE Park(t, "timedPark", TRUE, "woken")
    BY <2>12 DEF Park, Step
  <2>13. CASE TryLock(t, "woken", "unlink", "spin")
    BY <2>13 DEF TryLock, Acquired
  <2>14. CASE TestSucc(t, "futile", "futileClear", Loop(t))
    BY <2>14 DEF TestSucc, IsHeir, Loop
  <2>15. CASE ClearSucc(t, "futileClear", Loop(t))
    BY <2>15 DEF ClearSucc, Step, Loop
  <2>16. CASE Unlink(t)
    BY <2>16 DEF Unlink, Step, Unlinked
  <2>17. CASE TestSucc(t, "egress", "egressClear", Egress(t))
    BY <2>17 DEF TestSucc, IsHeir, Egress
  <2>18. CASE ClearSucc(t, "egressClear", Egress(t))
    BY <2>18 DEF ClearSucc, Step, Egress
  <2>19. CASE EnterEnd(t)
    BY SMT, <2>19 DEF EnterEnd, Resigned, Entered
  <2>20. CASE SelfSuspended(t, "selfSuspend", "EnterI")
    BY <2>20 DEF SelfSuspended, Step
  <2>. QED  BY <1>2, <2>1, <2>2, <2>3, <2>4, <2>5, <2>6, <2>7, <2>8, <2>9, <2>10,
            <2>11, <2>12, <2>13, <2>14, <2>15, <2>16, <2>17, <2>18, <2>19,
            <2>20 DEF EnterSteps
<1>3. CASE ExitSteps(t)
  <2>1. CASE exit(t)
    BY <2>1 DEF exit, Transmuted, Nested
  <2>2. CASE Drop(t)
    BY <2>2 DEF Drop, NoHeir
  <2>3. CASE DropRatify(t)
    BY <2>3 DEF DropRatify, Step
  <2>4. CASE Load(t, "ratify", cxq # <<>>, "ldSucc", ret[t])
    BY <2>4 DEF Load
  <2>5. CASE Load(t, "ldEntryList", EntryList # <<>>, "ldSucc", "ldCxq")
    BY <2>5 DEF Load
  <2>6. CASE Load(t, "ldCxq", cxq # <<>>, "ldSucc", ret[t])
    BY <2>6 DEF Load
  <2>7. CASE Load(t, "ldSucc", NoHeir, "recas", ret[t])
    BY <2>7 DEF Load
  <2>8. CASE Reacquire(t)
    BY <2>8 DEF Reacquire, TryLock, Acquired
  <2>9. CASE Select(t)
    BY <2>9 DEF Select, Wake, Drain
  <2>10. CASE Abdicate(t)
    BY <2>10 DEF Abdicate, Wake, NoHeir
  <2>11. CASE NameHeir(t)
    BY <2>11 DEF NameHeir, Step
  <2>12. CASE EpilogDrop(t)
    BY <2>12 DEF EpilogDrop, Step
  <2>13. CASE Unpark(t)
    BY <2>13 DEF Unpark, Return
  <2>14. CASE Fast_Unlock(t)
    BY <2>14 DEF Fast_Unlock, Step
  <2>15. CASE FastDrop(t)
    BY <2>15 DEF FastDrop, Step
  <2>16. CASE complete_exit(t)
    BY <2>16 DEF complete_exit, Step, Transmuted
  <2>17. CASE Reentered(t)
    BY <2>17 DEF Reentered, Step, Restored
  <2>. QED  BY <1>3, <2>1, <2>2, <2>3, <2>4, <2>5, <2>6, <2>7, <2>8, <2>9, <2>10,
            <2>11, <2>12, <2>13, <2>14, <2>15, <2>16, <2>17 DEF ExitSteps
<1>4. CASE WaitSteps(t)
  <2>1. CASE wait(t)
    BY <2>1 DEF wait, Transmuted
  <2>2. CASE AddWaiter(t)
    BY <2>2 DEF AddWaiter, Step
  <2>3. CASE Repost(t)
    BY <2>3 DEF Repost, Step
  <2>4. CASE Load(t, "waitTest", ~interrupted[t], "waitNotified", "waitSuspend")
    BY <2>4 DEF Load
  <2>5. CASE Load(t, "waitNotified", ~notified[t], "waitPark", "waitSuspend")
    BY <2>5 DEF Load
  <2>6. CASE Park(t, "waitPark", op[t] = "timed_waiting", "waitSuspend")
    BY <2>6 DEF Park, Step
  <2>7. CASE Load(t, "waitSuspend", suspended[t], "waitSuspended", "waitState")
    BY <2>7 DEF Load
  <2>8. CASE SelfSuspended(t, "waitSuspended", "waitState")
    BY <2>8 DEF SelfSuspended, Step
  <2>9. CASE Load(t, "waitState", TState[t] = "TS_WAIT", "waitUnlink", "waitSucc")
    BY <2>9 DEF Load
  <2>10. CASE WaitUnlink(t)
    BY <2>10 DEF WaitUnlink, Step, DequeueSpecificWaiter
  <2>11. CASE TestSucc(t, "waitSucc", "waitSuccClear", "waitReenter")
    BY <2>11 DEF TestSucc, IsHeir
  <2>12. CASE ClearSucc(t, "waitSuccClear", "waitReenter")
    BY <2>12 DEF ClearSucc, Step
  <2>13. CASE WaitReenter(t)
    BY SMT, <2>13 DEF WaitReenter
  <2>14. CASE TryLock(t, "ReenterI", "unlink", "spin")
    BY <2>14 DEF TryLock, Acquired
  <2>15. CASE Park(t, "rPark", FALSE, "rSuspend")
    BY <2>15 DEF Park, Step
  <2>16. CASE SuspendCheckReenter(t)
    BY <2>16 DEF SuspendCheckReenter
  <2>17. CASE ClearSucc(t, "rSuspendClear", "rSuspended")
    BY <2>17 DEF ClearSucc, Step
  <2>18. CASE SelfSuspended(t, "rSuspended", "rSuspend")
    BY <2>18 DEF SelfSuspended, Step
  <2>19. CASE TryLock(t, "rTry", "unlink", "futile")
    BY <2>19 DEF TryLock, Acquired
  <2>20. CASE WaitEnd(t)
    BY <2>20 DEF WaitEnd, Step, Restored
  <2>. QED  BY <1>4, <2>1, <2>2, <2>3, <2>4, <2>5, <2>6, <2>7, <2>8, <2>9, <2>10,
            <2>11, <2>12, <2>13, <2>14, <2>15, <2>16, <2>17, <2>18, <2>19,
            <2>20 DEF WaitSteps
<1>5. CASE NotifySteps(t)
  <2>1. CASE notify(t)
    BY <2>1 DEF notify, Transmuted
  <2>2. CASE NotifyTake(t)
    BY <2>2 DEF NotifyTake, NotifyDone, DequeueWaiter
  <2>3. CASE SetNotified(t)
    BY <2>3 DEF SetNotified, Step
  <2>4. CASE NotifyPlace(t)
    BY <2>4 DEF NotifyPlace, NotifyDone, Place, Queued
  <2>5. CASE NotifyAllTake(t)
    BY <2>5 DEF NotifyAllTake, NotifyDone, DequeueWaiter
  <2>6. CASE SetTState(t)
    BY <2>6 DEF SetTState, Step
  <2>7. CASE NotifyAllPlace(t)
    BY <2>7 DEF NotifyAllPlace, Step, Place, Queued
  <2>. QED  BY <1>5, <2>1, <2>2, <2>3, <2>4, <2>5, <2>6, <2>7 DEF NotifySteps
<1>6. CASE ClientSteps(t)
  <2>1. CASE enterAgain(t)
    BY <2>1 DEF enterAgain, Transmuted
  <2>2. CASE \E o \in set.Ops[t] : enter(t, o)
    BY SMT, <2>2, OpsFacts DEF enter, EnterCas, Acquired, Entered
  <2>3. CASE interrupt(t)
    BY <2>3 DEF interrupt
  <2>4. CASE InterruptUnpark(t)
    BY <2>4 DEF InterruptUnpark
  <2>5. CASE java_suspend(t)
    BY <2>5 DEF java_suspend
  <2>6. CASE java_resume(t)
    BY <2>6 DEF java_resume
  <2>. QED  BY <1>6, <2>1, <2>2, <2>3, <2>4, <2>5, <2>6 DEF ClientSteps
<1>. QED  BY <1>1, <1>2, <1>3, <1>4, <1>5, <1>6 DEF Act, Run

\* Every action keeps the other types.
LEMMA EnvTypeStep ==
  ASSUME NEW t \in Thread, PcType, LocalType, EnvType, Act(t)
  PROVE  EnvType'
<1>. USE DEF Unparked, lockVars, waitVars, envVars, locals, LocalType, EnvType
<1>1. CASE SpinSteps(t)
  <2>1. CASE TrySpin(t)
    BY <2>1 DEF TrySpin, Acquired, SpinWon, Entered
  <2>2. CASE SetSucc(t)
    BY <2>2 DEF SetSucc, Step
  <2>3. CASE Spin(t)
    BY <2>3 DEF Spin, Acquired
  <2>4. CASE TestSucc(t, "spun", "spunClear", SpinWon(t))
    BY <2>4 DEF TestSucc, IsHeir, SpinWon, Entered
  <2>5. CASE ClearSucc(t, "spunClear", SpinWon(t))
    BY <2>5 DEF ClearSucc, Step, SpinWon, Entered
  <2>6. CASE TestSucc(t, "abort", "abortClear", ret[t])
    BY <2>6 DEF TestSucc, IsHeir
  <2>7. CASE ClearSucc(t, "abortClear", "abortTry")
    BY <2>7 DEF ClearSucc, Step
  <2>8. CASE TryLock(t, "abortTry", SpinWon(t), ret[t])
    BY <2>8 DEF TryLock, Acquired, SpinWon, Entered
  <2>. QED  BY <1>1, <2>1, <2>2, <2>3, <2>4, <2>5, <2>6, <2>7, <2>8 DEF SpinSteps
<1>2. CASE EnterSteps(t)
  <2>1. CASE Enter(t)
    BY <2>1 DEF Enter, EnterCas, Acquired, Entered
  <2>2. CASE EnterI(t)
    BY <2>2 DEF EnterI, Acquired, Contended
  <2>3. CASE Reset(t)
    BY <2>3 DEF Reset, Step
  <2>4. CASE ReadCxq(t)
    BY <2>4 DEF ReadCxq, Step, TopOfCxq
  <2>5. CASE Push(t)
    BY <2>5 DEF Push, TopOfCxq
  <2>6. CASE PushRetry(t)
    BY <2>6 DEF PushRetry, Acquired
  <2>7. CASE TestOnset(t)
    BY <2>7 DEF TestOnset, OnsetOfContention
  <2>8. CASE AssumeResponsibility(t)
    BY <2>8 DEF AssumeResponsibility, Step
  <2>9. CASE TryLock(t, "loop", "unlink", "choose")
    BY <2>9 DEF TryLock, Acquired
  <2>10. CASE ChoosePark(t)
    BY <2>10 DEF ChoosePark
  <2>11. CASE Park(t, "park", FALSE, "woken")
    BY <2>11 DEF Park, Step
  <2>12. CASE Park(t, "timedPark", TRUE, "woken")
    BY <2>12 DEF Park, Step
  <2>13. CASE TryLock(t, "woken", "unlink", "spin")
    BY <2>13 DEF TryLock, Acquired
  <2>14. CASE TestSucc(t, "futile", "futileClear", Loop(t))
    BY <2>14 DEF TestSucc, IsHeir, Loop
  <2>15. CASE ClearSucc(t, "futileClear", Loop(t))
    BY <2>15 DEF ClearSucc, Step, Loop
  <2>16. CASE Unlink(t)
    BY <2>16 DEF Unlink, Step, Unlinked
  <2>17. CASE TestSucc(t, "egress", "egressClear", Egress(t))
    BY <2>17 DEF TestSucc, IsHeir, Egress
  <2>18. CASE ClearSucc(t, "egressClear", Egress(t))
    BY <2>18 DEF ClearSucc, Step, Egress
  <2>19. CASE EnterEnd(t)
    BY SMT, <2>19 DEF EnterEnd
  <2>20. CASE SelfSuspended(t, "selfSuspend", "EnterI")
    BY <2>20 DEF SelfSuspended, Step
  <2>. QED  BY <1>2, <2>1, <2>2, <2>3, <2>4, <2>5, <2>6, <2>7, <2>8, <2>9, <2>10,
            <2>11, <2>12, <2>13, <2>14, <2>15, <2>16, <2>17, <2>18, <2>19,
            <2>20 DEF EnterSteps
<1>3. CASE ExitSteps(t)
  <2>1. CASE exit(t)
    BY SMT, <2>1 DEF exit, Transmuted, Nested
  <2>2. CASE Drop(t)
    BY <2>2 DEF Drop, NoHeir
  <2>3. CASE DropRatify(t)
    BY <2>3 DEF DropRatify, Step
  <2>4. CASE Load(t, "ratify", cxq # <<>>, "ldSucc", ret[t])
    BY <2>4 DEF Load
  <2>5. CASE Load(t, "ldEntryList", EntryList # <<>>, "ldSucc", "ldCxq")
    BY <2>5 DEF Load
  <2>6. CASE Load(t, "ldCxq", cxq # <<>>, "ldSucc", ret[t])
    BY <2>6 DEF Load
  <2>7. CASE Load(t, "ldSucc", NoHeir, "recas", ret[t])
    BY <2>7 DEF Load
  <2>8. CASE Reacquire(t)
    BY <2>8 DEF Reacquire, TryLock, Acquired
  <2>9. CASE Select(t)
    BY <2>9 DEF Select, Wake, Drain
  <2>10. CASE Abdicate(t)
    BY <2>10 DEF Abdicate, Wake, NoHeir
  <2>11. CASE NameHeir(t)
    BY <2>11 DEF NameHeir, Step
  <2>12. CASE EpilogDrop(t)
    BY <2>12 DEF EpilogDrop, Step
  <2>13. CASE Unpark(t)
    BY <2>13 DEF Unpark, Return
  <2>14. CASE Fast_Unlock(t)
    BY <2>14 DEF Fast_Unlock, Step
  <2>15. CASE FastDrop(t)
    BY <2>15 DEF FastDrop, Step
  <2>16. CASE complete_exit(t)
    BY <2>16 DEF complete_exit, Step, Transmuted
  <2>17. CASE Reentered(t)
    BY <2>17 DEF Reentered, Step, Restored
  <2>. QED  BY <1>3, <2>1, <2>2, <2>3, <2>4, <2>5, <2>6, <2>7, <2>8, <2>9, <2>10,
            <2>11, <2>12, <2>13, <2>14, <2>15, <2>16, <2>17 DEF ExitSteps
<1>4. CASE WaitSteps(t)
  <2>1. CASE wait(t)
    BY <2>1 DEF wait, Transmuted
  <2>2. CASE AddWaiter(t)
    BY <2>2 DEF AddWaiter, Step
  <2>3. CASE Repost(t)
    BY <2>3 DEF Repost, Step
  <2>4. CASE Load(t, "waitTest", ~interrupted[t], "waitNotified", "waitSuspend")
    BY <2>4 DEF Load
  <2>5. CASE Load(t, "waitNotified", ~notified[t], "waitPark", "waitSuspend")
    BY <2>5 DEF Load
  <2>6. CASE Park(t, "waitPark", op[t] = "timed_waiting", "waitSuspend")
    BY <2>6 DEF Park, Step
  <2>7. CASE Load(t, "waitSuspend", suspended[t], "waitSuspended", "waitState")
    BY <2>7 DEF Load
  <2>8. CASE SelfSuspended(t, "waitSuspended", "waitState")
    BY <2>8 DEF SelfSuspended, Step
  <2>9. CASE Load(t, "waitState", TState[t] = "TS_WAIT", "waitUnlink", "waitSucc")
    BY <2>9 DEF Load
  <2>10. CASE WaitUnlink(t)
    BY <2>10 DEF WaitUnlink, Step, DequeueSpecificWaiter
  <2>11. CASE TestSucc(t, "waitSucc", "waitSuccClear", "waitReenter")
    BY <2>11 DEF TestSucc, IsHeir
  <2>12. CASE ClearSucc(t, "waitSuccClear", "waitReenter")
    BY <2>12 DEF ClearSucc, Step
  <2>13. CASE WaitReenter(t)
    BY <2>13 DEF WaitReenter
  <2>14. CASE TryLock(t, "ReenterI", "unlink", "spin")
    BY <2>14 DEF TryLock, Acquired
  <2>15. CASE Park(t, "rPark", FALSE, "rSuspend")
    BY <2>15 DEF Park, Step
  <2>16. CASE SuspendCheckReenter(t)
    BY <2>16 DEF SuspendCheckReenter
  <2>17. CASE ClearSucc(t, "rSuspendClear", "rSuspended")
    BY <2>17 DEF ClearSucc, Step
  <2>18. CASE SelfSuspended(t, "rSuspended", "rSuspend")
    BY <2>18 DEF SelfSuspended, Step
  <2>19. CASE TryLock(t, "rTry", "unlink", "futile")
    BY <2>19 DEF TryLock, Acquired
  <2>20. CASE WaitEnd(t)
    BY <2>20 DEF WaitEnd, Step, Restored
  <2>. QED  BY <1>4, <2>1, <2>2, <2>3, <2>4, <2>5, <2>6, <2>7, <2>8, <2>9, <2>10,
            <2>11, <2>12, <2>13, <2>14, <2>15, <2>16, <2>17, <2>18, <2>19,
            <2>20 DEF WaitSteps
<1>5. CASE NotifySteps(t)
  <2>1. CASE notify(t)
    BY <2>1 DEF notify, Transmuted
  <2>2. CASE NotifyTake(t)
    BY <2>2 DEF NotifyTake, NotifyDone, DequeueWaiter
  <2>3. CASE SetNotified(t)
    BY <2>3 DEF SetNotified, Step
  <2>4. CASE NotifyPlace(t)
    BY <2>4 DEF NotifyPlace, NotifyDone, Place, Queued
  <2>5. CASE NotifyAllTake(t)
    BY <2>5 DEF NotifyAllTake, NotifyDone, DequeueWaiter
  <2>6. CASE SetTState(t)
    BY <2>6 DEF SetTState, Step
  <2>7. CASE NotifyAllPlace(t)
    BY <2>7 DEF NotifyAllPlace, Step, Place, Queued
  <2>. QED  BY <1>5, <2>1, <2>2, <2>3, <2>4, <2>5, <2>6, <2>7 DEF NotifySteps
<1>6. CASE ClientSteps(t)
  <2>1. CASE enterAgain(t)
    BY SMT, <2>1 DEF enterAgain, Transmuted
  <2>2. CASE \E o \in set.Ops[t] : enter(t, o)
    BY SMT, <2>2 DEF enter
  <2>3. CASE interrupt(t)
    BY SMT, <2>3 DEF interrupt
  <2>4. CASE InterruptUnpark(t)
    BY <2>4 DEF InterruptUnpark
  <2>5. CASE java_suspend(t)
    BY SMT, <2>5 DEF java_suspend
  <2>6. CASE java_resume(t)
    BY <2>6 DEF java_resume
  <2>. QED  BY <1>6, <2>1, <2>2, <2>3, <2>4, <2>5, <2>6 DEF ClientSteps
<1>. QED  BY <1>1, <1>2, <1>3, <1>4, <1>5, <1>6 DEF Act, Run

\* What every action looks like from outside.
LEMMA ViewStep ==
  ASSUME NEW t \in Thread, TypeOK, PcType, LocalType, LocalInv(t),
         pc[t] = "fastDrop" => recursions = 0, owner = BasicLock(t) => recursions = 0, Act(t)
  PROVE  ViewEffect(t)
<1>. USE DEF At, Goto, lockVars, waitVars, locals, PcType, LocalType, LocalInv, RetInv,
           OpInv, Waits, WaitOps, ViewEffect, HasIt, Visible, Away, Notifying,
           Reentering, Sleeping, Woken, Spinning, Exiting, Pushing, Enqueued, Futile,
           Leaving
<1>1. CASE SpinSteps(t)
  <2>1. CASE TrySpin(t)
    BY <2>1 DEF TrySpin, Acquired, SpinWon, Entered
  <2>2. CASE SetSucc(t)
    BY <2>2 DEF SetSucc, Step
  <2>3. CASE Spin(t)
    BY <2>3 DEF Spin, Acquired
  <2>4. CASE TestSucc(t, "spun", "spunClear", SpinWon(t))
    BY <2>4 DEF TestSucc, IsHeir, SpinWon, Entered
  <2>5. CASE ClearSucc(t, "spunClear", SpinWon(t))
    BY <2>5 DEF ClearSucc, Step, SpinWon, Entered
  <2>6. CASE TestSucc(t, "abort", "abortClear", ret[t])
    BY <2>6 DEF TestSucc, IsHeir
  <2>7. CASE ClearSucc(t, "abortClear", "abortTry")
    BY <2>7 DEF ClearSucc, Step
  <2>8. CASE TryLock(t, "abortTry", SpinWon(t), ret[t])
    BY <2>8 DEF TryLock, Acquired, SpinWon, Entered
  <2>. QED  BY <1>1, <2>1, <2>2, <2>3, <2>4, <2>5, <2>6, <2>7, <2>8 DEF SpinSteps
<1>2. CASE EnterSteps(t)
  <2>1. CASE Enter(t)
    BY <2>1 DEF Enter, EnterCas, Acquired, Entered
  <2>2. CASE EnterI(t)
    BY <2>2 DEF EnterI, Acquired, Contended
  <2>3. CASE Reset(t)
    BY <2>3 DEF Reset, Step
  <2>4. CASE ReadCxq(t)
    BY <2>4 DEF ReadCxq, Step, TopOfCxq
  <2>5. CASE Push(t)
    BY <2>5 DEF Push, TopOfCxq
  <2>6. CASE PushRetry(t)
    BY <2>6 DEF PushRetry, Acquired
  <2>7. CASE TestOnset(t)
    BY <2>7 DEF TestOnset, OnsetOfContention
  <2>8. CASE AssumeResponsibility(t)
    BY <2>8 DEF AssumeResponsibility, Step
  <2>9. CASE TryLock(t, "loop", "unlink", "choose")
    BY <2>9 DEF TryLock, Acquired
  <2>10. CASE ChoosePark(t)
    BY <2>10 DEF ChoosePark
  <2>11. CASE Park(t, "park", FALSE, "woken")
    BY <2>11 DEF Park, Step
  <2>12. CASE Park(t, "timedPark", TRUE, "woken")
    BY <2>12 DEF Park, Step
  <2>13. CASE TryLock(t, "woken", "unlink", "spin")
    BY <2>13 DEF TryLock, Acquired
  <2>14. CASE TestSucc(t, "futile", "futileClear", Loop(t))
    BY <2>14 DEF TestSucc, IsHeir, Loop
  <2>15. CASE ClearSucc(t, "futileClear", Loop(t))
    BY <2>15 DEF ClearSucc, Step, Loop
  <2>16. CASE Unlink(t)
    BY <2>16 DEF Unlink, Step, Unlinked
  <2>17. CASE TestSucc(t, "egress", "egressClear", Egress(t))
    BY <2>17 DEF TestSucc, IsHeir, Egress
  <2>18. CASE ClearSucc(t, "egressClear", Egress(t))
    BY <2>18 DEF ClearSucc, Step, Egress
  <2>19. CASE EnterEnd(t)
    BY <2>19 DEF EnterEnd, Resigned, Entered
  <2>20. CASE SelfSuspended(t, "selfSuspend", "EnterI")
    BY <2>20 DEF SelfSuspended, Step
  <2>. QED  BY <1>2, <2>1, <2>2, <2>3, <2>4, <2>5, <2>6, <2>7, <2>8, <2>9, <2>10,
            <2>11, <2>12, <2>13, <2>14, <2>15, <2>16, <2>17, <2>18, <2>19,
            <2>20 DEF EnterSteps
<1>3. CASE ExitSteps(t)
  <2>1. CASE exit(t)
    BY SMT, <2>1 DEF exit, Transmuted, Nested
  <2>2. CASE Drop(t)
    BY <2>2 DEF Drop, NoHeir
  <2>3. CASE DropRatify(t)
    BY <2>3 DEF DropRatify, Step
  <2>4. CASE Load(t, "ratify", cxq # <<>>, "ldSucc", ret[t])
    BY <2>4 DEF Load
  <2>5. CASE Load(t, "ldEntryList", EntryList # <<>>, "ldSucc", "ldCxq")
    BY <2>5 DEF Load
  <2>6. CASE Load(t, "ldCxq", cxq # <<>>, "ldSucc", ret[t])
    BY <2>6 DEF Load
  <2>7. CASE Load(t, "ldSucc", NoHeir, "recas", ret[t])
    BY <2>7 DEF Load
  <2>8. CASE Reacquire(t)
    BY <2>8 DEF Reacquire, TryLock, Acquired
  <2>9. CASE Select(t)
    BY <2>9 DEF Select, Wake, Drain
  <2>10. CASE Abdicate(t)
    BY <2>10 DEF Abdicate, Wake, NoHeir
  <2>11. CASE NameHeir(t)
    BY <2>11 DEF NameHeir, Step
  <2>12. CASE EpilogDrop(t)
    BY <2>12 DEF EpilogDrop, Step
  <2>13. CASE Unpark(t)
    BY <2>13 DEF Unpark, Return
  <2>14. CASE Fast_Unlock(t)
    BY <2>14 DEF Fast_Unlock, Step
  <2>15. CASE FastDrop(t)
    BY <2>15 DEF FastDrop, Step
  <2>16. CASE complete_exit(t)
    BY <2>16 DEF complete_exit, Step, Transmuted
  <2>17. CASE Reentered(t)
    BY <2>17 DEF Reentered, Step, Restored
  <2>. QED  BY <1>3, <2>1, <2>2, <2>3, <2>4, <2>5, <2>6, <2>7, <2>8, <2>9, <2>10,
            <2>11, <2>12, <2>13, <2>14, <2>15, <2>16, <2>17 DEF ExitSteps
<1>4. CASE WaitSteps(t)
  <2>1. CASE wait(t)
    BY <2>1 DEF wait, Transmuted
  <2>2. CASE AddWaiter(t)
    BY <2>2 DEF ViewEffect
  <2>3. CASE Repost(t)
    BY <2>3 DEF Repost, Step
  <2>4. CASE Load(t, "waitTest", ~interrupted[t], "waitNotified", "waitSuspend")
    BY <2>4 DEF Load
  <2>5. CASE Load(t, "waitNotified", ~notified[t], "waitPark", "waitSuspend")
    BY <2>5 DEF Load
  <2>6. CASE Park(t, "waitPark", op[t] = "timed_waiting", "waitSuspend")
    BY <2>6 DEF Park, Step
  <2>7. CASE Load(t, "waitSuspend", suspended[t], "waitSuspended", "waitState")
    BY <2>7 DEF Load
  <2>8. CASE SelfSuspended(t, "waitSuspended", "waitState")
    BY <2>8 DEF SelfSuspended, Step
  <2>9. CASE Load(t, "waitState", TState[t] = "TS_WAIT", "waitUnlink", "waitSucc")
    BY <2>9 DEF Load
  <2>10. CASE WaitUnlink(t)
    BY <2>10 DEF ViewEffect
  <2>11. CASE TestSucc(t, "waitSucc", "waitSuccClear", "waitReenter")
    BY <2>11 DEF TestSucc, IsHeir
  <2>12. CASE ClearSucc(t, "waitSuccClear", "waitReenter")
    BY <2>12 DEF ClearSucc, Step
  <2>13. CASE WaitReenter(t)
    BY <2>13 DEF WaitReenter
  <2>14. CASE TryLock(t, "ReenterI", "unlink", "spin")
    BY <2>14 DEF TryLock, Acquired
  <2>15. CASE Park(t, "rPark", FALSE, "rSuspend")
    BY <2>15 DEF Park, Step
  <2>16. CASE SuspendCheckReenter(t)
    BY <2>16 DEF SuspendCheckReenter
  <2>17. CASE ClearSucc(t, "rSuspendClear", "rSuspended")
    BY <2>17 DEF ClearSucc, Step
  <2>18. CASE SelfSuspended(t, "rSuspended", "rSuspend")
    BY <2>18 DEF SelfSuspended, Step
  <2>19. CASE TryLock(t, "rTry", "unlink", "futile")
    BY <2>19 DEF TryLock, Acquired
  <2>20. CASE WaitEnd(t)
    BY <2>20 DEF WaitEnd, Step, Restored
  <2>. QED  BY <1>4, <2>1, <2>2, <2>3, <2>4, <2>5, <2>6, <2>7, <2>8, <2>9, <2>10,
            <2>11, <2>12, <2>13, <2>14, <2>15, <2>16, <2>17, <2>18, <2>19,
            <2>20 DEF WaitSteps
<1>5. CASE NotifySteps(t)
  <2>1. CASE notify(t)
    BY <2>1 DEF notify, Transmuted
  <2>2. CASE NotifyTake(t)
    BY <2>2 DEF ViewEffect
  <2>3. CASE SetNotified(t)
    BY <2>3 DEF SetNotified, Step
  <2>4. CASE NotifyPlace(t)
    BY <2>4 DEF NotifyPlace, NotifyDone, Place, Queued
  <2>5. CASE NotifyAllTake(t)
    BY <2>5 DEF ViewEffect
  <2>6. CASE SetTState(t)
    BY <2>6 DEF SetTState, Step
  <2>7. CASE NotifyAllPlace(t)
    BY <2>7 DEF NotifyAllPlace, Step, Place, Queued
  <2>. QED  BY <1>5, <2>1, <2>2, <2>3, <2>4, <2>5, <2>6, <2>7 DEF NotifySteps
<1>6. CASE ClientSteps(t)
  <2>1. CASE enterAgain(t)
    BY SMT, <2>1 DEF enterAgain, Transmuted
  <2>2. CASE \E o \in set.Ops[t] : enter(t, o)
    BY SMT, <2>2, OpsFacts DEF enter, EnterCas, Acquired, Entered
  <2>3. CASE interrupt(t)
    BY <2>3 DEF interrupt
  <2>4. CASE InterruptUnpark(t)
    BY <2>4 DEF InterruptUnpark
  <2>5. CASE java_suspend(t)
    BY <2>5 DEF java_suspend
  <2>6. CASE java_resume(t)
    BY <2>6 DEF java_resume
  <2>. QED  BY <1>6, <2>1, <2>2, <2>3, <2>4, <2>5, <2>6 DEF ClientSteps
<1>. QED  BY <1>1, <1>2, <1>3, <1>4, <1>5, <1>6 DEF Act, Run

\* No action leaves the thread heir or responsible where it should not be.
LEMMA HeirStep ==
  ASSUME NEW t \in Thread, PcType, LocalType, LocalInv(t), Act(t)
  PROVE  HeirEffect(t)
<1>. USE DEF At, Goto, locals, queueVars, heirVars, PcType, LocalType, LocalInv, RetInv,
           NodeInv, HeirEffect, MayBeHeir, Listed, Queues, Notifying, Sleeping, Woken,
           Reentering, Spinning, Exiting, Pushing, Enqueued, Futile, Leaving
<1>1. CASE SpinSteps(t)
  <2>1. CASE TrySpin(t)
    BY <2>1 DEF TrySpin, Acquired, SpinWon, Entered
  <2>2. CASE SetSucc(t)
    BY <2>2 DEF SetSucc, Step
  <2>3. CASE Spin(t)
    BY <2>3 DEF Spin, Acquired
  <2>4. CASE TestSucc(t, "spun", "spunClear", SpinWon(t))
    BY <2>4 DEF TestSucc, IsHeir, SpinWon, Entered
  <2>5. CASE ClearSucc(t, "spunClear", SpinWon(t))
    BY <2>5 DEF ClearSucc, Step, SpinWon, Entered
  <2>6. CASE TestSucc(t, "abort", "abortClear", ret[t])
    BY <2>6 DEF TestSucc, IsHeir
  <2>7. CASE ClearSucc(t, "abortClear", "abortTry")
    BY <2>7 DEF ClearSucc, Step
  <2>8. CASE TryLock(t, "abortTry", SpinWon(t), ret[t])
    BY <2>8 DEF TryLock, Acquired, SpinWon, Entered
  <2>. QED  BY <1>1, <2>1, <2>2, <2>3, <2>4, <2>5, <2>6, <2>7, <2>8 DEF SpinSteps
<1>2. CASE EnterSteps(t)
  <2>1. CASE Enter(t)
    BY <2>1 DEF Enter, EnterCas, Acquired, Entered
  <2>2. CASE EnterI(t)
    BY <2>2 DEF EnterI, Acquired, Contended
  <2>3. CASE Reset(t)
    BY <2>3 DEF Reset, Step
  <2>4. CASE ReadCxq(t)
    BY <2>4 DEF ReadCxq, Step, TopOfCxq
  <2>5. CASE Push(t)
    BY <2>5 DEF Push, TopOfCxq
  <2>6. CASE PushRetry(t)
    BY <2>6 DEF PushRetry, Acquired
  <2>7. CASE TestOnset(t)
    BY <2>7 DEF TestOnset, OnsetOfContention
  <2>8. CASE AssumeResponsibility(t)
    BY <2>8 DEF AssumeResponsibility, Step
  <2>9. CASE TryLock(t, "loop", "unlink", "choose")
    BY <2>9 DEF TryLock, Acquired
  <2>10. CASE ChoosePark(t)
    BY <2>10 DEF ChoosePark
  <2>11. CASE Park(t, "park", FALSE, "woken")
    BY <2>11 DEF Park, Step
  <2>12. CASE Park(t, "timedPark", TRUE, "woken")
    BY <2>12 DEF Park, Step
  <2>13. CASE TryLock(t, "woken", "unlink", "spin")
    BY <2>13 DEF TryLock, Acquired
  <2>14. CASE TestSucc(t, "futile", "futileClear", Loop(t))
    BY <2>14 DEF TestSucc, IsHeir, Loop
  <2>15. CASE ClearSucc(t, "futileClear", Loop(t))
    BY <2>15 DEF ClearSucc, Step, Loop
  <2>16. CASE Unlink(t)
    BY <2>16 DEF Unlink, Step, Unlinked
  <2>17. CASE TestSucc(t, "egress", "egressClear", Egress(t))
    BY <2>17 DEF TestSucc, IsHeir, Egress
  <2>18. CASE ClearSucc(t, "egressClear", Egress(t))
    BY <2>18 DEF ClearSucc, Step, Egress
  <2>19. CASE EnterEnd(t)
    BY <2>19 DEF EnterEnd, Resigned, Entered
  <2>20. CASE SelfSuspended(t, "selfSuspend", "EnterI")
    BY <2>20 DEF SelfSuspended, Step
  <2>. QED  BY <1>2, <2>1, <2>2, <2>3, <2>4, <2>5, <2>6, <2>7, <2>8, <2>9, <2>10,
            <2>11, <2>12, <2>13, <2>14, <2>15, <2>16, <2>17, <2>18, <2>19,
            <2>20 DEF EnterSteps
<1>3. CASE ExitSteps(t)
  <2>1. CASE exit(t)
    BY <2>1 DEF exit, Transmuted, Nested
  <2>2. CASE Drop(t)
    BY <2>2 DEF Drop, NoHeir
  <2>3. CASE DropRatify(t)
    BY <2>3 DEF DropRatify, Step
  <2>4. CASE Load(t, "ratify", cxq # <<>>, "ldSucc", ret[t])
    BY <2>4 DEF Load
  <2>5. CASE Load(t, "ldEntryList", EntryList # <<>>, "ldSucc", "ldCxq")
    BY <2>5 DEF Load
  <2>6. CASE Load(t, "ldCxq", cxq # <<>>, "ldSucc", ret[t])
    BY <2>6 DEF Load
  <2>7. CASE Load(t, "ldSucc", NoHeir, "recas", ret[t])
    BY <2>7 DEF Load
  <2>8. CASE Reacquire(t)
    BY <2>8 DEF Reacquire, TryLock, Acquired
  <2>9. CASE Select(t)
    BY SMT, <2>9 DEF Select, Wake, Drain
  <2>10. CASE Abdicate(t)
    BY <2>10 DEF Abdicate, Wake, NoHeir
  <2>11. CASE NameHeir(t)
    BY <2>11 DEF NameHeir, Step
  <2>12. CASE EpilogDrop(t)
    BY <2>12 DEF EpilogDrop, Step
  <2>13. CASE Unpark(t)
    BY <2>13 DEF Unpark, Return
  <2>14. CASE Fast_Unlock(t)
    BY <2>14 DEF Fast_Unlock, Step
  <2>15. CASE FastDrop(t)
    BY <2>15 DEF FastDrop, Step
  <2>16. CASE complete_exit(t)
    BY <2>16 DEF complete_exit, Step, Transmuted
  <2>17. CASE Reentered(t)
    BY <2>17 DEF Reentered, Step, Restored
  <2>. QED  BY <1>3, <2>1, <2>2, <2>3, <2>4, <2>5, <2>6, <2>7, <2>8, <2>9, <2>10,
            <2>11, <2>12, <2>13, <2>14, <2>15, <2>16, <2>17 DEF ExitSteps
<1>4. CASE WaitSteps(t)
  <2>1. CASE wait(t)
    BY <2>1 DEF wait, Transmuted
  <2>2. CASE AddWaiter(t)
    BY <2>2 DEF AddWaiter, Step
  <2>3. CASE Repost(t)
    BY <2>3 DEF Repost, Step
  <2>4. CASE Load(t, "waitTest", ~interrupted[t], "waitNotified", "waitSuspend")
    BY <2>4 DEF Load
  <2>5. CASE Load(t, "waitNotified", ~notified[t], "waitPark", "waitSuspend")
    BY <2>5 DEF Load
  <2>6. CASE Park(t, "waitPark", op[t] = "timed_waiting", "waitSuspend")
    BY <2>6 DEF Park, Step
  <2>7. CASE Load(t, "waitSuspend", suspended[t], "waitSuspended", "waitState")
    BY <2>7 DEF Load
  <2>8. CASE SelfSuspended(t, "waitSuspended", "waitState")
    BY <2>8 DEF SelfSuspended, Step
  <2>9. CASE Load(t, "waitState", TState[t] = "TS_WAIT", "waitUnlink", "waitSucc")
    BY <2>9 DEF Load
  <2>10. CASE WaitUnlink(t)
    BY <2>10 DEF WaitUnlink, Step, DequeueSpecificWaiter
  <2>11. CASE TestSucc(t, "waitSucc", "waitSuccClear", "waitReenter")
    BY <2>11 DEF TestSucc, IsHeir
  <2>12. CASE ClearSucc(t, "waitSuccClear", "waitReenter")
    BY <2>12 DEF ClearSucc, Step
  <2>13. CASE WaitReenter(t)
    BY <2>13 DEF WaitReenter
  <2>14. CASE TryLock(t, "ReenterI", "unlink", "spin")
    BY <2>14 DEF TryLock, Acquired
  <2>15. CASE Park(t, "rPark", FALSE, "rSuspend")
    BY <2>15 DEF Park, Step
  <2>16. CASE SuspendCheckReenter(t)
    BY <2>16 DEF SuspendCheckReenter
  <2>17. CASE ClearSucc(t, "rSuspendClear", "rSuspended")
    BY <2>17 DEF ClearSucc, Step
  <2>18. CASE SelfSuspended(t, "rSuspended", "rSuspend")
    BY <2>18 DEF SelfSuspended, Step
  <2>19. CASE TryLock(t, "rTry", "unlink", "futile")
    BY <2>19 DEF TryLock, Acquired
  <2>20. CASE WaitEnd(t)
    BY <2>20 DEF WaitEnd, Step, Restored
  <2>. QED  BY <1>4, <2>1, <2>2, <2>3, <2>4, <2>5, <2>6, <2>7, <2>8, <2>9, <2>10,
            <2>11, <2>12, <2>13, <2>14, <2>15, <2>16, <2>17, <2>18, <2>19,
            <2>20 DEF WaitSteps
<1>5. CASE NotifySteps(t)
  <2>1. CASE notify(t)
    BY <2>1 DEF notify, Transmuted
  <2>2. CASE NotifyTake(t)
    BY <2>2 DEF NotifyTake, NotifyDone, DequeueWaiter
  <2>3. CASE SetNotified(t)
    BY <2>3 DEF SetNotified, Step
  <2>4. CASE NotifyPlace(t)
    BY <2>4 DEF NotifyPlace, NotifyDone, Place, Queued
  <2>5. CASE NotifyAllTake(t)
    BY <2>5 DEF NotifyAllTake, NotifyDone, DequeueWaiter
  <2>6. CASE SetTState(t)
    BY <2>6 DEF SetTState, Step
  <2>7. CASE NotifyAllPlace(t)
    BY <2>7 DEF NotifyAllPlace, Step, Place, Queued
  <2>. QED  BY <1>5, <2>1, <2>2, <2>3, <2>4, <2>5, <2>6, <2>7 DEF NotifySteps
<1>6. CASE ClientSteps(t)
  <2>1. CASE enterAgain(t)
    BY <2>1 DEF enterAgain, Transmuted
  <2>2. CASE \E o \in set.Ops[t] : enter(t, o)
    BY <2>2 DEF enter, EnterCas, Acquired, Entered
  <2>3. CASE interrupt(t)
    BY <2>3 DEF interrupt
  <2>4. CASE InterruptUnpark(t)
    BY <2>4 DEF InterruptUnpark
  <2>5. CASE java_suspend(t)
    BY <2>5 DEF java_suspend
  <2>6. CASE java_resume(t)
    BY <2>6 DEF java_resume
  <2>. QED  BY <1>6, <2>1, <2>2, <2>3, <2>4, <2>5, <2>6 DEF ClientSteps
<1>. QED  BY <1>1, <1>2, <1>3, <1>4, <1>5, <1>6 DEF Act, Run

\* Every action is a step of one thread.
LEMMA OthersStep ==
  ASSUME NEW t \in Thread, PcType, LocalType, Act(t)
  PROVE  Others(t)
<1>. USE DEF At, Goto, locals, envVars, PcType, LocalType, Others
<1>1. CASE SpinSteps(t)
  <2>1. CASE TrySpin(t)
    BY <2>1 DEF TrySpin, Acquired, SpinWon, Entered
  <2>2. CASE SetSucc(t)
    BY <2>2 DEF SetSucc, Step
  <2>3. CASE Spin(t)
    BY <2>3 DEF Spin, Acquired
  <2>4. CASE TestSucc(t, "spun", "spunClear", SpinWon(t))
    BY <2>4 DEF TestSucc, IsHeir, SpinWon, Entered
  <2>5. CASE ClearSucc(t, "spunClear", SpinWon(t))
    BY <2>5 DEF ClearSucc, Step, SpinWon, Entered
  <2>6. CASE TestSucc(t, "abort", "abortClear", ret[t])
    BY <2>6 DEF TestSucc, IsHeir
  <2>7. CASE ClearSucc(t, "abortClear", "abortTry")
    BY <2>7 DEF ClearSucc, Step
  <2>8. CASE TryLock(t, "abortTry", SpinWon(t), ret[t])
    BY <2>8 DEF TryLock, Acquired, SpinWon, Entered
  <2>. QED  BY <1>1, <2>1, <2>2, <2>3, <2>4, <2>5, <2>6, <2>7, <2>8 DEF SpinSteps
<1>2. CASE EnterSteps(t)
  <2>1. CASE Enter(t)
    BY <2>1 DEF Enter, EnterCas, Acquired, Entered
  <2>2. CASE EnterI(t)
    BY <2>2 DEF EnterI, Acquired, Contended
  <2>3. CASE Reset(t)
    BY <2>3 DEF Reset, Step
  <2>4. CASE ReadCxq(t)
    BY <2>4 DEF ReadCxq, Step, TopOfCxq
  <2>5. CASE Push(t)
    BY <2>5 DEF Push, TopOfCxq
  <2>6. CASE PushRetry(t)
    BY <2>6 DEF PushRetry, Acquired
  <2>7. CASE TestOnset(t)
    BY <2>7 DEF TestOnset, OnsetOfContention
  <2>8. CASE AssumeResponsibility(t)
    BY <2>8 DEF AssumeResponsibility, Step
  <2>9. CASE TryLock(t, "loop", "unlink", "choose")
    BY <2>9 DEF TryLock, Acquired
  <2>10. CASE ChoosePark(t)
    BY <2>10 DEF ChoosePark
  <2>11. CASE Park(t, "park", FALSE, "woken")
    BY <2>11 DEF Park, Step
  <2>12. CASE Park(t, "timedPark", TRUE, "woken")
    BY <2>12 DEF Park, Step
  <2>13. CASE TryLock(t, "woken", "unlink", "spin")
    BY <2>13 DEF TryLock, Acquired
  <2>14. CASE TestSucc(t, "futile", "futileClear", Loop(t))
    BY <2>14 DEF TestSucc, IsHeir, Loop
  <2>15. CASE ClearSucc(t, "futileClear", Loop(t))
    BY <2>15 DEF ClearSucc, Step, Loop
  <2>16. CASE Unlink(t)
    BY <2>16 DEF Unlink, Step, Unlinked
  <2>17. CASE TestSucc(t, "egress", "egressClear", Egress(t))
    BY <2>17 DEF TestSucc, IsHeir, Egress
  <2>18. CASE ClearSucc(t, "egressClear", Egress(t))
    BY <2>18 DEF ClearSucc, Step, Egress
  <2>19. CASE EnterEnd(t)
    BY <2>19 DEF EnterEnd, Resigned, Entered
  <2>20. CASE SelfSuspended(t, "selfSuspend", "EnterI")
    BY <2>20 DEF SelfSuspended, Step
  <2>. QED  BY <1>2, <2>1, <2>2, <2>3, <2>4, <2>5, <2>6, <2>7, <2>8, <2>9, <2>10,
            <2>11, <2>12, <2>13, <2>14, <2>15, <2>16, <2>17, <2>18, <2>19,
            <2>20 DEF EnterSteps
<1>3. CASE ExitSteps(t)
  <2>1. CASE exit(t)
    BY <2>1 DEF exit, Transmuted, Nested
  <2>2. CASE Drop(t)
    BY <2>2 DEF Drop, NoHeir
  <2>3. CASE DropRatify(t)
    BY <2>3 DEF DropRatify, Step
  <2>4. CASE Load(t, "ratify", cxq # <<>>, "ldSucc", ret[t])
    BY <2>4 DEF Load
  <2>5. CASE Load(t, "ldEntryList", EntryList # <<>>, "ldSucc", "ldCxq")
    BY <2>5 DEF Load
  <2>6. CASE Load(t, "ldCxq", cxq # <<>>, "ldSucc", ret[t])
    BY <2>6 DEF Load
  <2>7. CASE Load(t, "ldSucc", NoHeir, "recas", ret[t])
    BY <2>7 DEF Load
  <2>8. CASE Reacquire(t)
    BY <2>8 DEF Reacquire, TryLock, Acquired
  <2>9. CASE Select(t)
    BY <2>9 DEF Select, Wake, Drain
  <2>10. CASE Abdicate(t)
    BY <2>10 DEF Abdicate, Wake, NoHeir
  <2>11. CASE NameHeir(t)
    BY <2>11 DEF NameHeir, Step
  <2>12. CASE EpilogDrop(t)
    BY <2>12 DEF EpilogDrop, Step
  <2>13. CASE Unpark(t)
    BY <2>13 DEF Unpark, Return
  <2>14. CASE Fast_Unlock(t)
    BY <2>14 DEF Fast_Unlock, Step
  <2>15. CASE FastDrop(t)
    BY <2>15 DEF FastDrop, Step
  <2>16. CASE complete_exit(t)
    BY <2>16 DEF complete_exit, Step, Transmuted
  <2>17. CASE Reentered(t)
    BY <2>17 DEF Reentered, Step, Restored
  <2>. QED  BY <1>3, <2>1, <2>2, <2>3, <2>4, <2>5, <2>6, <2>7, <2>8, <2>9, <2>10,
            <2>11, <2>12, <2>13, <2>14, <2>15, <2>16, <2>17 DEF ExitSteps
<1>4. CASE WaitSteps(t)
  <2>1. CASE wait(t)
    BY <2>1 DEF wait, Transmuted
  <2>2. CASE AddWaiter(t)
    BY <2>2 DEF AddWaiter, Step
  <2>3. CASE Repost(t)
    BY <2>3 DEF Repost, Step
  <2>4. CASE Load(t, "waitTest", ~interrupted[t], "waitNotified", "waitSuspend")
    BY <2>4 DEF Load
  <2>5. CASE Load(t, "waitNotified", ~notified[t], "waitPark", "waitSuspend")
    BY <2>5 DEF Load
  <2>6. CASE Park(t, "waitPark", op[t] = "timed_waiting", "waitSuspend")
    BY <2>6 DEF Park, Step
  <2>7. CASE Load(t, "waitSuspend", suspended[t], "waitSuspended", "waitState")
    BY <2>7 DEF Load
  <2>8. CASE SelfSuspended(t, "waitSuspended", "waitState")
    BY <2>8 DEF SelfSuspended, Step
  <2>9. CASE Load(t, "waitState", TState[t] = "TS_WAIT", "waitUnlink", "waitSucc")
    BY <2>9 DEF Load
  <2>10. CASE WaitUnlink(t)
    BY <2>10 DEF WaitUnlink, Step, DequeueSpecificWaiter
  <2>11. CASE TestSucc(t, "waitSucc", "waitSuccClear", "waitReenter")
    BY <2>11 DEF TestSucc, IsHeir
  <2>12. CASE ClearSucc(t, "waitSuccClear", "waitReenter")
    BY <2>12 DEF ClearSucc, Step
  <2>13. CASE WaitReenter(t)
    BY <2>13 DEF WaitReenter
  <2>14. CASE TryLock(t, "ReenterI", "unlink", "spin")
    BY <2>14 DEF TryLock, Acquired
  <2>15. CASE Park(t, "rPark", FALSE, "rSuspend")
    BY <2>15 DEF Park, Step
  <2>16. CASE SuspendCheckReenter(t)
    BY <2>16 DEF SuspendCheckReenter
  <2>17. CASE ClearSucc(t, "rSuspendClear", "rSuspended")
    BY <2>17 DEF ClearSucc, Step
  <2>18. CASE SelfSuspended(t, "rSuspended", "rSuspend")
    BY <2>18 DEF SelfSuspended, Step
  <2>19. CASE TryLock(t, "rTry", "unlink", "futile")
    BY <2>19 DEF TryLock, Acquired
  <2>20. CASE WaitEnd(t)
    BY <2>20 DEF WaitEnd, Step, Restored
  <2>. QED  BY <1>4, <2>1, <2>2, <2>3, <2>4, <2>5, <2>6, <2>7, <2>8, <2>9, <2>10,
            <2>11, <2>12, <2>13, <2>14, <2>15, <2>16, <2>17, <2>18, <2>19,
            <2>20 DEF WaitSteps
<1>5. CASE NotifySteps(t)
  <2>1. CASE notify(t)
    BY <2>1 DEF notify, Transmuted
  <2>2. CASE NotifyTake(t)
    BY <2>2 DEF NotifyTake, NotifyDone, DequeueWaiter
  <2>3. CASE SetNotified(t)
    BY <2>3 DEF SetNotified, Step
  <2>4. CASE NotifyPlace(t)
    BY <2>4 DEF NotifyPlace, NotifyDone, Place, Queued
  <2>5. CASE NotifyAllTake(t)
    BY <2>5 DEF NotifyAllTake, NotifyDone, DequeueWaiter
  <2>6. CASE SetTState(t)
    BY <2>6 DEF SetTState, Step
  <2>7. CASE NotifyAllPlace(t)
    BY <2>7 DEF NotifyAllPlace, Step, Place, Queued
  <2>. QED  BY <1>5, <2>1, <2>2, <2>3, <2>4, <2>5, <2>6, <2>7 DEF NotifySteps
<1>6. CASE ClientSteps(t)
  <2>1. CASE enterAgain(t)
    BY <2>1 DEF enterAgain, Transmuted
  <2>2. CASE \E o \in set.Ops[t] : enter(t, o)
    BY <2>2 DEF enter, EnterCas, Acquired, Entered
  <2>3. CASE interrupt(t)
    BY <2>3 DEF interrupt
  <2>4. CASE InterruptUnpark(t)
    BY <2>4 DEF InterruptUnpark
  <2>5. CASE java_suspend(t)
    BY <2>5 DEF java_suspend
  <2>6. CASE java_resume(t)
    BY <2>6 DEF java_resume
  <2>. QED  BY <1>6, <2>1, <2>2, <2>3, <2>4, <2>5, <2>6 DEF ClientSteps
<1>. QED  BY <1>1, <1>2, <1>3, <1>4, <1>5, <1>6 DEF Act, Run

\* No action takes the lock from its owner.
LEMMA LockStep ==
  ASSUME NEW t \in Thread, PcType, LocalType, RetInv(t), Act(t)
  PROVE  LockEffect(t)
<1>. USE DEF At, Goto, lockVars, PcType, LocalType, RetInv, LockEffect, Holds, Holding,
           Spinning, Exiting
<1>1. CASE SpinSteps(t)
  <2>1. CASE TrySpin(t)
    BY <2>1 DEF TrySpin, Acquired, SpinWon, Entered
  <2>2. CASE SetSucc(t)
    BY <2>2 DEF SetSucc, Step
  <2>3. CASE Spin(t)
    BY <2>3 DEF Spin, Acquired
  <2>4. CASE TestSucc(t, "spun", "spunClear", SpinWon(t))
    BY <2>4 DEF TestSucc, IsHeir, SpinWon, Entered
  <2>5. CASE ClearSucc(t, "spunClear", SpinWon(t))
    BY <2>5 DEF ClearSucc, Step, SpinWon, Entered
  <2>6. CASE TestSucc(t, "abort", "abortClear", ret[t])
    BY <2>6 DEF TestSucc, IsHeir
  <2>7. CASE ClearSucc(t, "abortClear", "abortTry")
    BY <2>7 DEF ClearSucc, Step
  <2>8. CASE TryLock(t, "abortTry", SpinWon(t), ret[t])
    BY <2>8 DEF TryLock, Acquired, SpinWon, Entered
  <2>. QED  BY <1>1, <2>1, <2>2, <2>3, <2>4, <2>5, <2>6, <2>7, <2>8 DEF SpinSteps
<1>2. CASE EnterSteps(t)
  <2>1. CASE Enter(t)
    BY <2>1 DEF Enter, EnterCas, Acquired, Entered
  <2>2. CASE EnterI(t)
    BY <2>2 DEF EnterI, Acquired, Contended
  <2>3. CASE Reset(t)
    BY <2>3 DEF Reset, Step
  <2>4. CASE ReadCxq(t)
    BY <2>4 DEF ReadCxq, Step, TopOfCxq
  <2>5. CASE Push(t)
    BY <2>5 DEF Push, TopOfCxq
  <2>6. CASE PushRetry(t)
    BY <2>6 DEF PushRetry, Acquired
  <2>7. CASE TestOnset(t)
    BY <2>7 DEF TestOnset, OnsetOfContention
  <2>8. CASE AssumeResponsibility(t)
    BY <2>8 DEF AssumeResponsibility, Step
  <2>9. CASE TryLock(t, "loop", "unlink", "choose")
    BY <2>9 DEF TryLock, Acquired
  <2>10. CASE ChoosePark(t)
    BY <2>10 DEF ChoosePark
  <2>11. CASE Park(t, "park", FALSE, "woken")
    BY <2>11 DEF Park, Step
  <2>12. CASE Park(t, "timedPark", TRUE, "woken")
    BY <2>12 DEF Park, Step
  <2>13. CASE TryLock(t, "woken", "unlink", "spin")
    BY <2>13 DEF TryLock, Acquired
  <2>14. CASE TestSucc(t, "futile", "futileClear", Loop(t))
    BY <2>14 DEF TestSucc, IsHeir, Loop
  <2>15. CASE ClearSucc(t, "futileClear", Loop(t))
    BY <2>15 DEF ClearSucc, Step, Loop
  <2>16. CASE Unlink(t)
    BY <2>16 DEF Unlink, Step, Unlinked
  <2>17. CASE TestSucc(t, "egress", "egressClear", Egress(t))
    BY <2>17 DEF TestSucc, IsHeir, Egress
  <2>18. CASE ClearSucc(t, "egressClear", Egress(t))
    BY <2>18 DEF ClearSucc, Step, Egress
  <2>19. CASE EnterEnd(t)
    BY <2>19 DEF EnterEnd, Resigned, Entered
  <2>20. CASE SelfSuspended(t, "selfSuspend", "EnterI")
    BY <2>20 DEF SelfSuspended, Step
  <2>. QED  BY <1>2, <2>1, <2>2, <2>3, <2>4, <2>5, <2>6, <2>7, <2>8, <2>9, <2>10,
            <2>11, <2>12, <2>13, <2>14, <2>15, <2>16, <2>17, <2>18, <2>19,
            <2>20 DEF EnterSteps
<1>3. CASE ExitSteps(t)
  <2>1. CASE exit(t)
    BY <2>1 DEF exit, Transmuted, Nested
  <2>2. CASE Drop(t)
    BY <2>2 DEF Drop, NoHeir
  <2>3. CASE DropRatify(t)
    BY <2>3 DEF DropRatify, Step
  <2>4. CASE Load(t, "ratify", cxq # <<>>, "ldSucc", ret[t])
    BY <2>4 DEF Load
  <2>5. CASE Load(t, "ldEntryList", EntryList # <<>>, "ldSucc", "ldCxq")
    BY <2>5 DEF Load
  <2>6. CASE Load(t, "ldCxq", cxq # <<>>, "ldSucc", ret[t])
    BY <2>6 DEF Load
  <2>7. CASE Load(t, "ldSucc", NoHeir, "recas", ret[t])
    BY <2>7 DEF Load
  <2>8. CASE Reacquire(t)
    BY <2>8 DEF Reacquire, TryLock, Acquired
  <2>9. CASE Select(t)
    BY <2>9 DEF Select, Wake, Drain
  <2>10. CASE Abdicate(t)
    BY <2>10 DEF Abdicate, Wake, NoHeir
  <2>11. CASE NameHeir(t)
    BY <2>11 DEF NameHeir, Step
  <2>12. CASE EpilogDrop(t)
    BY <2>12 DEF EpilogDrop, Step
  <2>13. CASE Unpark(t)
    BY <2>13 DEF Unpark, Return
  <2>14. CASE Fast_Unlock(t)
    BY <2>14 DEF Fast_Unlock, Step
  <2>15. CASE FastDrop(t)
    BY <2>15 DEF FastDrop, Step
  <2>16. CASE complete_exit(t)
    BY <2>16 DEF complete_exit, Step, Transmuted
  <2>17. CASE Reentered(t)
    BY <2>17 DEF Reentered, Step, Restored
  <2>. QED  BY <1>3, <2>1, <2>2, <2>3, <2>4, <2>5, <2>6, <2>7, <2>8, <2>9, <2>10,
            <2>11, <2>12, <2>13, <2>14, <2>15, <2>16, <2>17 DEF ExitSteps
<1>4. CASE WaitSteps(t)
  <2>1. CASE wait(t)
    BY <2>1 DEF wait, Transmuted
  <2>2. CASE AddWaiter(t)
    BY <2>2 DEF AddWaiter, Step
  <2>3. CASE Repost(t)
    BY <2>3 DEF Repost, Step
  <2>4. CASE Load(t, "waitTest", ~interrupted[t], "waitNotified", "waitSuspend")
    BY <2>4 DEF Load
  <2>5. CASE Load(t, "waitNotified", ~notified[t], "waitPark", "waitSuspend")
    BY <2>5 DEF Load
  <2>6. CASE Park(t, "waitPark", op[t] = "timed_waiting", "waitSuspend")
    BY <2>6 DEF Park, Step
  <2>7. CASE Load(t, "waitSuspend", suspended[t], "waitSuspended", "waitState")
    BY <2>7 DEF Load
  <2>8. CASE SelfSuspended(t, "waitSuspended", "waitState")
    BY <2>8 DEF SelfSuspended, Step
  <2>9. CASE Load(t, "waitState", TState[t] = "TS_WAIT", "waitUnlink", "waitSucc")
    BY <2>9 DEF Load
  <2>10. CASE WaitUnlink(t)
    BY <2>10 DEF WaitUnlink, Step, DequeueSpecificWaiter
  <2>11. CASE TestSucc(t, "waitSucc", "waitSuccClear", "waitReenter")
    BY <2>11 DEF TestSucc, IsHeir
  <2>12. CASE ClearSucc(t, "waitSuccClear", "waitReenter")
    BY <2>12 DEF ClearSucc, Step
  <2>13. CASE WaitReenter(t)
    <3>1. pc[t] = "waitReenter" /\ owner' = owner
      BY <2>13 DEF WaitReenter, At, lockVars
    <3>2. pc'[t] \in {"enter", "ReenterI"}
      BY <2>13 DEF WaitReenter, Goto, PcType
    <3>. QED  BY <3>1, <3>2 DEF LockEffect, Holds, Holding
  <2>14. CASE TryLock(t, "ReenterI", "unlink", "spin")
    BY <2>14 DEF TryLock, Acquired
  <2>15. CASE Park(t, "rPark", FALSE, "rSuspend")
    BY <2>15 DEF Park, Step
  <2>16. CASE SuspendCheckReenter(t)
    BY <2>16 DEF SuspendCheckReenter
  <2>17. CASE ClearSucc(t, "rSuspendClear", "rSuspended")
    BY <2>17 DEF ClearSucc, Step
  <2>18. CASE SelfSuspended(t, "rSuspended", "rSuspend")
    BY <2>18 DEF SelfSuspended, Step
  <2>19. CASE TryLock(t, "rTry", "unlink", "futile")
    BY <2>19 DEF TryLock, Acquired
  <2>20. CASE WaitEnd(t)
    BY <2>20 DEF WaitEnd, Step, Restored
  <2>. QED  BY <1>4, <2>1, <2>2, <2>3, <2>4, <2>5, <2>6, <2>7, <2>8, <2>9, <2>10,
            <2>11, <2>12, <2>13, <2>14, <2>15, <2>16, <2>17, <2>18, <2>19,
            <2>20 DEF WaitSteps
<1>5. CASE NotifySteps(t)
  <2>1. CASE notify(t)
    BY <2>1 DEF notify, Transmuted
  <2>2. CASE NotifyTake(t)
    BY <2>2 DEF NotifyTake, NotifyDone, DequeueWaiter
  <2>3. CASE SetNotified(t)
    BY <2>3 DEF SetNotified, Step
  <2>4. CASE NotifyPlace(t)
    BY <2>4 DEF NotifyPlace, NotifyDone, Place, Queued
  <2>5. CASE NotifyAllTake(t)
    BY <2>5 DEF NotifyAllTake, NotifyDone, DequeueWaiter
  <2>6. CASE SetTState(t)
    BY <2>6 DEF SetTState, Step
  <2>7. CASE NotifyAllPlace(t)
    BY <2>7 DEF NotifyAllPlace, Step, Place, Queued
  <2>. QED  BY <1>5, <2>1, <2>2, <2>3, <2>4, <2>5, <2>6, <2>7 DEF NotifySteps
<1>6. CASE ClientSteps(t)
  <2>1. CASE enterAgain(t)
    BY <2>1 DEF enterAgain, Transmuted
  <2>2. CASE \E o \in set.Ops[t] : enter(t, o)
    BY <2>2 DEF enter, EnterCas, Acquired, Entered
  <2>3. CASE interrupt(t)
    BY <2>3 DEF interrupt
  <2>4. CASE InterruptUnpark(t)
    BY <2>4 DEF InterruptUnpark
  <2>5. CASE java_suspend(t)
    BY <2>5 DEF java_suspend
  <2>6. CASE java_resume(t)
    BY <2>6 DEF java_resume
  <2>. QED  BY <1>6, <2>1, <2>2, <2>3, <2>4, <2>5, <2>6 DEF ClientSteps
<1>. QED  BY <1>1, <1>2, <1>3, <1>4, <1>5, <1>6 DEF Act, Run

\* No action touches the recursions of another thread.
LEMMA NestStep ==
  ASSUME NEW t \in Thread, PcType, LocalType, RetInv(t),
         pc[t] = "exit" => recursions = 0, Act(t)
  PROVE  NestEffect(t)
<1>. USE DEF At, Goto, lockVars, PcType, LocalType, RetInv, NestEffect, Holds, Holding,
           Nesting, Notifying
<1>1. CASE SpinSteps(t)
  <2>1. CASE TrySpin(t)
    BY <2>1 DEF TrySpin, Acquired, SpinWon, Entered
  <2>2. CASE SetSucc(t)
    BY <2>2 DEF SetSucc, Step
  <2>3. CASE Spin(t)
    BY <2>3 DEF Spin, Acquired
  <2>4. CASE TestSucc(t, "spun", "spunClear", SpinWon(t))
    BY <2>4 DEF TestSucc, IsHeir, SpinWon, Entered
  <2>5. CASE ClearSucc(t, "spunClear", SpinWon(t))
    BY <2>5 DEF ClearSucc, Step, SpinWon, Entered
  <2>6. CASE TestSucc(t, "abort", "abortClear", ret[t])
    BY <2>6 DEF TestSucc, IsHeir
  <2>7. CASE ClearSucc(t, "abortClear", "abortTry")
    BY <2>7 DEF ClearSucc, Step
  <2>8. CASE TryLock(t, "abortTry", SpinWon(t), ret[t])
    BY <2>8 DEF TryLock, Acquired, SpinWon, Entered
  <2>. QED  BY <1>1, <2>1, <2>2, <2>3, <2>4, <2>5, <2>6, <2>7, <2>8 DEF SpinSteps
<1>2. CASE EnterSteps(t)
  <2>1. CASE Enter(t)
    BY <2>1 DEF Enter, EnterCas, Acquired, Entered
  <2>2. CASE EnterI(t)
    BY <2>2 DEF EnterI, Acquired, Contended
  <2>3. CASE Reset(t)
    BY <2>3 DEF Reset, Step
  <2>4. CASE ReadCxq(t)
    BY <2>4 DEF ReadCxq, Step, TopOfCxq
  <2>5. CASE Push(t)
    BY <2>5 DEF Push, TopOfCxq
  <2>6. CASE PushRetry(t)
    BY <2>6 DEF PushRetry, Acquired
  <2>7. CASE TestOnset(t)
    BY <2>7 DEF TestOnset, OnsetOfContention
  <2>8. CASE AssumeResponsibility(t)
    BY <2>8 DEF AssumeResponsibility, Step
  <2>9. CASE TryLock(t, "loop", "unlink", "choose")
    BY <2>9 DEF TryLock, Acquired
  <2>10. CASE ChoosePark(t)
    BY <2>10 DEF ChoosePark
  <2>11. CASE Park(t, "park", FALSE, "woken")
    BY <2>11 DEF Park, Step
  <2>12. CASE Park(t, "timedPark", TRUE, "woken")
    BY <2>12 DEF Park, Step
  <2>13. CASE TryLock(t, "woken", "unlink", "spin")
    BY <2>13 DEF TryLock, Acquired
  <2>14. CASE TestSucc(t, "futile", "futileClear", Loop(t))
    BY <2>14 DEF TestSucc, IsHeir, Loop
  <2>15. CASE ClearSucc(t, "futileClear", Loop(t))
    BY <2>15 DEF ClearSucc, Step, Loop
  <2>16. CASE Unlink(t)
    BY <2>16 DEF Unlink, Step, Unlinked
  <2>17. CASE TestSucc(t, "egress", "egressClear", Egress(t))
    BY <2>17 DEF TestSucc, IsHeir, Egress
  <2>18. CASE ClearSucc(t, "egressClear", Egress(t))
    BY <2>18 DEF ClearSucc, Step, Egress
  <2>19. CASE EnterEnd(t)
    BY <2>19 DEF EnterEnd, Resigned, Entered
  <2>20. CASE SelfSuspended(t, "selfSuspend", "EnterI")
    BY <2>20 DEF SelfSuspended, Step
  <2>. QED  BY <1>2, <2>1, <2>2, <2>3, <2>4, <2>5, <2>6, <2>7, <2>8, <2>9, <2>10,
            <2>11, <2>12, <2>13, <2>14, <2>15, <2>16, <2>17, <2>18, <2>19,
            <2>20 DEF EnterSteps
<1>3. CASE ExitSteps(t)
  <2>1. CASE exit(t)
    BY <2>1 DEF exit, Transmuted, Nested
  <2>2. CASE Drop(t)
    BY <2>2 DEF Drop, NoHeir
  <2>3. CASE DropRatify(t)
    BY <2>3 DEF DropRatify, Step
  <2>4. CASE Load(t, "ratify", cxq # <<>>, "ldSucc", ret[t])
    BY <2>4 DEF Load
  <2>5. CASE Load(t, "ldEntryList", EntryList # <<>>, "ldSucc", "ldCxq")
    BY <2>5 DEF Load
  <2>6. CASE Load(t, "ldCxq", cxq # <<>>, "ldSucc", ret[t])
    BY <2>6 DEF Load
  <2>7. CASE Load(t, "ldSucc", NoHeir, "recas", ret[t])
    BY <2>7 DEF Load
  <2>8. CASE Reacquire(t)
    BY <2>8 DEF Reacquire, TryLock, Acquired
  <2>9. CASE Select(t)
    BY <2>9 DEF Select, Wake, Drain
  <2>10. CASE Abdicate(t)
    BY <2>10 DEF Abdicate, Wake, NoHeir
  <2>11. CASE NameHeir(t)
    BY <2>11 DEF NameHeir, Step
  <2>12. CASE EpilogDrop(t)
    BY <2>12 DEF EpilogDrop, Step
  <2>13. CASE Unpark(t)
    BY <2>13 DEF Unpark, Return
  <2>14. CASE Fast_Unlock(t)
    BY <2>14 DEF Fast_Unlock, Step
  <2>15. CASE FastDrop(t)
    BY <2>15 DEF FastDrop, Step
  <2>16. CASE complete_exit(t)
    BY <2>16 DEF complete_exit, Step, Transmuted
  <2>17. CASE Reentered(t)
    BY <2>17 DEF Reentered, Step, Restored
  <2>. QED  BY <1>3, <2>1, <2>2, <2>3, <2>4, <2>5, <2>6, <2>7, <2>8, <2>9, <2>10,
            <2>11, <2>12, <2>13, <2>14, <2>15, <2>16, <2>17 DEF ExitSteps
<1>4. CASE WaitSteps(t)
  <2>1. CASE wait(t)
    BY <2>1 DEF wait, Transmuted
  <2>2. CASE AddWaiter(t)
    BY <2>2 DEF AddWaiter, Step
  <2>3. CASE Repost(t)
    BY <2>3 DEF Repost, Step
  <2>4. CASE Load(t, "waitTest", ~interrupted[t], "waitNotified", "waitSuspend")
    BY <2>4 DEF Load
  <2>5. CASE Load(t, "waitNotified", ~notified[t], "waitPark", "waitSuspend")
    BY <2>5 DEF Load
  <2>6. CASE Park(t, "waitPark", op[t] = "timed_waiting", "waitSuspend")
    BY <2>6 DEF Park, Step
  <2>7. CASE Load(t, "waitSuspend", suspended[t], "waitSuspended", "waitState")
    BY <2>7 DEF Load
  <2>8. CASE SelfSuspended(t, "waitSuspended", "waitState")
    BY <2>8 DEF SelfSuspended, Step
  <2>9. CASE Load(t, "waitState", TState[t] = "TS_WAIT", "waitUnlink", "waitSucc")
    BY <2>9 DEF Load
  <2>10. CASE WaitUnlink(t)
    BY <2>10 DEF WaitUnlink, Step, DequeueSpecificWaiter
  <2>11. CASE TestSucc(t, "waitSucc", "waitSuccClear", "waitReenter")
    BY <2>11 DEF TestSucc, IsHeir
  <2>12. CASE ClearSucc(t, "waitSuccClear", "waitReenter")
    BY <2>12 DEF ClearSucc, Step
  <2>13. CASE WaitReenter(t)
    BY <2>13 DEF WaitReenter
  <2>14. CASE TryLock(t, "ReenterI", "unlink", "spin")
    BY <2>14 DEF TryLock, Acquired
  <2>15. CASE Park(t, "rPark", FALSE, "rSuspend")
    BY <2>15 DEF Park, Step
  <2>16. CASE SuspendCheckReenter(t)
    BY <2>16 DEF SuspendCheckReenter
  <2>17. CASE ClearSucc(t, "rSuspendClear", "rSuspended")
    BY <2>17 DEF ClearSucc, Step
  <2>18. CASE SelfSuspended(t, "rSuspended", "rSuspend")
    BY <2>18 DEF SelfSuspended, Step
  <2>19. CASE TryLock(t, "rTry", "unlink", "futile")
    BY <2>19 DEF TryLock, Acquired
  <2>20. CASE WaitEnd(t)
    BY <2>20 DEF WaitEnd, Step, Restored
  <2>. QED  BY <1>4, <2>1, <2>2, <2>3, <2>4, <2>5, <2>6, <2>7, <2>8, <2>9, <2>10,
            <2>11, <2>12, <2>13, <2>14, <2>15, <2>16, <2>17, <2>18, <2>19,
            <2>20 DEF WaitSteps
<1>5. CASE NotifySteps(t)
  <2>1. CASE notify(t)
    BY <2>1 DEF notify, Transmuted
  <2>2. CASE NotifyTake(t)
    BY <2>2 DEF NotifyTake, NotifyDone, DequeueWaiter
  <2>3. CASE SetNotified(t)
    BY <2>3 DEF SetNotified, Step
  <2>4. CASE NotifyPlace(t)
    BY <2>4 DEF NotifyPlace, NotifyDone, Place, Queued
  <2>5. CASE NotifyAllTake(t)
    BY <2>5 DEF NotifyAllTake, NotifyDone, DequeueWaiter
  <2>6. CASE SetTState(t)
    BY <2>6 DEF SetTState, Step
  <2>7. CASE NotifyAllPlace(t)
    BY <2>7 DEF NotifyAllPlace, Step, Place, Queued
  <2>. QED  BY <1>5, <2>1, <2>2, <2>3, <2>4, <2>5, <2>6, <2>7 DEF NotifySteps
<1>6. CASE ClientSteps(t)
  <2>1. CASE enterAgain(t)
    BY <2>1 DEF enterAgain, Transmuted
  <2>2. CASE \E o \in set.Ops[t] : enter(t, o)
    BY <2>2 DEF enter, EnterCas, Acquired, Entered
  <2>3. CASE interrupt(t)
    BY <2>3 DEF interrupt
  <2>4. CASE InterruptUnpark(t)
    BY <2>4 DEF InterruptUnpark
  <2>5. CASE java_suspend(t)
    BY <2>5 DEF java_suspend
  <2>6. CASE java_resume(t)
    BY <2>6 DEF java_resume
  <2>. QED  BY <1>6, <2>1, <2>2, <2>3, <2>4, <2>5, <2>6 DEF ClientSteps
<1>. QED  BY <1>1, <1>2, <1>3, <1>4, <1>5, <1>6 DEF Act, Run

\* Twelve actions change the lists.
LEMMA ListEffect ==
  ASSUME NEW t \in Thread, PcType, LocalType, RetInv(t), Act(t)
  PROVE  Quiet(t) \/ ListStep(t)
<1>. USE DEF At, Goto, locals, queueVars, waitVars, PcType, LocalType, RetInv, Quiet,
           Moving, Locked, Spinning, Exiting, Pushing, Enqueued, Futile, Leaving
<1>1. CASE SpinSteps(t)
  <2>1. CASE TrySpin(t)
    BY <2>1 DEF TrySpin, Acquired, SpinWon, Entered
  <2>2. CASE SetSucc(t)
    BY <2>2 DEF SetSucc, Step
  <2>3. CASE Spin(t)
    BY <2>3 DEF Spin, Acquired
  <2>4. CASE TestSucc(t, "spun", "spunClear", SpinWon(t))
    BY <2>4 DEF TestSucc, IsHeir, SpinWon, Entered
  <2>5. CASE ClearSucc(t, "spunClear", SpinWon(t))
    BY <2>5 DEF ClearSucc, Step, SpinWon, Entered
  <2>6. CASE TestSucc(t, "abort", "abortClear", ret[t])
    BY <2>6 DEF TestSucc, IsHeir
  <2>7. CASE ClearSucc(t, "abortClear", "abortTry")
    BY <2>7 DEF ClearSucc, Step
  <2>8. CASE TryLock(t, "abortTry", SpinWon(t), ret[t])
    BY <2>8 DEF TryLock, Acquired, SpinWon, Entered
  <2>. QED  BY <1>1, <2>1, <2>2, <2>3, <2>4, <2>5, <2>6, <2>7, <2>8 DEF SpinSteps
<1>2. CASE EnterSteps(t)
  <2>1. CASE Enter(t)
    BY <2>1 DEF Enter, EnterCas, Acquired, Entered
  <2>2. CASE EnterI(t)
    BY <2>2 DEF EnterI, Acquired, Contended
  <2>3. CASE Reset(t)
    BY <2>3 DEF ListStep
  <2>4. CASE ReadCxq(t)
    BY <2>4 DEF ReadCxq, Step, TopOfCxq
  <2>5. CASE Push(t)
    BY <2>5 DEF ListStep
  <2>6. CASE PushRetry(t)
    BY <2>6 DEF ListStep
  <2>7. CASE TestOnset(t)
    BY <2>7 DEF TestOnset, OnsetOfContention
  <2>8. CASE AssumeResponsibility(t)
    BY <2>8 DEF AssumeResponsibility, Step
  <2>9. CASE TryLock(t, "loop", "unlink", "choose")
    BY <2>9 DEF TryLock, Acquired
  <2>10. CASE ChoosePark(t)
    BY <2>10 DEF ChoosePark
  <2>11. CASE Park(t, "park", FALSE, "woken")
    BY <2>11 DEF Park, Step
  <2>12. CASE Park(t, "timedPark", TRUE, "woken")
    BY <2>12 DEF Park, Step
  <2>13. CASE TryLock(t, "woken", "unlink", "spin")
    BY <2>13 DEF TryLock, Acquired
  <2>14. CASE TestSucc(t, "futile", "futileClear", Loop(t))
    BY <2>14 DEF TestSucc, IsHeir, Loop
  <2>15. CASE ClearSucc(t, "futileClear", Loop(t))
    BY <2>15 DEF ClearSucc, Step, Loop
  <2>16. CASE Unlink(t)
    BY <2>16 DEF ListStep
  <2>17. CASE TestSucc(t, "egress", "egressClear", Egress(t))
    BY <2>17 DEF TestSucc, IsHeir, Egress
  <2>18. CASE ClearSucc(t, "egressClear", Egress(t))
    BY <2>18 DEF ClearSucc, Step, Egress
  <2>19. CASE EnterEnd(t)
    BY <2>19 DEF EnterEnd, Resigned, Entered
  <2>20. CASE SelfSuspended(t, "selfSuspend", "EnterI")
    BY <2>20 DEF SelfSuspended, Step
  <2>. QED  BY <1>2, <2>1, <2>2, <2>3, <2>4, <2>5, <2>6, <2>7, <2>8, <2>9, <2>10,
            <2>11, <2>12, <2>13, <2>14, <2>15, <2>16, <2>17, <2>18, <2>19,
            <2>20 DEF EnterSteps
<1>3. CASE ExitSteps(t)
  <2>1. CASE exit(t)
    BY <2>1 DEF exit, Transmuted, Nested
  <2>2. CASE Drop(t)
    BY <2>2 DEF Drop, NoHeir
  <2>3. CASE DropRatify(t)
    BY <2>3 DEF DropRatify, Step
  <2>4. CASE Load(t, "ratify", cxq # <<>>, "ldSucc", ret[t])
    BY <2>4 DEF Load
  <2>5. CASE Load(t, "ldEntryList", EntryList # <<>>, "ldSucc", "ldCxq")
    BY <2>5 DEF Load
  <2>6. CASE Load(t, "ldCxq", cxq # <<>>, "ldSucc", ret[t])
    BY <2>6 DEF Load
  <2>7. CASE Load(t, "ldSucc", NoHeir, "recas", ret[t])
    BY <2>7 DEF Load
  <2>8. CASE Reacquire(t)
    BY <2>8 DEF Reacquire, TryLock, Acquired
  <2>9. CASE Select(t)
    BY <2>9 DEF ListStep
  <2>10. CASE Abdicate(t)
    BY <2>10 DEF Abdicate, Wake, NoHeir
  <2>11. CASE NameHeir(t)
    BY <2>11 DEF NameHeir, Step
  <2>12. CASE EpilogDrop(t)
    BY <2>12 DEF EpilogDrop, Step
  <2>13. CASE Unpark(t)
    BY <2>13 DEF Unpark, Return
  <2>14. CASE Fast_Unlock(t)
    BY <2>14 DEF Fast_Unlock, Step
  <2>15. CASE FastDrop(t)
    BY <2>15 DEF FastDrop, Step
  <2>16. CASE complete_exit(t)
    BY <2>16 DEF complete_exit, Step, Transmuted
  <2>17. CASE Reentered(t)
    BY <2>17 DEF Reentered, Step, Restored
  <2>. QED  BY <1>3, <2>1, <2>2, <2>3, <2>4, <2>5, <2>6, <2>7, <2>8, <2>9, <2>10,
            <2>11, <2>12, <2>13, <2>14, <2>15, <2>16, <2>17 DEF ExitSteps
<1>4. CASE WaitSteps(t)
  <2>1. CASE wait(t)
    BY <2>1 DEF wait, Transmuted
  <2>2. CASE AddWaiter(t)
    BY <2>2 DEF ListStep
  <2>3. CASE Repost(t)
    BY <2>3 DEF Repost, Step
  <2>4. CASE Load(t, "waitTest", ~interrupted[t], "waitNotified", "waitSuspend")
    BY <2>4 DEF Load
  <2>5. CASE Load(t, "waitNotified", ~notified[t], "waitPark", "waitSuspend")
    BY <2>5 DEF Load
  <2>6. CASE Park(t, "waitPark", op[t] = "timed_waiting", "waitSuspend")
    BY <2>6 DEF Park, Step
  <2>7. CASE Load(t, "waitSuspend", suspended[t], "waitSuspended", "waitState")
    BY <2>7 DEF Load
  <2>8. CASE SelfSuspended(t, "waitSuspended", "waitState")
    BY <2>8 DEF SelfSuspended, Step
  <2>9. CASE Load(t, "waitState", TState[t] = "TS_WAIT", "waitUnlink", "waitSucc")
    BY <2>9 DEF Load
  <2>10. CASE WaitUnlink(t)
    BY <2>10 DEF ListStep
  <2>11. CASE TestSucc(t, "waitSucc", "waitSuccClear", "waitReenter")
    BY <2>11 DEF TestSucc, IsHeir
  <2>12. CASE ClearSucc(t, "waitSuccClear", "waitReenter")
    BY <2>12 DEF ClearSucc, Step
  <2>13. CASE WaitReenter(t)
    BY <2>13 DEF WaitReenter
  <2>14. CASE TryLock(t, "ReenterI", "unlink", "spin")
    BY <2>14 DEF TryLock, Acquired
  <2>15. CASE Park(t, "rPark", FALSE, "rSuspend")
    BY <2>15 DEF Park, Step
  <2>16. CASE SuspendCheckReenter(t)
    BY <2>16 DEF SuspendCheckReenter
  <2>17. CASE ClearSucc(t, "rSuspendClear", "rSuspended")
    BY <2>17 DEF ClearSucc, Step
  <2>18. CASE SelfSuspended(t, "rSuspended", "rSuspend")
    BY <2>18 DEF SelfSuspended, Step
  <2>19. CASE TryLock(t, "rTry", "unlink", "futile")
    BY <2>19 DEF TryLock, Acquired
  <2>20. CASE WaitEnd(t)
    BY <2>20 DEF WaitEnd, Step, Restored
  <2>. QED  BY <1>4, <2>1, <2>2, <2>3, <2>4, <2>5, <2>6, <2>7, <2>8, <2>9, <2>10,
            <2>11, <2>12, <2>13, <2>14, <2>15, <2>16, <2>17, <2>18, <2>19,
            <2>20 DEF WaitSteps
<1>5. CASE NotifySteps(t)
  <2>1. CASE notify(t)
    BY <2>1 DEF notify, Transmuted
  <2>2. CASE NotifyTake(t)
    BY <2>2 DEF ListStep
  <2>3. CASE SetNotified(t)
    BY <2>3 DEF SetNotified, Step
  <2>4. CASE NotifyPlace(t)
    BY <2>4 DEF ListStep
  <2>5. CASE NotifyAllTake(t)
    BY <2>5 DEF ListStep
  <2>6. CASE SetTState(t)
    BY <2>6 DEF ListStep
  <2>7. CASE NotifyAllPlace(t)
    BY <2>7 DEF ListStep
  <2>. QED  BY <1>5, <2>1, <2>2, <2>3, <2>4, <2>5, <2>6, <2>7 DEF NotifySteps
<1>6. CASE ClientSteps(t)
  <2>1. CASE enterAgain(t)
    BY <2>1 DEF enterAgain, Transmuted
  <2>2. CASE \E o \in set.Ops[t] : enter(t, o)
    BY <2>2 DEF enter, EnterCas, Acquired, Entered
  <2>3. CASE interrupt(t)
    BY <2>3 DEF interrupt
  <2>4. CASE InterruptUnpark(t)
    BY <2>4 DEF InterruptUnpark
  <2>5. CASE java_suspend(t)
    BY <2>5 DEF java_suspend
  <2>6. CASE java_resume(t)
    BY <2>6 DEF java_resume
  <2>. QED  BY <1>6, <2>1, <2>2, <2>3, <2>4, <2>5, <2>6 DEF ClientSteps
<1>. QED  BY <1>1, <1>2, <1>3, <1>4, <1>5, <1>6 DEF Act, Run

----------------------------------------------------------------------------
(* What the list operations do to the elements of a list and to its being  *)
(* free of duplicates.                                                     *)

\* Lists of no and of one element.
LEMMA ShortLists ==
  ASSUME NEW x
  PROVE  /\ Range(<<>>) = {} /\ Range(<<x>>) = {x}
         /\ IsInjective(<<>>) /\ IsInjective(<<x>>)
  BY SMT DEF Range, IsInjective

\* A list is empty when it has no elements.
LEMMA EmptyList ==
  ASSUME NEW S, NEW s \in Seq(S)
  PROVE  s = <<>> <=> Range(s) = {}
<1>1. s # <<>> => 1 \in DOMAIN s
  BY SMT
<1>2. s # <<>> => s[1] \in Range(s)
  BY <1>1 DEF Range
<1>. QED  BY <1>2, ShortLists

\* Concatenation: the elements of both lists, without duplicates if they are
\* disjoint.
LEMMA ConcatFacts ==
  ASSUME NEW S, NEW r \in Seq(S), NEW s \in Seq(S)
  PROVE  /\ r \o s \in Seq(S) /\ Range(r \o s) = Range(r) \cup Range(s)
         /\ IsInjective(r) /\ IsInjective(s) /\ Range(r) \cap Range(s) = {} =>
              IsInjective(r \o s)
<1>. DEFINE q == r \o s
<1>1. /\ DOMAIN r = 1..Len(r) /\ DOMAIN s = 1..Len(s) /\ Len(r) \in Nat /\ Len(s) \in Nat
      /\ q \in Seq(S) /\ DOMAIN q = 1..Len(r) + Len(s)
      /\ \A i \in 1..Len(r) : q[i] = r[i]
      /\ \A i \in 1..Len(s) : q[Len(r) + i] = s[i]
  BY SMT
<1>. HIDE DEF q
<1>2. \A i \in DOMAIN r : i \in DOMAIN q /\ q[i] = r[i]
  BY SMT, <1>1
<1>3. \A i \in DOMAIN s : Len(r) + i \in DOMAIN q /\ q[Len(r) + i] = s[i]
  BY SMT, <1>1
<1>4. \A i \in DOMAIN q : \/ i \in DOMAIN r /\ q[i] = r[i]
                          \/ i - Len(r) \in DOMAIN s /\ q[i] = s[i - Len(r)] /\ i > Len(r)
  <2>. TAKE i \in DOMAIN q
  <2>1. CASE i <= Len(r)  BY SMT, <1>1, <2>1
  <2>2. CASE i > Len(r)
    <3>1. i - Len(r) \in 1..Len(s) /\ Len(r) + (i - Len(r)) = i
      BY SMT, <1>1, <2>2
    <3>2. q[Len(r) + (i - Len(r))] = s[i - Len(r)]
      BY <1>1, <3>1
    <3>. QED  BY <1>1, <2>2, <3>1, <3>2
  <2>. QED  BY SMT, <1>1, <2>1, <2>2
<1>5. Range(q) = Range(r) \cup Range(s)
  <2>1. \A y \in Range(r) : y \in Range(q)
    BY <1>2 DEF Range
  <2>2. \A y \in Range(s) : y \in Range(q)
    BY <1>3 DEF Range
  <2>3. \A y \in Range(q) : y \in Range(r) \/ y \in Range(s)
    BY <1>4 DEF Range
  <2>. QED  BY <2>1, <2>2, <2>3
<1>6. ASSUME IsInjective(r), IsInjective(s), Range(r) \cap Range(s) = {}
      PROVE  IsInjective(q)
  <2>. SUFFICES ASSUME NEW i \in DOMAIN q, NEW j \in DOMAIN q, q[i] = q[j] PROVE i = j
    BY DEF IsInjective
  <2>1. \A k \in DOMAIN r, l \in DOMAIN s : r[k] # s[l]
    BY <1>6 DEF Range
  <2>2. CASE i \in DOMAIN r /\ q[i] = r[i] /\ j \in DOMAIN r /\ q[j] = r[j]
    BY <1>6, <2>2 DEF IsInjective
  <2>3. CASE /\ i - Len(r) \in DOMAIN s /\ q[i] = s[i - Len(r)]
             /\ j - Len(r) \in DOMAIN s /\ q[j] = s[j - Len(r)]
    <3>1. i - Len(r) = j - Len(r)
      BY <1>6, <2>3 DEF IsInjective
    <3>. QED  BY SMT, <1>1, <3>1
  <2>. QED  BY <1>4, <2>1, <2>2, <2>3
<1>. QED  BY <1>1, <1>5, <1>6 DEF q

\* Popping takes exactly the head out of a list without duplicates.
LEMMA PopFacts ==
  ASSUME NEW S, NEW s \in Seq(S), s # <<>>
  PROVE  /\ Tail(s) \in Seq(S) /\ Head(s) \in S /\ Head(s) \in Range(s)
         /\ IsInjective(s) => /\ IsInjective(Tail(s))
                              /\ Range(Tail(s)) = Range(s) \ {Head(s)}
<1>. DEFINE r == Tail(s)
<1>1. /\ r \in Seq(S) /\ Head(s) \in S /\ Len(s) \in Nat /\ Len(s) > 0
      /\ DOMAIN r = 1..Len(s)-1 /\ DOMAIN s = 1..Len(s) /\ s[1] = Head(s)
      /\ \A i \in 1..Len(s)-1 : r[i] = s[i+1]
  BY SMT
<1>. HIDE DEF r
<1>2. 1 \in DOMAIN s /\ \A i \in DOMAIN r : i + 1 \in DOMAIN s /\ i + 1 # 1 /\ r[i] = s[i+1]
  BY SMT, <1>1
<1>3. \A i \in DOMAIN s : i = 1 \/ (i-1 \in DOMAIN r /\ s[i] = r[i-1])
  BY SMT, <1>1
<1>4. Head(s) \in Range(s)
  BY <1>1, <1>2 DEF Range
<1>5. ASSUME IsInjective(s) PROVE IsInjective(r)
  <2>. SUFFICES ASSUME NEW i \in DOMAIN r, NEW j \in DOMAIN r, r[i] = r[j] PROVE i = j
    BY DEF IsInjective
  <2>1. i + 1 = j + 1
    BY <1>2, <1>5 DEF IsInjective
  <2>. QED  BY SMT, <1>1, <2>1
<1>6. ASSUME IsInjective(s) PROVE Range(r) = Range(s) \ {Head(s)}
  <2>1. \A i \in DOMAIN r : r[i] \in Range(s) /\ r[i] # Head(s)
    BY <1>1, <1>2, <1>6 DEF Range, IsInjective
  <2>2. \A i \in DOMAIN s : s[i] = Head(s) \/ s[i] \in Range(r)
    BY <1>1, <1>3 DEF Range
  <2>. QED  BY <2>1, <2>2 DEF Range
<1>. QED  BY <1>1, <1>4, <1>5, <1>6 DEF r

\* Draining in reverse order.
LEMMA ReverseFacts ==
  ASSUME NEW S, NEW s \in Seq(S)
  PROVE  /\ Reversed(s) \in Seq(S) /\ Range(Reversed(s)) = Range(s)
         /\ IsInjective(s) => IsInjective(Reversed(s))
<1>. DEFINE r == Reversed(s)
<1>1. /\ Len(s) \in Nat /\ DOMAIN s = 1..Len(s) /\ DOMAIN r = 1..Len(s)
      /\ \A i \in 1..Len(s) : r[i] = s[Len(s) - i + 1] /\ s[i] \in S
  BY SMT DEF Reversed
<1>2. \A i \in DOMAIN s : /\ Len(s) - i + 1 \in DOMAIN s
                          /\ (Len(s) - (Len(s) - i + 1)) + 1 = i
  BY SMT, <1>1
<1>3. r \in Seq(S)
  BY SMT, <1>1, <1>2 DEF Reversed
<1>. HIDE DEF r
<1>4. Range(r) = Range(s)
  <2>1. \A i \in DOMAIN r : r[i] \in Range(s)
    BY <1>1, <1>2 DEF Range
  <2>2. \A i \in DOMAIN s : s[i] \in Range(r)
    <3>. TAKE i \in DOMAIN s
    <3>1. r[Len(s) - i + 1] = s[i] /\ Len(s) - i + 1 \in DOMAIN r
      BY <1>1, <1>2
    <3>. QED  BY <3>1 DEF Range
  <2>. QED  BY <2>1, <2>2 DEF Range
<1>5. ASSUME IsInjective(s) PROVE IsInjective(r)
  <2>. SUFFICES ASSUME NEW i \in DOMAIN r, NEW j \in DOMAIN r, r[i] = r[j] PROVE i = j
    BY DEF IsInjective
  <2>1. Len(s) - i + 1 = Len(s) - j + 1
    BY <1>1, <1>2, <1>5 DEF IsInjective
  <2>. QED  BY SMT, <1>1, <2>1
<1>. QED  BY <1>3, <1>4, <1>5 DEF r

RemoveAt(s, k) == [i \in 1..Len(s)-1 |-> IF i < k THEN s[i] ELSE s[i+1]]

\* Unlinking position k takes exactly that element out.
LEMMA RemoveFacts ==
  ASSUME NEW S, NEW s \in Seq(S), NEW k \in DOMAIN s, IsInjective(s)
  PROVE  /\ RemoveAt(s, k) \in Seq(S)
         /\ Range(RemoveAt(s, k)) = Range(s) \ {s[k]}
         /\ IsInjective(RemoveAt(s, k))
<1>. DEFINE r == RemoveAt(s, k)
<1>1. k \in 1..Len(s) /\ Len(s) \in Nat /\ DOMAIN s = 1..Len(s)
  BY SMT
<1>2. r \in Seq(S) /\ DOMAIN r = 1..Len(s)-1
      /\ \A i \in 1..Len(s)-1 : r[i] = IF i < k THEN s[i] ELSE s[i+1]
  <2>1. /\ r = [i \in 1..Len(s)-1 |-> IF i < k THEN s[i] ELSE s[i+1]]
    BY DEF RemoveAt
  <2>2. Len(s)-1 \in Nat /\ \A i \in 1..Len(s)-1 : (IF i < k THEN s[i] ELSE s[i+1]) \in S
    BY SMT, <1>1
  <2>. QED  BY SMT, <2>1, <2>2
<1>. HIDE DEF r
<1>3. Range(r) = Range(s) \ {s[k]}
  <2>1. \A i \in DOMAIN r : r[i] \in Range(s) /\ r[i] # s[k]
    <3>. TAKE i \in DOMAIN r
    <3>1. PICK j \in DOMAIN s : j # k /\ r[i] = s[j]
      <4>1. i \in 1..Len(s)-1 /\ r[i] = IF i < k THEN s[i] ELSE s[i+1]
        BY <1>2
      <4>2. i \in DOMAIN s /\ i + 1 \in DOMAIN s
        BY SMT, <1>1, <4>1
      <4>3. CASE i < k  BY SMT, <1>1, <4>1, <4>2, <4>3
      <4>4. CASE ~(i < k)  BY SMT, <1>1, <4>1, <4>2, <4>4
      <4>. QED  BY <4>3, <4>4
    <3>. QED  BY <3>1 DEF Range, IsInjective
  <2>2. \A j \in DOMAIN s : j # k => s[j] \in Range(r)
    <3>. TAKE j \in DOMAIN s
    <3>. HAVE j # k
    <3>1. CASE j < k
      <4>1. j \in DOMAIN r /\ r[j] = s[j]
        BY SMT, <3>1, <1>1, <1>2
      <4>. QED  BY <4>1 DEF Range
    <3>2. CASE j > k
      <4>1. j - 1 \in DOMAIN r /\ r[j-1] = s[j]
        BY SMT, <3>2, <1>1, <1>2
      <4>. QED  BY <4>1 DEF Range
    <3>. QED  BY SMT, <3>1, <3>2, <1>1
  <2>. QED  BY <2>1, <2>2 DEF Range
<1>4. IsInjective(r)
  <2>. SUFFICES ASSUME NEW i \in DOMAIN r, NEW j \in DOMAIN r, r[i] = r[j] PROVE i = j
    BY DEF IsInjective
  <2>. DEFINE ii == IF i < k THEN i ELSE i + 1
              jj == IF j < k THEN j ELSE j + 1
  <2>1. ii \in DOMAIN s /\ jj \in DOMAIN s /\ s[ii] = s[jj]
    BY SMTT(30), <1>1, <1>2
  <2>2. ii = jj
    BY <2>1 DEF IsInjective
  <2>. QED  BY SMT, <2>2, <1>1, <1>2
<1>. QED  BY <1>2, <1>3, <1>4 DEF r

\* Unlinking x takes x out.
LEMMA WithoutFacts ==
  ASSUME NEW S, NEW s \in Seq(S), NEW x, IsInjective(s)
  PROVE  /\ Without(s, x) \in Seq(S)
         /\ Range(Without(s, x)) = Range(s) \ {x}
         /\ IsInjective(Without(s, x))
<1>1. CASE x \in Range(s)
  <2>. DEFINE k == CHOOSE i \in DOMAIN s : s[i] = x
  <2>1. k \in DOMAIN s /\ s[k] = x
    BY <1>1 DEF Range
  <2>2. Without(s, x) = RemoveAt(s, k)
    BY <1>1 DEF Without, RemoveAt
  <2>. HIDE DEF k
  <2>. QED  BY <2>1, <2>2, RemoveFacts
<1>2. CASE x \notin Range(s)
  BY <1>2 DEF Without
<1>. QED  BY <1>1, <1>2

\* A node is added at either end of a list it is not on.
LEMMA PushFacts ==
  ASSUME NEW S, NEW s \in Seq(S), NEW x \in S, x \notin Range(s), IsInjective(s)
  PROVE  /\ <<x>> \o s \in Seq(S) /\ Range(<<x>> \o s) = {x} \cup Range(s)
         /\ IsInjective(<<x>> \o s)
         /\ s \o <<x>> \in Seq(S) /\ Range(s \o <<x>>) = {x} \cup Range(s)
         /\ IsInjective(s \o <<x>>)
<1>. DEFINE r == <<x>>
<1>1. r \in Seq(S)
  BY SMT
<1>2. Range(r) = {x} /\ IsInjective(r)
  BY ShortLists
<1>. HIDE DEF r
<1>3. Range(r) \cap Range(s) = {} /\ Range(s) \cap Range(r) = {}
  BY <1>2
<1>4. /\ r \o s \in Seq(S) /\ Range(r \o s) = Range(r) \cup Range(s)
      /\ IsInjective(r) /\ IsInjective(s) /\ Range(r) \cap Range(s) = {} => IsInjective(r \o s)
  BY <1>1, ConcatFacts
<1>5. /\ s \o r \in Seq(S) /\ Range(s \o r) = Range(s) \cup Range(r)
      /\ IsInjective(s) /\ IsInjective(r) /\ Range(s) \cap Range(r) = {} => IsInjective(s \o r)
  BY <1>1, ConcatFacts
<1>. QED  BY <1>2, <1>3, <1>4, <1>5 DEF r

LEMMA AppendFacts ==
  ASSUME NEW S, NEW s \in Seq(S), NEW x \in S
  PROVE  Append(s, x) = s \o <<x>>
  BY SMT

\* A notifier and an exiting thread find a thread at the head of a list.
LEMMA Heads ==
  ASSUME TypeOK
  PROVE  /\ cxq # <<>> => Head(cxq) \in Thread
         /\ EntryList # <<>> => Head(EntryList) \in Thread
         /\ WaitSet # <<>> => Head(WaitSet) \in Thread
         /\ cxq # <<>> => Drained \in Seq(Thread) /\ Drained # <<>>
                          /\ Head(Drained) \in Thread
<1>1. cxq \in Seq(Thread) /\ EntryList \in Seq(Thread) /\ WaitSet \in Seq(Thread)
  BY DEF TypeOK
<1>2. /\ EntryList \o cxq \in Seq(Thread) /\ Range(EntryList \o cxq) = Range(EntryList) \cup Range(cxq)
      /\ cxq \o EntryList \in Seq(Thread) /\ Range(cxq \o EntryList) = Range(EntryList) \cup Range(cxq)
      /\ Reversed(cxq) \in Seq(Thread) /\ Range(Reversed(cxq)) = Range(cxq)
  <2>1. EntryList \o cxq \in Seq(Thread) /\ Range(EntryList \o cxq) = Range(EntryList) \cup Range(cxq)
    BY <1>1, ConcatFacts
  <2>2. cxq \o EntryList \in Seq(Thread) /\ Range(cxq \o EntryList) = Range(cxq) \cup Range(EntryList)
    BY <1>1, ConcatFacts
  <2>3. Reversed(cxq) \in Seq(Thread) /\ Range(Reversed(cxq)) = Range(cxq)
    BY <1>1, ReverseFacts
  <2>. QED  BY <2>1, <2>2, <2>3
<1>3. ASSUME cxq # <<>> PROVE Drained \in Seq(Thread) /\ Range(Drained) # {}
  <2>1. Range(cxq) # {}
    BY <1>1, <1>3, EmptyList
  <2>. QED  BY <1>1, <1>2, <2>1 DEF Drained
<1>4. ASSUME cxq # <<>> PROVE Drained # <<>>
  BY <1>3, <1>4, EmptyList
<1>. QED  BY <1>1, <1>3, <1>4, PopFacts

\* Every action keeps the types of the locals and of the nodes.
LEMMA LocalTypeStep ==
  ASSUME NEW t \in Thread, TypeOK, LocalType,
         pc[t] = "abdicate" => EntryList # <<>>, Act(t)
  PROVE  LocalType'
<1>. USE DEF locals, queueVars, waitVars, LocalType
<1>1. CASE SpinSteps(t)
  <2>1. CASE TrySpin(t)
    BY <2>1 DEF TrySpin, Acquired, SpinWon, Entered
  <2>2. CASE SetSucc(t)
    BY <2>2 DEF SetSucc, Step
  <2>3. CASE Spin(t)
    BY <2>3 DEF Spin, Acquired
  <2>4. CASE TestSucc(t, "spun", "spunClear", SpinWon(t))
    BY <2>4 DEF TestSucc, IsHeir, SpinWon, Entered
  <2>5. CASE ClearSucc(t, "spunClear", SpinWon(t))
    BY <2>5 DEF ClearSucc, Step, SpinWon, Entered
  <2>6. CASE TestSucc(t, "abort", "abortClear", ret[t])
    BY <2>6 DEF TestSucc, IsHeir
  <2>7. CASE ClearSucc(t, "abortClear", "abortTry")
    BY <2>7 DEF ClearSucc, Step
  <2>8. CASE TryLock(t, "abortTry", SpinWon(t), ret[t])
    BY <2>8 DEF TryLock, Acquired, SpinWon, Entered
  <2>. QED  BY <1>1, <2>1, <2>2, <2>3, <2>4, <2>5, <2>6, <2>7, <2>8 DEF SpinSteps
<1>2. CASE EnterSteps(t)
  <2>1. CASE Enter(t)
    BY <2>1 DEF Enter, EnterCas, Acquired, Entered
  <2>2. CASE EnterI(t)
    BY <2>2 DEF EnterI, Acquired, Contended
  <2>3. CASE Reset(t)
    BY <2>3 DEF Reset, Step
  <2>4. CASE ReadCxq(t)
    BY <2>4, Heads DEF ReadCxq, TopOfCxq
  <2>5. CASE Push(t)
    BY <2>5 DEF Push, TopOfCxq
  <2>6. CASE PushRetry(t)
    BY <2>6 DEF PushRetry, Acquired
  <2>7. CASE TestOnset(t)
    BY <2>7 DEF TestOnset, OnsetOfContention
  <2>8. CASE AssumeResponsibility(t)
    BY <2>8 DEF AssumeResponsibility, Step
  <2>9. CASE TryLock(t, "loop", "unlink", "choose")
    BY <2>9 DEF TryLock, Acquired
  <2>10. CASE ChoosePark(t)
    BY <2>10 DEF ChoosePark
  <2>11. CASE Park(t, "park", FALSE, "woken")
    BY <2>11 DEF Park, Step
  <2>12. CASE Park(t, "timedPark", TRUE, "woken")
    BY <2>12 DEF Park, Step
  <2>13. CASE TryLock(t, "woken", "unlink", "spin")
    BY <2>13 DEF TryLock, Acquired
  <2>14. CASE TestSucc(t, "futile", "futileClear", Loop(t))
    BY <2>14 DEF TestSucc, IsHeir, Loop
  <2>15. CASE ClearSucc(t, "futileClear", Loop(t))
    BY <2>15 DEF ClearSucc, Step, Loop
  <2>16. CASE Unlink(t)
    BY <2>16 DEF Unlink, Step, Unlinked
  <2>17. CASE TestSucc(t, "egress", "egressClear", Egress(t))
    BY <2>17 DEF TestSucc, IsHeir, Egress
  <2>18. CASE ClearSucc(t, "egressClear", Egress(t))
    BY <2>18 DEF ClearSucc, Step, Egress
  <2>19. CASE EnterEnd(t)
    BY <2>19 DEF EnterEnd, Resigned, Entered
  <2>20. CASE SelfSuspended(t, "selfSuspend", "EnterI")
    BY <2>20 DEF SelfSuspended, Step
  <2>. QED  BY <1>2, <2>1, <2>2, <2>3, <2>4, <2>5, <2>6, <2>7, <2>8, <2>9, <2>10,
            <2>11, <2>12, <2>13, <2>14, <2>15, <2>16, <2>17, <2>18, <2>19,
            <2>20 DEF EnterSteps
<1>3. CASE ExitSteps(t)
  <2>1. CASE exit(t)
    BY <2>1 DEF exit, Transmuted, Nested
  <2>2. CASE Drop(t)
    BY <2>2 DEF Drop, NoHeir
  <2>3. CASE DropRatify(t)
    BY <2>3 DEF DropRatify, Step
  <2>4. CASE Load(t, "ratify", cxq # <<>>, "ldSucc", ret[t])
    BY <2>4 DEF Load
  <2>5. CASE Load(t, "ldEntryList", EntryList # <<>>, "ldSucc", "ldCxq")
    BY <2>5 DEF Load
  <2>6. CASE Load(t, "ldCxq", cxq # <<>>, "ldSucc", ret[t])
    BY <2>6 DEF Load
  <2>7. CASE Load(t, "ldSucc", NoHeir, "recas", ret[t])
    BY <2>7 DEF Load
  <2>8. CASE Reacquire(t)
    BY <2>8 DEF Reacquire, TryLock, Acquired
  <2>9. CASE Select(t)
    <3>1. other' \in [Thread -> Thread \cup {NULL}]
      BY <2>9, Heads DEF Select, Wake, locals, queueVars, LocalType
    <3>2. TState' = TState \/ Drain
      BY <2>9 DEF Select, queueVars
    <3>3. TState' \in [Thread -> {"TS_RUN", "TS_WAIT", "TS_ENTER", "TS_CXQ"}]
      BY <3>2 DEF Drain, LocalType
    <3>. QED  BY <2>9, <3>1, <3>3 DEF Select, locals, waitVars, LocalType
  <2>10. CASE Abdicate(t)
    BY <2>10, Heads DEF Abdicate, At, Wake, NoHeir
  <2>11. CASE NameHeir(t)
    BY <2>11 DEF NameHeir, Step
  <2>12. CASE EpilogDrop(t)
    BY <2>12 DEF EpilogDrop, Step
  <2>13. CASE Unpark(t)
    BY <2>13 DEF Unpark, Return
  <2>14. CASE Fast_Unlock(t)
    BY <2>14 DEF Fast_Unlock, Step
  <2>15. CASE FastDrop(t)
    BY <2>15 DEF FastDrop, Step
  <2>16. CASE complete_exit(t)
    BY <2>16, Types DEF complete_exit, EnvType
  <2>17. CASE Reentered(t)
    BY <2>17 DEF Reentered, Step, Restored
  <2>. QED  BY <1>3, <2>1, <2>2, <2>3, <2>4, <2>5, <2>6, <2>7, <2>8, <2>9, <2>10,
            <2>11, <2>12, <2>13, <2>14, <2>15, <2>16, <2>17 DEF ExitSteps
<1>4. CASE WaitSteps(t)
  <2>1. CASE wait(t)
    BY <2>1 DEF wait, Transmuted
  <2>2. CASE AddWaiter(t)
    BY <2>2, Types DEF AddWaiter, EnvType
  <2>3. CASE Repost(t)
    BY <2>3 DEF Repost, Step
  <2>4. CASE Load(t, "waitTest", ~interrupted[t], "waitNotified", "waitSuspend")
    BY <2>4 DEF Load
  <2>5. CASE Load(t, "waitNotified", ~notified[t], "waitPark", "waitSuspend")
    BY <2>5 DEF Load
  <2>6. CASE Park(t, "waitPark", op[t] = "timed_waiting", "waitSuspend")
    BY <2>6 DEF Park, Step
  <2>7. CASE Load(t, "waitSuspend", suspended[t], "waitSuspended", "waitState")
    BY <2>7 DEF Load
  <2>8. CASE SelfSuspended(t, "waitSuspended", "waitState")
    BY <2>8 DEF SelfSuspended, Step
  <2>9. CASE Load(t, "waitState", TState[t] = "TS_WAIT", "waitUnlink", "waitSucc")
    BY <2>9 DEF Load
  <2>10. CASE WaitUnlink(t)
    BY <2>10 DEF WaitUnlink, Step, DequeueSpecificWaiter
  <2>11. CASE TestSucc(t, "waitSucc", "waitSuccClear", "waitReenter")
    BY <2>11 DEF TestSucc, IsHeir
  <2>12. CASE ClearSucc(t, "waitSuccClear", "waitReenter")
    BY <2>12 DEF ClearSucc, Step
  <2>13. CASE WaitReenter(t)
    BY <2>13 DEF WaitReenter
  <2>14. CASE TryLock(t, "ReenterI", "unlink", "spin")
    BY <2>14 DEF TryLock, Acquired
  <2>15. CASE Park(t, "rPark", FALSE, "rSuspend")
    BY <2>15 DEF Park, Step
  <2>16. CASE SuspendCheckReenter(t)
    BY <2>16 DEF SuspendCheckReenter
  <2>17. CASE ClearSucc(t, "rSuspendClear", "rSuspended")
    BY <2>17 DEF ClearSucc, Step
  <2>18. CASE SelfSuspended(t, "rSuspended", "rSuspend")
    BY <2>18 DEF SelfSuspended, Step
  <2>19. CASE TryLock(t, "rTry", "unlink", "futile")
    BY <2>19 DEF TryLock, Acquired
  <2>20. CASE WaitEnd(t)
    BY <2>20 DEF WaitEnd, Step, Restored
  <2>. QED  BY <1>4, <2>1, <2>2, <2>3, <2>4, <2>5, <2>6, <2>7, <2>8, <2>9, <2>10,
            <2>11, <2>12, <2>13, <2>14, <2>15, <2>16, <2>17, <2>18, <2>19,
            <2>20 DEF WaitSteps
<1>5. CASE NotifySteps(t)
  <2>1. CASE notify(t)
    BY <2>1 DEF notify, Transmuted
  <2>2. CASE NotifyTake(t)
    <3>1. CASE WaitSet = <<>> /\ NotifyDone(t) /\ UNCHANGED <<WaitSet, TState>>
      BY <2>2, <3>1 DEF NotifyTake, NotifyDone, LocalType
    <3>2. CASE DequeueWaiter(t) /\ UNCHANGED op
      <4>1. Head(WaitSet) \in Thread
        BY <3>2, Heads DEF DequeueWaiter
      <4>2. other' \in [Thread -> Thread \cup {NULL}]
        BY <3>2, <4>1 DEF DequeueWaiter, LocalType
      <4>3. TState' = TState \/ TState' = [TState EXCEPT ![Head(WaitSet)] = "TS_ENTER"]
        BY <2>2, <3>2 DEF NotifyTake, DequeueWaiter
      <4>4. TState' \in [Thread -> {"TS_RUN", "TS_WAIT", "TS_ENTER", "TS_CXQ"}]
        BY <4>1, <4>3 DEF LocalType
      <4>. QED  BY <2>2, <3>2, <4>2, <4>4 DEF NotifyTake, LocalType
    <3>. QED  BY <2>2, <3>1, <3>2 DEF NotifyTake
  <2>3. CASE SetNotified(t)
    BY <2>3 DEF SetNotified, Step
  <2>4. CASE NotifyPlace(t)
    BY <2>4 DEF NotifyPlace, NotifyDone, Place, Queued
  <2>5. CASE NotifyAllTake(t)
    BY <2>5, Heads DEF NotifyAllTake, NotifyDone, DequeueWaiter
  <2>6. CASE SetTState(t)
    BY <2>6 DEF SetTState, Step
  <2>7. CASE NotifyAllPlace(t)
    BY <2>7 DEF NotifyAllPlace, Step, Place, Queued
  <2>. QED  BY <1>5, <2>1, <2>2, <2>3, <2>4, <2>5, <2>6, <2>7 DEF NotifySteps
<1>6. CASE ClientSteps(t)
  <2>1. CASE enterAgain(t)
    BY <2>1 DEF enterAgain, Transmuted
  <2>2. CASE \E o \in set.Ops[t] : enter(t, o)
    BY <2>2, OpsFacts DEF enter
  <2>3. CASE interrupt(t)
    BY <2>3 DEF interrupt
  <2>4. CASE InterruptUnpark(t)
    BY <2>4 DEF InterruptUnpark
  <2>5. CASE java_suspend(t)
    BY <2>5 DEF java_suspend
  <2>6. CASE java_resume(t)
    BY <2>6 DEF java_resume
  <2>. QED  BY <1>6, <2>1, <2>2, <2>3, <2>4, <2>5, <2>6 DEF ClientSteps
<1>. QED  BY <1>1, <1>2, <1>3, <1>4, <1>5, <1>6 DEF Act, Run

----------------------------------------------------------------------------
(* Every step keeps the invariant.  For the lock, the counters and the     *)
(* heirs that follows from the effects of the steps alone; for the lists   *)
(* there is one lemma for each step that changes them.                     *)

LEMMA BasicLockFacts ==
  ASSUME NEW t \in Thread, NEW u \in Thread
  PROVE  /\ BasicLock(t) # u /\ BasicLock(t) # NULL /\ t # NULL
         /\ BasicLock(t) = BasicLock(u) => t = u
<1>1. BasicLock(t) \notin Thread \cup {NULL} /\ NULL \notin Thread
  BY ConstantsAssumption
<1>2. BasicLock(t) = BasicLock(u) => t = u
  BY SMT DEF BasicLock
<1>. QED  BY <1>1, <1>2

\* At most one thread holds the monitor, and it has no recursions on the way in
\* and on the way out.
LEMMA OneHolder ==
  ASSUME LockInv, NEW t \in Thread, Holds(t)
  PROVE  /\ \A u \in Thread : Holds(u) => u = t
         /\ pc[t] \notin Nesting => recursions = 0
<1>1. ASSUME NEW u \in Thread, Holds(u) PROVE u = t
  <2>1. owner \in {t, BasicLock(t)} /\ owner \in {u, BasicLock(u)}
    BY <1>1 DEF LockInv, MutualExclusion
  <2>. QED  BY <2>1, BasicLockFacts
<1>2. ASSUME NEW u \in Thread, pc[u] \in Nesting PROVE Holds(u)
  BY <1>2 DEF Nesting, Notifying, Holds, Holding
<1>. QED  BY <1>1, <1>2 DEF LockInv

LEMMA LockInvStep ==
  ASSUME LockInv, NEW t \in Thread, Others(t), LockEffect(t), NestEffect(t)
  PROVE  LockInv'
<1>1. \A u \in Thread : Holds(u) <=> owner \in {u, BasicLock(u)}
  BY DEF LockInv, MutualExclusion
<1>2. \A u \in Thread \ {t} : Holds(u)' <=> Holds(u)
  BY DEF Others, Holds
<1>3. MutualExclusion'
  <2>. SUFFICES ASSUME NEW u \in Thread PROVE Holds(u)' <=> owner' \in {u, BasicLock(u)}
    BY DEF MutualExclusion, BasicLock, Holds
  <2>1. BasicLock(u) # t /\ BasicLock(t) # u /\ BasicLock(u) # NULL /\ u # NULL
        /\ (BasicLock(t) = BasicLock(u) => t = u)
    BY BasicLockFacts
  <2>2. CASE u = t  BY <1>1, <2>1, <2>2 DEF LockEffect
  <2>3. CASE u # t  BY <1>1, <1>2, <2>1, <2>3 DEF LockEffect
  <2>. QED  BY <2>2, <2>3
<1>4. recursions' = 0 \/ \E u \in Thread : pc'[u] \in Nesting
  <2>1. CASE recursions' = 0 \/ pc'[t] \in Nesting  BY <2>1
  <2>2. CASE recursions' = recursions /\ pc[t] \notin Nesting
    BY <2>2 DEF LockInv, Others
  <2>. QED  BY <2>1, <2>2 DEF NestEffect
<1>5. ASSUME NEW u \in Thread, owner' = BasicLock(u) PROVE pc'[u] = "in" /\ recursions' = 0
  <2>1. owner' # t /\ owner' # NULL
    BY <1>5, BasicLockFacts
  <2>2. owner = BasicLock(u)
    BY <1>5, <2>1 DEF LockEffect
  <2>3. pc[u] = "in" /\ recursions = 0
    BY <2>2 DEF LockInv
  <2>4. CASE u = t  BY <2>1, <2>3, <2>4 DEF NestEffect
  <2>5. CASE u # t
    <3>1. ~Holds(t)
      BY <1>1, <2>2, <2>5, BasicLockFacts
    <3>. QED  BY <2>3, <2>5, <3>1 DEF NestEffect, Others
  <2>. QED  BY <2>4, <2>5
<1>. QED  BY <1>3, <1>4, <1>5 DEF LockInv, Nesting, BasicLock

\* What a step must do with the lists: keep ListInv, keep the nodes of other
\* threads in order, and leave the EntryList to the holder.
ListResult(t) ==
  /\ cxq' \in Seq(Thread) /\ EntryList' \in Seq(Thread) /\ WaitSet' \in Seq(Thread)
  /\ ListInv'
  /\ \A u \in Thread \ {t} : NodeInv(u)' /\ (Listed(u) => Listed(u)')
  /\ TState'[t] # TState[t] => NodeInv(t)'
  /\ ~Holds(t) => EntryList' = EntryList /\ Range(cxq) \subseteq Range(cxq')

\* What the invariant says about the lists and the nodes.
LEMMA ListFacts ==
  ASSUME Inv
  PROVE  /\ PcType /\ LocalType
         /\ cxq \in Seq(Thread) /\ EntryList \in Seq(Thread) /\ WaitSet \in Seq(Thread)
         /\ IsInjective(cxq) /\ IsInjective(EntryList) /\ IsInjective(WaitSet)
         /\ \A u \in Thread : OnList(u) /\ HandInv(u) /\ NodeInv(u) /\ RetInv(u)
<1>1. cxq \in Seq(Thread) /\ EntryList \in Seq(Thread) /\ WaitSet \in Seq(Thread)
  BY DEF Inv, TypeOK
<1>. QED  BY <1>1, Types DEF Inv, ListInv, LocalInv

\* The one notifier that has a waiter in its hands is the holder.
LEMMA Hands ==
  ASSUME LockInv, NEW t \in Thread, Holds(t)
  PROVE  /\ \A u \in Thread : pc[u] \in Locked => u = t
         /\ pc[t] \notin Moving => \A u \in Thread : ~InTransit(u)
         /\ pc[t] \in Moving => \A u \in Thread : InTransit(u) <=> u = other[t]
<1>1. \A u \in Thread : pc[u] \in Locked => u = t
  BY OneHolder DEF Locked, Moving, Holds, Holding
<1>. QED  BY <1>1 DEF InTransit, Locked, Moving

LEMMA HandsAfter ==
  ASSUME LockInv, NEW t \in Thread, Holds(t), Others(t)
  PROVE  /\ \A u \in Thread \ {t} : pc'[u] \notin Locked
         /\ pc'[t] \notin Moving => \A u \in Thread : ~InTransit(u)'
         /\ pc'[t] \in Moving => \A u \in Thread : InTransit(u)' <=> u = other'[t]
<1>1. \A u \in Thread \ {t} : pc'[u] \notin Locked
  BY Hands DEF Others
<1>. QED  BY <1>1 DEF InTransit, Locked, Moving

LEMMA HandsKept ==
  ASSUME NEW t \in Thread, Others(t), pc[t] \notin Moving, pc'[t] \notin Moving
  PROVE  \A u \in Thread : InTransit(u)' <=> InTransit(u)
  BY DEF InTransit, Moving, Others

\* A notifier keeps what it has in its hands.
LEMMA HandKept ==
  ASSUME NEW u \in Thread, HandInv(u), set' = set, WaitSetLock' = WaitSetLock,
         pc'[u] \in Locked => pc[u] \in Locked,
         pc'[u] \in Moving =>
           /\ pc[u] \in Moving /\ (pc'[u] = "allState" <=> pc[u] = "allState")
           /\ other'[u] = other[u] /\ TState'[other[u]] = TState[other[u]]
  PROVE  HandInv(u)'
<1>1. ASSUME pc'[u] \in Moving
      PROVE  /\ other'[u] \in Thread
             /\ TState'[other'[u]] = IF pc'[u] = "allState" \/ set'.MoveNotifyee = 4
                                       THEN "TS_WAIT" ELSE "TS_ENTER"
  <2>1. /\ other[u] \in Thread
        /\ TState[other[u]] = IF pc[u] = "allState" \/ set.MoveNotifyee = 4
                                THEN "TS_WAIT" ELSE "TS_ENTER"
    BY <1>1 DEF HandInv
  <2>2. other'[u] \in Thread /\ TState'[other'[u]] = TState[other[u]]
    BY <1>1, <2>1
  <2>3. CASE pc[u] = "allState" \/ set.MoveNotifyee = 4  BY <1>1, <2>1, <2>2, <2>3
  <2>4. CASE ~(pc[u] = "allState" \/ set.MoveNotifyee = 4)  BY <1>1, <2>1, <2>2, <2>4
  <2>. QED  BY <2>3, <2>4
<1>. QED  BY <1>1 DEF HandInv

\* A notifier, and an exiting thread that drains the _cxq, do no harm to a node.
LEMMA NodeKept ==
  ASSUME NEW u \in Thread, NodeInv(u), pc'[u] = pc[u], ret'[u] = ret[u],
         \/ TState'[u] = TState[u] \/ TState[u] = "TS_WAIT"
         \/ Listed(u) /\ Listed(u)' /\ pc[u] \notin Pushing
  PROVE  NodeInv(u)'
<1>1. CASE TState'[u] = TState[u]  BY <1>1 DEF NodeInv, Listed
<1>2. CASE TState[u] = "TS_WAIT"  BY <1>2 DEF NodeInv, Listed
<1>3. CASE Listed(u) /\ Listed(u)' /\ pc[u] \notin Pushing
  BY <1>3 DEF NodeInv, Listed, Woken
<1>. QED  BY <1>1, <1>2, <1>3

LEMMA QuietLists ==
  ASSUME Inv, NEW t \in Thread, Others(t), Quiet(t)
  PROVE  ListResult(t)
<1>. USE ListFacts
<1>1. UNCHANGED <<cxq, EntryList, TState, WaitSet, WaitSetLock>> /\ set' = set
  BY DEF Quiet, Others
<1>2. \A u \in Thread : InTransit(u)' <=> InTransit(u)
  <2>1. \A v \in Thread : /\ pc'[v] \in Moving <=> pc[v] \in Moving
                          /\ pc[v] \in Moving => other'[v] = other[v]
    BY DEF Quiet, Others
  <2>. QED  BY <2>1 DEF InTransit, Moving
<1>3. ASSUME NEW u \in Thread PROVE OnList(u)'
  <2>1. pc'[u] \in Pushing <=> pc[u] \in Pushing
    BY DEF Quiet, Others
  <2>2. u \in Range(WaitSet) => ~notified'[u]
    <3>1. u \in Range(WaitSet) => ~notified[u] /\ ~InTransit(u)
      BY DEF OnList
    <3>. QED  BY <3>1 DEF Quiet, InTransit, Moving
  <2>. QED  BY <1>1, <1>2, <2>1, <2>2 DEF OnList
<1>4. ASSUME NEW u \in Thread PROVE HandInv(u)'
  <2>1. HandInv(u)
    OBVIOUS
  <2>2. CASE u = t  BY <1>1, <2>1, <2>2, HandKept DEF Quiet
  <2>3. CASE u # t  BY <1>1, <2>1, <2>3, HandKept DEF Others
  <2>. QED  BY <2>2, <2>3
<1>5. \A u \in Thread \ {t} : NodeInv(u)'
  BY <1>1, NodeKept DEF Others
<1>. QED  BY <1>1, <1>3, <1>4, <1>5 DEF ListResult, ListInv, Listed

LEMMA ResetLists ==
  ASSUME Inv, NEW t \in Thread, Others(t), Reset(t)
  PROVE  ListResult(t)
<1>. USE ListFacts
<1>1. /\ pc[t] = "reset" /\ pc'[t] = "readCxq" /\ TState' = [TState EXCEPT ![t] = "TS_CXQ"]
      /\ UNCHANGED <<cxq, EntryList, WaitSet, WaitSetLock, notified>> /\ set' = set
  BY DEF Reset, Step, At, Goto, waitVars, PcType, Others
<1>2. TState[t] = "TS_RUN" /\ TState'[t] = "TS_CXQ" /\ \A u \in Thread \ {t} : TState'[u] = TState[u]
  BY <1>1 DEF NodeInv, LocalType
<1>3. \A u \in Thread : InTransit(u)' <=> InTransit(u)
  BY <1>1, HandsKept DEF Moving
<1>4. ASSUME NEW u \in Thread PROVE OnList(u)'
  <2>1. OnList(u)
    OBVIOUS
  <2>2. CASE u = t  BY <1>1, <1>2, <2>1, <2>2 DEF OnList, Pushing
  <2>3. CASE u # t  BY <1>1, <1>2, <1>3, <2>1, <2>3 DEF OnList, Others
  <2>. QED  BY <2>2, <2>3
<1>5. ASSUME NEW u \in Thread PROVE HandInv(u)'
  <2>1. CASE u = t  BY <1>1, <2>1 DEF HandInv, Locked, Moving
  <2>2. CASE u # t
    <3>1. pc[u] \in Moving => TState'[other[u]] = TState[other[u]]
      BY <1>2 DEF HandInv
    <3>. QED  BY <1>1, <2>2, <3>1, HandKept DEF Others
  <2>. QED  BY <2>1, <2>2
<1>6. \A u \in Thread \ {t} : NodeInv(u)'
  BY <1>2, NodeKept DEF Others
<1>7. NodeInv(t)'
  BY <1>1, <1>2 DEF NodeInv, Pushing, Enqueued, Futile, Reentering, Spinning, Woken,
                    Notifying, Exiting
<1>. QED  BY <1>1, <1>2, <1>4, <1>5, <1>6, <1>7 DEF ListResult, ListInv, Listed

LEMMA PushLists ==
  ASSUME Inv, NEW t \in Thread, Others(t), Push(t)
  PROVE  ListResult(t)
<1>. USE ListFacts
<1>1. CASE TopOfCxq # other[t]
  <2>1. Quiet(t)
    BY <1>1 DEF Push, At, Goto, waitVars, PcType, Quiet, Pushing, Moving, Locked
  <2>. QED  BY <2>1, QuietLists
<1>2. CASE TopOfCxq = other[t]
  <2>1. /\ pc[t] = "push" /\ pc'[t] = "resp" /\ cxq' = <<t>> \o cxq /\ TState' = TState
        /\ UNCHANGED <<EntryList, WaitSet, WaitSetLock, notified>> /\ set' = set
    BY <1>2 DEF Push, At, Goto, waitVars, PcType, Others
  <2>2. TState[t] = "TS_CXQ" /\ t \notin Range(cxq)
    BY <2>1 DEF NodeInv, OnList, Pushing
  <2>3. cxq' \in Seq(Thread) /\ Range(cxq') = {t} \cup Range(cxq) /\ IsInjective(cxq')
    BY <2>1, <2>2, PushFacts
  <2>4. \A u \in Thread : InTransit(u)' <=> InTransit(u)
    BY <2>1, HandsKept DEF Moving
  <2>5. ASSUME NEW u \in Thread PROVE OnList(u)'
    <3>1. OnList(u)
      OBVIOUS
    <3>2. CASE u = t  BY <2>1, <2>2, <2>3, <2>4, <3>1, <3>2 DEF OnList, Pushing
    <3>3. CASE u # t  BY <2>1, <2>3, <2>4, <3>1, <3>3 DEF OnList, Others
    <3>. QED  BY <3>2, <3>3
  <2>6. ASSUME NEW u \in Thread PROVE HandInv(u)'
    <3>1. CASE u = t  BY <2>1, <3>1 DEF HandInv, Locked, Moving
    <3>2. CASE u # t  BY <2>1, <3>2, HandKept DEF Others
    <3>. QED  BY <3>1, <3>2
  <2>7. \A u \in Thread \ {t} : NodeInv(u)'
    BY <2>1, NodeKept DEF Others
  <2>. QED  BY <2>1, <2>3, <2>5, <2>6, <2>7 DEF ListResult, ListInv, Listed
<1>. QED  BY <1>1, <1>2

LEMMA PushRetryLists ==
  ASSUME Inv, NEW t \in Thread, Others(t), PushRetry(t)
  PROVE  ListResult(t)
<1>. USE ListFacts
<1>1. CASE pc'[t] = "readCxq"
  <2>1. Quiet(t)
    BY <1>1 DEF PushRetry, At, Goto, waitVars, PcType, Quiet, Pushing, Moving, Locked
  <2>. QED  BY <2>1, QuietLists
<1>2. CASE pc'[t] # "readCxq"
  <2>1. /\ pc[t] = "pushRetry" /\ pc'[t] = "suspendCheck"
        /\ TState' = [TState EXCEPT ![t] = "TS_RUN"]
        /\ UNCHANGED <<cxq, EntryList, WaitSet, WaitSetLock, notified>> /\ set' = set
    BY <1>2 DEF PushRetry, At, Goto, waitVars, PcType, Others
  <2>2. /\ TState[t] = "TS_CXQ" /\ TState'[t] = "TS_RUN"
        /\ \A u \in Thread \ {t} : TState'[u] = TState[u]
    BY <2>1 DEF NodeInv, LocalType, Pushing
  <2>3. \A u \in Thread : InTransit(u)' <=> InTransit(u)
    BY <2>1, HandsKept DEF Moving
  <2>4. ASSUME NEW u \in Thread PROVE OnList(u)'
    <3>1. OnList(u)
      OBVIOUS
    <3>2. CASE u = t  BY <2>1, <2>2, <3>1, <3>2 DEF OnList, Pushing
    <3>3. CASE u # t  BY <2>1, <2>2, <2>3, <3>1, <3>3 DEF OnList, Others
    <3>. QED  BY <3>2, <3>3
  <2>5. ASSUME NEW u \in Thread PROVE HandInv(u)'
    <3>1. CASE u = t  BY <2>1, <3>1 DEF HandInv, Locked, Moving
    <3>2. CASE u # t
      <4>1. pc[u] \in Moving => TState'[other[u]] = TState[other[u]]
        BY <2>2 DEF HandInv
      <4>. QED  BY <2>1, <3>2, <4>1, HandKept DEF Others
    <3>. QED  BY <3>1, <3>2
  <2>6. \A u \in Thread \ {t} : NodeInv(u)'
    BY <2>2, NodeKept DEF Others
  <2>7. NodeInv(t)'
    BY <2>1, <2>2 DEF NodeInv, Pushing, Enqueued, Futile, Reentering, Spinning, Woken
  <2>. QED  BY <2>1, <2>2, <2>4, <2>5, <2>6, <2>7 DEF ListResult, ListInv, Listed
<1>. QED  BY <1>1, <1>2

LEMMA UnlinkLists ==
  ASSUME Inv, NEW t \in Thread, Others(t), Unlink(t)
  PROVE  ListResult(t)
<1>. USE ListFacts
<1>1. /\ pc[t] = "unlink" /\ pc'[t] = "egress" /\ TState' = [TState EXCEPT ![t] = "TS_RUN"]
      /\ Unlinked(t) /\ UNCHANGED <<WaitSet, WaitSetLock, notified>> /\ Holds(t) /\ LockInv
  BY DEF Unlink, Step, At, Goto, waitVars, PcType, Holds, Holding, Inv
<1>2. Listed(t) /\ TState'[t] = "TS_RUN" /\ \A u \in Thread \ {t} : TState'[u] = TState[u]
  BY <1>1 DEF NodeInv, LocalType
<1>3. \A u \in Thread : ~InTransit(u) /\ ~InTransit(u)' /\ (u # t => pc'[u] \notin Locked)
  BY <1>1, Hands, HandsAfter DEF Moving
<1>4. /\ cxq' \in Seq(Thread) /\ EntryList' \in Seq(Thread)
      /\ IsInjective(cxq') /\ IsInjective(EntryList')
      /\ Range(cxq') = Range(cxq) \ {t} /\ Range(EntryList') = Range(EntryList) \ {t}
  <2>1. CASE TState[t] = "TS_ENTER"
    <3>1. EntryList' = Without(EntryList, t) /\ cxq' = cxq /\ t \notin Range(cxq)
      BY <1>1, <2>1 DEF Unlinked, OnList
    <3>. QED  BY <3>1, WithoutFacts
  <2>2. CASE TState[t] # "TS_ENTER"
    <3>1. cxq' = Without(cxq, t) /\ EntryList' = EntryList /\ t \notin Range(EntryList)
      BY <1>1, <2>2 DEF Unlinked, OnList
    <3>. QED  BY <3>1, WithoutFacts
  <2>. QED  BY <2>1, <2>2
<1>5. ASSUME NEW u \in Thread PROVE OnList(u)'
  <2>1. OnList(u)
    OBVIOUS
  <2>2. CASE u = t  BY <1>1, <1>2, <1>4, <2>1, <2>2 DEF OnList, Listed
  <2>3. CASE u # t  BY <1>1, <1>2, <1>3, <1>4, <2>1, <2>3 DEF OnList, Others
  <2>. QED  BY <2>2, <2>3
<1>6. ASSUME NEW u \in Thread PROVE HandInv(u)'
  BY <1>1, <1>3 DEF HandInv, Locked, Moving
<1>7. \A u \in Thread \ {t} : NodeInv(u)'
  BY <1>2, NodeKept DEF Others
<1>8. NodeInv(t)'
  BY <1>1, <1>2 DEF NodeInv, Pushing, Enqueued, Futile, Reentering, Spinning, Woken
<1>. QED  BY <1>1, <1>2, <1>4, <1>5, <1>6, <1>7, <1>8 DEF ListResult, ListInv, Listed

\* Draining the _cxq keeps all nodes, whatever the policy.
LEMMA DrainFacts ==
  ASSUME Inv, EntryList = <<>> \/ set.QMode \in {3, 4}
  PROVE  /\ Drained \in Seq(Thread) /\ IsInjective(Drained)
         /\ Range(Drained) = Range(cxq) \cup Range(EntryList)
<1>1. /\ cxq \in Seq(Thread) /\ EntryList \in Seq(Thread)
      /\ IsInjective(cxq) /\ IsInjective(EntryList)
  BY ListFacts
<1>2. ASSUME NEW x \in Range(cxq), x \in Range(EntryList) PROVE FALSE
  <2>1. x \in Thread
    BY SMT, <1>1 DEF Range
  <2>2. OnList(x)
    BY <2>1, ListFacts
  <2>. QED  BY <1>2, <2>2 DEF OnList
<1>3. Range(cxq) \cap Range(EntryList) = {} /\ Range(EntryList) \cap Range(cxq) = {}
  BY <1>2
<1>4. /\ cxq \o EntryList \in Seq(Thread)
      /\ Range(cxq \o EntryList) = Range(cxq) \cup Range(EntryList)
      /\ IsInjective(cxq) /\ IsInjective(EntryList) /\ Range(cxq) \cap Range(EntryList) = {} =>
           IsInjective(cxq \o EntryList)
  BY <1>1, ConcatFacts
<1>5. /\ EntryList \o cxq \in Seq(Thread)
      /\ Range(EntryList \o cxq) = Range(EntryList) \cup Range(cxq)
      /\ IsInjective(EntryList) /\ IsInjective(cxq) /\ Range(EntryList) \cap Range(cxq) = {} =>
           IsInjective(EntryList \o cxq)
  BY <1>1, ConcatFacts
<1>6. /\ Reversed(cxq) \in Seq(Thread) /\ Range(Reversed(cxq)) = Range(cxq)
      /\ IsInjective(Reversed(cxq))
  BY <1>1, ReverseFacts
<1>7. CASE set.QMode = 3 \/ set.QMode = 4
  <2>1. 3 # 1 /\ 4 # 1 /\ 4 # 3
    BY SMT
  <2>2. Drained = EntryList \o cxq \/ Drained = cxq \o EntryList
    BY SMT, <1>7 DEF Drained
  <2>. QED  BY <1>1, <1>3, <1>4, <1>5, <2>2
<1>8. CASE ~(set.QMode = 3 \/ set.QMode = 4)
  <2>1. Drained = Reversed(cxq) \/ Drained = cxq
    BY SMT, <1>8 DEF Drained
  <2>2. Range(EntryList) = {}
    BY <1>8, ShortLists
  <2>. QED  BY <1>1, <1>6, <2>1, <2>2
<1>. QED  BY <1>7, <1>8

\* What Select() does to the lists, and whom it will wake.
LEMMA SelectFacts ==
  ASSUME Inv, NEW t \in Thread, Select(t)
  PROVE  /\ pc'[t] \in {"epilog", "abdicate", "drop"}
         /\ \/ UNCHANGED <<cxq, EntryList, TState>>
            \/ Drain /\ (EntryList = <<>> \/ set.QMode \in {3, 4}) /\ cxq # <<>>
         /\ pc'[t] = "epilog" =>
              \/ other'[t] \in Range(cxq) \cup Range(EntryList) /\ UNCHANGED <<cxq, EntryList>>
              \/ other'[t] = Head(Drained) /\ Drain /\ set.QMode \in {3, 4} /\ cxq # <<>>
         /\ pc'[t] = "abdicate" => Drain /\ EntryList = <<>> /\ cxq # <<>>
<1>0. /\ cxq \in Seq(Thread) /\ EntryList \in Seq(Thread)
      /\ pc \in [Thread -> Label] /\ other \in [Thread -> Thread \cup {NULL}]
  BY ListFacts DEF PcType, LocalType
<1>1. CASE set.QMode = 2 /\ cxq # <<>> /\ Wake(t, Head(cxq)) /\ UNCHANGED queueVars
  <2>1. Head(cxq) \in Range(cxq)
    BY <1>0, <1>1, PopFacts
  <2>. QED  BY <1>0, <1>1, <2>1 DEF Wake, Goto, queueVars
<1>2. CASE set.QMode \in {3, 4} /\ cxq # <<>> /\ Drain /\ Wake(t, Head(Drained))
  BY <1>0, <1>2 DEF Wake, Goto
<1>3. CASE EntryList # <<>> /\ Wake(t, Head(EntryList)) /\ UNCHANGED queueVars
  <2>1. Head(EntryList) \in Range(EntryList)
    BY <1>0, <1>3, PopFacts
  <2>. QED  BY <1>0, <1>3, <2>1 DEF Wake, Goto, queueVars
<1>4. CASE Goto(t, "drop") /\ UNCHANGED <<queueVars, other>>
  BY <1>0, <1>4 DEF Goto, queueVars
<1>5. CASE EntryList = <<>> /\ cxq # <<>> /\ Drain /\ Goto(t, "abdicate")
  BY <1>0, <1>5 DEF Goto
<1>. QED  BY <1>1, <1>2, <1>3, <1>4, <1>5 DEF Select

LEMMA SelectLists ==
  ASSUME Inv, NEW t \in Thread, Others(t), Select(t)
  PROVE  ListResult(t)
<1>. USE ListFacts
<1>1. /\ pc[t] = "select" /\ pc'[t] \in {"epilog", "abdicate", "drop"}
      /\ UNCHANGED <<WaitSet, WaitSetLock, notified, ret>> /\ Holds(t) /\ LockInv
  BY SelectFacts DEF Select, At, waitVars, Holds, Holding, Inv
<1>2. CASE UNCHANGED <<cxq, EntryList, TState>>
  <2>1. Quiet(t)
    BY <1>1, <1>2 DEF Quiet, Pushing, Moving, Locked
  <2>. QED  BY <2>1, QuietLists
<1>3. CASE Drain /\ (EntryList = <<>> \/ set.QMode \in {3, 4})
  <2>1. /\ cxq' = <<>> /\ Range(cxq') = {} /\ IsInjective(cxq') /\ cxq' \in Seq(Thread)
        /\ EntryList' \in Seq(Thread) /\ IsInjective(EntryList')
        /\ Range(EntryList') = Range(cxq) \cup Range(EntryList)
        /\ \A u \in Thread : TState'[u] = IF u \in Range(cxq) THEN "TS_ENTER" ELSE TState[u]
    <3>1. cxq' = <<>> /\ EntryList' = Drained
          /\ \A u \in Thread : TState'[u] = IF u \in Range(cxq) THEN "TS_ENTER" ELSE TState[u]
      BY <1>3 DEF Drain
    <3>2. <<>> \in Seq(Thread)
      BY SMT
    <3>. QED  BY <1>3, <3>1, <3>2, DrainFacts, ShortLists
  <2>2. \A u \in Thread : ~InTransit(u) /\ ~InTransit(u)' /\ (u # t => pc'[u] \notin Locked)
    BY <1>1, Hands, HandsAfter DEF Moving
  <2>3. ASSUME NEW u \in Thread PROVE OnList(u)'
    <3>1. OnList(u) /\ (pc'[u] \in Pushing <=> pc[u] \in Pushing)
      BY <1>1 DEF Others, Pushing
    <3>2. CASE u \in Range(cxq)  BY <1>1, <2>1, <2>2, <3>1, <3>2 DEF OnList
    <3>3. CASE u \notin Range(cxq)  BY <1>1, <2>1, <2>2, <3>1, <3>3 DEF OnList
    <3>. QED  BY <3>2, <3>3
  <2>4. ASSUME NEW u \in Thread PROVE HandInv(u)'
    BY <1>1, <2>2 DEF HandInv, Locked, Moving
  <2>5. ASSUME NEW u \in Thread
        PROVE  \/ TState'[u] = TState[u]
               \/ Listed(u) /\ Listed(u)' /\ pc[u] \notin Pushing
    BY <2>1 DEF OnList, Listed
  <2>6. ASSUME NEW u \in Thread \ {t} PROVE NodeInv(u)' /\ (Listed(u) => Listed(u)')
    <3>1. NodeInv(u)'
      BY <2>5, NodeKept DEF Others
    <3>. QED  BY <2>5, <3>1 DEF Listed
  <2>7. TState'[t] # TState[t] => NodeInv(t)'
    <3>1. TState'[t] # TState[t] => Listed(t) /\ Listed(t)'
      BY <2>5
    <3>2. Listed(t) => ret[t] = "repost"
      BY <1>1 DEF NodeInv, Exiting, Listed
    <3>. QED  BY <1>1, <3>1, <3>2 DEF NodeInv, Exiting, Pushing, Enqueued, Futile, Reentering,
                                     Spinning, Woken, Notifying
  <2>. QED  BY <1>1, <2>1, <2>3, <2>4, <2>6, <2>7 DEF ListResult, ListInv
<1>. QED  BY <1>2, <1>3, SelectFacts

LEMMA AddWaiterLists ==
  ASSUME Inv, NEW t \in Thread, Others(t), AddWaiter(t)
  PROVE  ListResult(t)
<1>. USE ListFacts
<1>1. /\ pc[t] = "waitAdd" /\ pc'[t] = "exit" /\ TState' = [TState EXCEPT ![t] = "TS_WAIT"]
      /\ ret'[t] = "repost" /\ WaitSet' = Append(WaitSet, t)
      /\ notified' = [notified EXCEPT ![t] = FALSE]
      /\ UNCHANGED <<cxq, EntryList, WaitSetLock>> /\ Holds(t) /\ LockInv
  BY DEF AddWaiter, Step, At, Goto, PcType, Holds, Holding, Inv
<1>2. /\ TState[t] = "TS_RUN" /\ TState'[t] = "TS_WAIT" /\ ~notified'[t]
      /\ \A u \in Thread \ {t} : TState'[u] = TState[u] /\ notified'[u] = notified[u]
  BY <1>1 DEF NodeInv, LocalType
<1>3. \A u \in Thread : ~InTransit(u) /\ ~InTransit(u)' /\ (u # t => pc'[u] \notin Locked)
  BY <1>1, Hands, HandsAfter DEF Moving
<1>4. /\ WaitSet' \in Seq(Thread) /\ Range(WaitSet') = {t} \cup Range(WaitSet)
      /\ IsInjective(WaitSet')
  <2>1. WaitSet' = WaitSet \o <<t>>
    BY <1>1, AppendFacts
  <2>2. t \notin Range(WaitSet)
    BY <1>2 DEF OnList
  <2>. QED  BY <2>1, <2>2, PushFacts
<1>5. ASSUME NEW u \in Thread PROVE OnList(u)'
  <2>1. OnList(u)
    OBVIOUS
  <2>2. CASE u = t  BY <1>1, <1>2, <1>3, <1>4, <2>1, <2>2 DEF OnList
  <2>3. CASE u # t  BY <1>1, <1>2, <1>3, <1>4, <2>1, <2>3 DEF OnList, Others
  <2>. QED  BY <2>2, <2>3
<1>6. ASSUME NEW u \in Thread PROVE HandInv(u)'
  BY <1>1, <1>3 DEF HandInv, Locked, Moving
<1>7. \A u \in Thread \ {t} : NodeInv(u)'
  BY <1>2, NodeKept DEF Others
<1>8. NodeInv(t)'
  BY <1>1, <1>2 DEF NodeInv, Pushing, Enqueued, Futile, Reentering, Spinning, Woken,
                    Notifying
<1>. QED  BY <1>1, <1>2, <1>4, <1>5, <1>6, <1>7, <1>8 DEF ListResult, ListInv, Listed

LEMMA WaitUnlinkLists ==
  ASSUME Inv, NEW t \in Thread, Others(t), WaitUnlink(t)
  PROVE  ListResult(t)
<1>. USE ListFacts
<1>1. /\ pc[t] = "waitUnlink" /\ pc'[t] = "waitSucc" /\ ~WaitSetLock
      /\ UNCHANGED <<cxq, EntryList, WaitSetLock, notified>> /\ set' = set
  BY DEF WaitUnlink, Step, At, Goto, PcType, Others
<1>2. \A u \in Thread : pc[u] \notin Locked
  BY <1>1 DEF HandInv
<1>3. \A u \in Thread : pc'[u] \notin Locked
  BY <1>1, <1>2 DEF Others, Locked, Moving
<1>4. \A u \in Thread : ~InTransit(u) /\ ~InTransit(u)'
  BY <1>2, <1>3 DEF InTransit, Locked, Moving
<1>5. CASE TState[t] # "TS_WAIT"
  <2>1. Quiet(t)
    BY <1>1, <1>5 DEF WaitUnlink, DequeueSpecificWaiter, Quiet, Pushing, Moving, Locked
  <2>. QED  BY <2>1, QuietLists
<1>6. CASE TState[t] = "TS_WAIT"
  <2>1. WaitSet' = Without(WaitSet, t) /\ TState' = [TState EXCEPT ![t] = "TS_RUN"]
    BY <1>6 DEF WaitUnlink, DequeueSpecificWaiter
  <2>2. TState'[t] = "TS_RUN" /\ \A u \in Thread \ {t} : TState'[u] = TState[u]
    BY <2>1 DEF LocalType
  <2>3. /\ WaitSet' \in Seq(Thread) /\ Range(WaitSet') = Range(WaitSet) \ {t}
        /\ IsInjective(WaitSet')
    BY <2>1, WithoutFacts
  <2>4. ASSUME NEW u \in Thread PROVE OnList(u)'
    <3>1. OnList(u)
      OBVIOUS
    <3>2. CASE u = t  BY <1>1, <1>6, <2>2, <2>3, <3>1, <3>2 DEF OnList
    <3>3. CASE u # t  BY <1>1, <1>4, <2>2, <2>3, <3>1, <3>3 DEF OnList, Others
    <3>. QED  BY <3>2, <3>3
  <2>5. ASSUME NEW u \in Thread PROVE HandInv(u)'
    BY <1>3 DEF HandInv, Locked
  <2>6. \A u \in Thread \ {t} : NodeInv(u)'
    BY <2>2, NodeKept DEF Others
  <2>7. NodeInv(t)'
    BY <1>1, <2>2 DEF NodeInv, Pushing, Enqueued, Futile, Reentering, Spinning
  <2>. QED  BY <1>1, <2>2, <2>3, <2>4, <2>5, <2>6, <2>7 DEF ListResult, ListInv, Listed
<1>. QED  BY <1>5, <1>6

\* notify() and notifyAll() have taken the oldest waiter off the WaitSet.
LEMMA TakeLists ==
  ASSUME Inv, NEW t \in Thread, Others(t), pc[t] \in {"notify", "notifyAll", "allNext"},
         DequeueWaiter(t), pc'[t] \in {"notifyFlag", "allState"},
         cxq' = cxq, EntryList' = EntryList,
         \A u \in Thread : u # other'[t] => notified'[u] = notified[u],
         TState' = IF pc'[t] = "allState" \/ set.MoveNotifyee = 4 THEN TState
                   ELSE [TState EXCEPT ![other'[t]] = "TS_ENTER"]
  PROVE  ListResult(t)
<1>. USE ListFacts
<1>. DEFINE w == Head(WaitSet)
<1>1. Holds(t) /\ LockInv /\ pc[t] \notin Moving /\ pc'[t] \in Moving /\ TState[t] = "TS_RUN"
  BY DEF Holds, Holding, Inv, Moving, NodeInv, Notifying
<1>2. /\ WaitSet # <<>> /\ other'[t] = w /\ WaitSet' = Tail(WaitSet) /\ WaitSetLock'
  BY DEF DequeueWaiter, LocalType
<1>3. /\ w \in Thread /\ w \in Range(WaitSet) /\ WaitSet' \in Seq(Thread)
      /\ IsInjective(WaitSet') /\ Range(WaitSet') = Range(WaitSet) \ {w}
  BY <1>2, PopFacts
<1>. HIDE DEF w
<1>4. TState[w] = "TS_WAIT" /\ OnList(w) /\ w # t
  BY <1>1, <1>3 DEF OnList
<1>5. /\ \A u \in Thread : ~InTransit(u) /\ (InTransit(u)' <=> u = w)
      /\ \A u \in Thread \ {t} : pc'[u] \notin Locked
  BY <1>1, <1>2, Hands, HandsAfter
<1>6. /\ \A u \in Thread : u # w => TState'[u] = TState[u]
      /\ TState'[w] = IF pc'[t] = "allState" \/ set.MoveNotifyee = 4 THEN "TS_WAIT" ELSE "TS_ENTER"
  <2>1. CASE pc'[t] = "allState" \/ set.MoveNotifyee = 4
    BY <1>4, <2>1
  <2>2. CASE ~(pc'[t] = "allState" \/ set.MoveNotifyee = 4)
    BY <1>2, <1>3, <2>2 DEF LocalType
  <2>. QED  BY <2>1, <2>2
<1>7. ASSUME NEW u \in Thread PROVE OnList(u)'
  <2>1. OnList(u) /\ (pc'[u] \in Pushing <=> pc[u] \in Pushing)
    BY DEF Others, Pushing
  <2>2. CASE u = w
    <3>1. TState'[w] \in {"TS_WAIT", "TS_ENTER"}
      BY <1>6
    <3>2. w \notin Range(cxq) /\ w \notin Range(EntryList)
      BY <1>4 DEF OnList
    <3>. QED  BY <1>3, <1>5, <2>2, <3>1, <3>2 DEF OnList
  <2>3. CASE u # w  BY <1>2, <1>3, <1>5, <1>6, <2>1, <2>3 DEF OnList
  <2>. QED  BY <2>2, <2>3
<1>8. ASSUME NEW u \in Thread PROVE HandInv(u)'
  <2>1. CASE u = t
    <3>1. set' = set
      BY DEF Others
    <3>. QED  BY <1>2, <1>3, <1>6, <2>1, <3>1 DEF HandInv
  <2>2. CASE u # t  BY <1>5, <2>2 DEF HandInv, Locked
  <2>. QED  BY <2>1, <2>2
<1>9. ASSUME NEW u \in Thread \ {t} PROVE NodeInv(u)' /\ (Listed(u) => Listed(u)')
  <2>1. TState'[u] = TState[u] \/ TState[u] = "TS_WAIT"
    BY <1>4, <1>6
  <2>2. NodeInv(u)'
    BY <2>1, NodeKept DEF Others
  <2>. QED  BY <2>1, <2>2 DEF Listed
<1>10. TState'[t] = TState[t]
  BY <1>4, <1>6
<1>. QED  BY <1>1, <1>3, <1>7, <1>8, <1>9, <1>10 DEF ListResult, ListInv

\* The WaitSet was empty, the notifier gives the _WaitSetLock back.
LEMMA DoneLists ==
  ASSUME Inv, NEW t \in Thread, Others(t), pc[t] \in {"notify", "notifyAll", "allNext"},
         NotifyDone(t), UNCHANGED <<cxq, EntryList, TState, WaitSet, notified>>
  PROVE  ListResult(t)
<1>. USE ListFacts
<1>1. Holds(t) /\ LockInv /\ pc[t] \notin Moving /\ pc'[t] = "in"
  BY DEF Holds, Holding, Inv, Moving, NotifyDone, Goto, PcType
<1>2. \A u \in Thread : ~InTransit(u) /\ ~InTransit(u)' /\ (u # t => pc'[u] \notin Locked)
  BY <1>1, Hands, HandsAfter DEF Moving
<1>3. ASSUME NEW u \in Thread PROVE OnList(u)'
  <2>1. OnList(u) /\ (pc'[u] \in Pushing <=> pc[u] \in Pushing)
    BY <1>1 DEF Others, Pushing
  <2>. QED  BY <1>2, <2>1 DEF OnList
<1>4. ASSUME NEW u \in Thread PROVE HandInv(u)'
  BY <1>1, <1>2 DEF HandInv, Locked, Moving
<1>5. \A u \in Thread \ {t} : NodeInv(u)'
  BY NodeKept DEF Others
<1>. QED  BY <1>1, <1>3, <1>4, <1>5 DEF ListResult, ListInv, Listed

LEMMA NotifyTakeLists ==
  ASSUME Inv, NEW t \in Thread, Others(t), NotifyTake(t)
  PROVE  ListResult(t)
<1>1. /\ pc[t] = "notify" /\ UNCHANGED <<cxq, EntryList, notified>>
      /\ pc \in [Thread -> Label] /\ other \in [Thread -> Thread \cup {NULL}]
  BY ListFacts DEF NotifyTake, At, PcType, LocalType
<1>2. CASE NotifyDone(t) /\ UNCHANGED <<WaitSet, TState>>
  BY <1>1, <1>2, DoneLists
<1>3. CASE /\ DequeueWaiter(t)
           /\ TState' = IF set.MoveNotifyee = 4 THEN TState
                        ELSE [TState EXCEPT ![Head(WaitSet)] = "TS_ENTER"]
           /\ Goto(t, "notifyFlag")
  <2>1. pc'[t] = "notifyFlag" /\ other'[t] = Head(WaitSet)
    BY <1>1, <1>3 DEF Goto, DequeueWaiter
  <2>2. TState' = IF pc'[t] = "allState" \/ set.MoveNotifyee = 4 THEN TState
                  ELSE [TState EXCEPT ![other'[t]] = "TS_ENTER"]
    BY <1>3, <2>1
  <2>. QED  BY <1>1, <1>3, <2>1, <2>2, TakeLists
<1>. QED  BY <1>2, <1>3 DEF NotifyTake

LEMMA NotifyAllTakeLists ==
  ASSUME Inv, NEW t \in Thread, Others(t), NotifyAllTake(t)
  PROVE  ListResult(t)
<1>1. /\ pc[t] \in {"notifyAll", "allNext"} /\ UNCHANGED <<cxq, EntryList, TState>>
      /\ pc \in [Thread -> Label] /\ other \in [Thread -> Thread \cup {NULL}]
      /\ notified \in [Thread -> BOOLEAN]
  BY ListFacts DEF NotifyAllTake, At, PcType, LocalType, queueVars
<1>2. CASE NotifyDone(t) /\ UNCHANGED <<WaitSet, notified>>
  BY <1>1, <1>2, DoneLists
<1>3. CASE /\ DequeueWaiter(t) /\ notified' = [notified EXCEPT ![Head(WaitSet)] = TRUE]
           /\ Goto(t, "allState")
  <2>1. pc'[t] = "allState" /\ other'[t] = Head(WaitSet)
    BY <1>1, <1>3 DEF Goto, DequeueWaiter
  <2>2. TState' = IF pc'[t] = "allState" \/ set.MoveNotifyee = 4 THEN TState
                  ELSE [TState EXCEPT ![other'[t]] = "TS_ENTER"]
    BY <1>1, <2>1
  <2>3. \A u \in Thread : u # other'[t] => notified'[u] = notified[u]
    BY <1>1, <1>3, <2>1
  <2>. QED  BY <1>1, <1>3, <2>1, <2>2, <2>3, TakeLists
<1>. QED  BY <1>2, <1>3 DEF NotifyAllTake

LEMMA SetTStateLists ==
  ASSUME Inv, NEW t \in Thread, Others(t), SetTState(t)
  PROVE  ListResult(t)
<1>. USE ListFacts
<1>. DEFINE w == other[t]
<1>1. /\ pc[t] = "allState" /\ pc'[t] = "allPlace" /\ other'[t] = w /\ set' = set
      /\ UNCHANGED <<cxq, EntryList, WaitSet, WaitSetLock, notified>>
      /\ TState' = IF set.MoveNotifyee = 4 THEN TState
                   ELSE [TState EXCEPT ![w] = "TS_ENTER"]
  BY DEF SetTState, Step, At, Goto, PcType, waitVars, locals, Others
<1>2. Holds(t) /\ LockInv /\ pc[t] \in Moving /\ pc'[t] \in Moving /\ TState[t] = "TS_RUN"
  BY <1>1 DEF Holds, Holding, Inv, Moving, NodeInv, Notifying
<1>3. w \in Thread /\ TState[w] = "TS_WAIT" /\ WaitSetLock /\ w # t
  BY <1>1, <1>2 DEF HandInv, Locked, Moving
<1>4. /\ \A u \in Thread : (InTransit(u) <=> u = w) /\ (InTransit(u)' <=> u = w)
      /\ \A u \in Thread \ {t} : pc'[u] \notin Locked
  BY <1>1, <1>2, Hands, HandsAfter
<1>. HIDE DEF w
<1>5. /\ \A u \in Thread : u # w => TState'[u] = TState[u]
      /\ TState'[w] = IF set.MoveNotifyee = 4 THEN "TS_WAIT" ELSE "TS_ENTER"
  <2>1. CASE set.MoveNotifyee = 4  BY <1>1, <1>3, <2>1
  <2>2. CASE set.MoveNotifyee # 4  BY <1>1, <1>3, <2>2 DEF LocalType
  <2>. QED  BY <2>1, <2>2
<1>6. ASSUME NEW u \in Thread PROVE OnList(u)'
  <2>1. OnList(u) /\ (pc'[u] \in Pushing <=> pc[u] \in Pushing)
    BY <1>1 DEF Others, Pushing
  <2>2. CASE u = w
    <3>1. TState'[w] \in {"TS_WAIT", "TS_ENTER"}
      BY <1>5
    <3>. QED  BY <1>1, <1>3, <1>4, <2>1, <2>2, <3>1 DEF OnList
  <2>3. CASE u # w  BY <1>1, <1>4, <1>5, <2>1, <2>3 DEF OnList
  <2>. QED  BY <2>2, <2>3
<1>7. ASSUME NEW u \in Thread PROVE HandInv(u)'
  <2>1. CASE u = t  BY <1>1, <1>3, <1>5, <2>1 DEF HandInv
  <2>2. CASE u # t  BY <1>4, <2>2 DEF HandInv, Locked
  <2>. QED  BY <2>1, <2>2
<1>8. ASSUME NEW u \in Thread \ {t} PROVE NodeInv(u)' /\ (Listed(u) => Listed(u)')
  <2>1. TState'[u] = TState[u] \/ TState[u] = "TS_WAIT"
    BY <1>3, <1>5
  <2>2. NodeInv(u)'
    BY <2>1, NodeKept DEF Others
  <2>. QED  BY <2>1, <2>2 DEF Listed
<1>9. TState'[t] = TState[t]
  BY <1>3, <1>5
<1>. QED  BY <1>1, <1>2, <1>6, <1>7, <1>8, <1>9 DEF ListResult, ListInv

\* Knob_MoveNotifyee: a waiter that is on no list is put on one, or woken.
LEMMA PlaceFacts ==
  ASSUME Inv, NEW w \in Thread, NEW direct \in BOOLEAN, Place(w, direct),
         w \notin Range(cxq), w \notin Range(EntryList)
  PROVE  /\ cxq' \in Seq(Thread) /\ EntryList' \in Seq(Thread)
         /\ IsInjective(cxq') /\ IsInjective(EntryList')
         /\ \A u \in Thread : u # w => TState'[u] = TState[u]
         /\ \/ /\ TState'[w] = "TS_ENTER" /\ Range(EntryList') = {w} \cup Range(EntryList)
               /\ Range(cxq') = Range(cxq)
            \/ /\ TState'[w] = "TS_CXQ" /\ Range(cxq') = {w} \cup Range(cxq)
               /\ Range(EntryList') = Range(EntryList)
            \/ /\ TState'[w] = "TS_RUN" /\ cxq' = cxq /\ EntryList' = EntryList
               /\ set.MoveNotifyee = 4
<1>. DEFINE ToEntryList == EntryList' \in {<<w>> \o EntryList, EntryList \o <<w>>}
            ToCxq == cxq' \in {<<w>> \o cxq, cxq \o <<w>>}
<1>0. /\ cxq \in Seq(Thread) /\ EntryList \in Seq(Thread) /\ IsInjective(cxq)
      /\ IsInjective(EntryList)
      /\ TState \in [Thread -> {"TS_RUN", "TS_WAIT", "TS_ENTER", "TS_CXQ"}]
  BY ListFacts DEF LocalType
<1>1. EntryList = <<>> => <<w>> = <<w>> \o EntryList
  BY SMT, <1>0
<1>2. set.MoveNotifyee \in 0..4
  <2>1. set \in Setting
    BY ConstantsAssumption DEF Inv, TypeOK
  <2>. QED  BY SMT, <2>1 DEF Setting
<1>3. \/ set.MoveNotifyee = 0 \/ set.MoveNotifyee = 1 \/ set.MoveNotifyee = 2
      \/ set.MoveNotifyee = 3 \/ set.MoveNotifyee = 4
  BY SMT, <1>2
<1>4. \/ ToEntryList /\ cxq' = cxq /\ TState' = [TState EXCEPT ![w] = "TS_ENTER"]
      \/ ToCxq /\ EntryList' = EntryList /\ TState' = [TState EXCEPT ![w] = "TS_CXQ"]
      \/ /\ cxq' = cxq /\ EntryList' = EntryList /\ TState' = [TState EXCEPT ![w] = "TS_RUN"]
         /\ set.MoveNotifyee = 4
  <2>1. CASE set.MoveNotifyee = 0 \/ set.MoveNotifyee = 1
    BY SMT, <2>1 DEF Place, Queued
  <2>2. CASE set.MoveNotifyee = 2
    <3>1. \/ EntryList = <<>> /\ Queued(w, <<w>>, cxq, "TS_ENTER")
          \/ Queued(w, EntryList, <<w>> \o cxq, "TS_CXQ")
      BY SMT, <2>2 DEF Place
    <3>. QED  BY <1>1, <3>1 DEF Queued
  <2>3. CASE set.MoveNotifyee = 3
    BY SMT, <2>3 DEF Place, Queued
  <2>4. CASE set.MoveNotifyee = 4
    BY SMT, <2>4 DEF Place, Queued
  <2>. QED  BY <1>3, <2>1, <2>2, <2>3, <2>4
<1>. HIDE DEF ToEntryList, ToCxq
<1>5. ToEntryList => /\ EntryList' \in Seq(Thread) /\ IsInjective(EntryList')
                     /\ Range(EntryList') = {w} \cup Range(EntryList)
  <2>1. /\ <<w>> \o EntryList \in Seq(Thread) /\ Range(<<w>> \o EntryList) = {w} \cup Range(EntryList)
        /\ IsInjective(<<w>> \o EntryList)
        /\ EntryList \o <<w>> \in Seq(Thread) /\ Range(EntryList \o <<w>>) = {w} \cup Range(EntryList)
        /\ IsInjective(EntryList \o <<w>>)
    BY <1>0, PushFacts
  <2>. QED  BY <2>1 DEF ToEntryList
<1>6. ToCxq => /\ cxq' \in Seq(Thread) /\ IsInjective(cxq') /\ Range(cxq') = {w} \cup Range(cxq)
  <2>1. /\ <<w>> \o cxq \in Seq(Thread) /\ Range(<<w>> \o cxq) = {w} \cup Range(cxq)
        /\ IsInjective(<<w>> \o cxq)
        /\ cxq \o <<w>> \in Seq(Thread) /\ Range(cxq \o <<w>>) = {w} \cup Range(cxq)
        /\ IsInjective(cxq \o <<w>>)
    BY <1>0, PushFacts
  <2>. QED  BY <2>1 DEF ToCxq
<1>7. CASE ToEntryList /\ cxq' = cxq /\ TState' = [TState EXCEPT ![w] = "TS_ENTER"]
  BY <1>0, <1>7, <1>5
<1>8. CASE ToCxq /\ EntryList' = EntryList /\ TState' = [TState EXCEPT ![w] = "TS_CXQ"]
  BY <1>0, <1>8, <1>6
<1>9. CASE /\ cxq' = cxq /\ EntryList' = EntryList /\ TState' = [TState EXCEPT ![w] = "TS_RUN"]
           /\ set.MoveNotifyee = 4
  BY <1>0, <1>9
<1>. QED  BY <1>4, <1>7, <1>8, <1>9

LEMMA PlaceLists ==
  ASSUME Inv, NEW t \in Thread, Others(t), NEW direct \in BOOLEAN, Place(other[t], direct),
         pc[t] \in {"notifyPlace", "allPlace"}, pc'[t] \notin Moving \cup Pushing,
         pc'[t] \in Locked => WaitSetLock', WaitSet' = WaitSet, notified' = notified
  PROVE  ListResult(t)
<1>. USE ListFacts
<1>. DEFINE w == other[t]
<1>1. Holds(t) /\ LockInv /\ pc[t] \in Moving /\ TState[t] = "TS_RUN" /\ pc[t] # "allState"
  BY DEF Holds, Holding, Inv, Moving, NodeInv, Notifying
<1>2. /\ w \in Thread
      /\ TState[w] = IF set.MoveNotifyee = 4 THEN "TS_WAIT" ELSE "TS_ENTER"
  BY <1>1 DEF HandInv
<1>3. /\ \A u \in Thread : (InTransit(u) <=> u = w) /\ ~InTransit(u)'
      /\ \A u \in Thread \ {t} : pc'[u] \notin Locked
  BY <1>1, Hands, HandsAfter
<1>4. /\ TState[w] \in {"TS_WAIT", "TS_ENTER"} /\ OnList(w) /\ w # t
      /\ w \notin Range(cxq) /\ w \notin Range(EntryList) /\ w \notin Range(WaitSet)
  <2>1. TState[w] \in {"TS_WAIT", "TS_ENTER"}
    BY <1>2
  <2>. QED  BY <1>1, <1>2, <1>3, <2>1 DEF OnList
<1>5. Place(w, direct)
  OBVIOUS
<1>. HIDE DEF w
<1>6. /\ cxq' \in Seq(Thread) /\ EntryList' \in Seq(Thread)
      /\ IsInjective(cxq') /\ IsInjective(EntryList')
      /\ \A u \in Thread : u # w => TState'[u] = TState[u]
      /\ \/ /\ TState'[w] = "TS_ENTER" /\ Range(EntryList') = {w} \cup Range(EntryList)
            /\ Range(cxq') = Range(cxq)
         \/ /\ TState'[w] = "TS_CXQ" /\ Range(cxq') = {w} \cup Range(cxq)
            /\ Range(EntryList') = Range(EntryList)
         \/ /\ TState'[w] = "TS_RUN" /\ cxq' = cxq /\ EntryList' = EntryList
            /\ set.MoveNotifyee = 4
  BY <1>2, <1>4, <1>5, PlaceFacts
<1>7. pc[w] \notin Pushing
  BY <1>2, <1>4 DEF NodeInv
<1>8. ASSUME NEW u \in Thread PROVE OnList(u)'
  <2>1. OnList(u) /\ (pc'[u] \in Pushing <=> pc[u] \in Pushing)
    BY DEF Others, Pushing
  <2>2. CASE u = w  BY <1>3, <1>4, <1>6, <1>7, <2>1, <2>2 DEF OnList
  <2>3. CASE u # w  BY <1>3, <1>6, <2>1, <2>3 DEF OnList
  <2>. QED  BY <2>2, <2>3
<1>9. ASSUME NEW u \in Thread PROVE HandInv(u)'
  BY <1>3 DEF HandInv, Locked
<1>10. ASSUME NEW u \in Thread \ {t} PROVE NodeInv(u)' /\ (Listed(u) => Listed(u)')
  <2>1. CASE u # w
    <3>1. TState'[u] = TState[u]
      BY <1>6, <2>1
    <3>2. NodeInv(u)'
      BY <3>1, NodeKept DEF Others
    <3>. QED  BY <3>1, <3>2 DEF Listed
  <2>2. CASE u = w
    <3>1. TState[u] = "TS_WAIT" \/ (Listed(u) /\ Listed(u)')
      BY <1>2, <1>6, <2>2 DEF Listed
    <3>2. NodeInv(u)'
      BY <1>7, <2>2, <3>1, NodeKept DEF Others
    <3>. QED  BY <3>1, <3>2 DEF Listed
  <2>. QED  BY <2>1, <2>2
<1>11. TState'[t] = TState[t]
  BY <1>4, <1>6
<1>. QED  BY <1>1, <1>6, <1>8, <1>9, <1>10, <1>11 DEF ListResult, ListInv

\* Every step leaves the lists as they should be.
LEMMA ListStepResult ==
  ASSUME Inv, NEW t \in Thread, Others(t), Quiet(t) \/ ListStep(t)
  PROVE  ListResult(t)
<1>1. CASE NotifyPlace(t)
  <2>1. Place(other[t], TRUE) /\ TRUE \in BOOLEAN
    BY <1>1 DEF NotifyPlace
  <2>2. /\ pc[t] = "notifyPlace" /\ pc'[t] = "in" /\ WaitSet' = WaitSet
        /\ notified' = notified
    BY <1>1, ListFacts DEF NotifyPlace, NotifyDone, At, Goto, PcType
  <2>3. pc'[t] \notin Moving \cup Pushing /\ pc'[t] \notin Locked
    BY <2>2 DEF Moving, Pushing, Locked
  <2>. QED  BY <2>1, <2>2, <2>3, PlaceLists
<1>2. CASE NotifyAllPlace(t)
  <2>1. Place(other[t], FALSE) /\ FALSE \in BOOLEAN
    BY <1>2 DEF NotifyAllPlace
  <2>2. /\ pc[t] = "allPlace" /\ pc'[t] = "allNext" /\ WaitSet' = WaitSet
        /\ notified' = notified /\ WaitSetLock' = WaitSetLock
    BY <1>2, ListFacts DEF NotifyAllPlace, Step, At, Goto, PcType, waitVars
  <2>3. pc'[t] \notin Moving \cup Pushing
    BY <2>2 DEF Moving, Pushing
  <2>4. WaitSetLock'
    BY <2>2, ListFacts DEF HandInv, Locked, Moving
  <2>. QED  BY <2>1, <2>2, <2>3, <2>4, PlaceLists
<1>. QED  BY <1>1, <1>2, QuietLists, ResetLists, PushLists, PushRetryLists, UnlinkLists,
             SelectLists, AddWaiterLists, WaitUnlinkLists, NotifyTakeLists,
             NotifyAllTakeLists, SetTStateLists DEF ListStep

\* A thread about to wake a successor has one.
LEMMA WakeFacts ==
  ASSUME Inv, NEW t \in Thread, Select(t) \/ Abdicate(t)
  PROVE  /\ pc'[t] = "epilog" => other'[t] \in Range(cxq') \cup Range(EntryList')
         /\ pc'[t] = "abdicate" => EntryList' # <<>>
<1>1. /\ cxq \in Seq(Thread) /\ EntryList \in Seq(Thread)
      /\ pc \in [Thread -> Label] /\ other \in [Thread -> Thread \cup {NULL}]
  BY ListFacts DEF PcType, LocalType
<1>2. CASE Abdicate(t)
  <2>1. pc[t] = "abdicate" /\ UNCHANGED <<cxq, EntryList>> /\ pc'[t] # "abdicate"
        /\ (pc'[t] = "epilog" => other'[t] = Head(EntryList))
    BY <1>1, <1>2 DEF Abdicate, At, Goto, Wake, queueVars
  <2>2. EntryList # <<>>
    BY <2>1 DEF Inv, HeirInv
  <2>3. Head(EntryList) \in Range(EntryList)
    BY <1>1, <2>2, PopFacts
  <2>. QED  BY <2>1, <2>3
<1>3. CASE Select(t)
  <2>1. ASSUME Drain, EntryList = <<>> \/ set.QMode \in {3, 4}, cxq # <<>>
        PROVE  EntryList' # <<>> /\ Head(Drained) \in Range(EntryList')
    <3>1. EntryList' = Drained /\ Drained \in Seq(Thread) /\ Drained # <<>>
      BY <2>1, Heads DEF Drain, Inv
    <3>. QED  BY <3>1, PopFacts
  <2>. QED  BY <1>3, <2>1, SelectFacts
<1>. QED  BY <1>2, <1>3

LEMMA HeirInvStep ==
  ASSUME Inv, NEW t \in Thread, Others(t), LockEffect(t), HeirEffect(t),
         Quiet(t) \/ ListStep(t), ListResult(t), PcType'
  PROVE  \A u \in Thread : HeirInv(u)'
<1>1. /\ \A u \in Thread : HeirInv(u) /\ OnList(u) /\ NodeInv(u)
      /\ NULL \notin Thread /\ LockInv
  BY ListFacts, ConstantsAssumption DEF Inv
<1>2. ASSUME NEW u \in Thread, succ' = u PROVE MayBeHeir(u)'
  <2>1. CASE succ' = NULL  BY <1>1, <1>2, <2>1
  <2>2. CASE succ' = t /\ pc'[t] = "spinning"
    BY <1>2, <2>2 DEF MayBeHeir
  <2>3. CASE succ' = other[t] /\ pc[t] = "epilog" /\ pc'[t] = "epilogDrop" /\ TState' = TState
    <3>1. u \in Range(cxq) \cup Range(EntryList)
      BY <1>1, <1>2, <2>3 DEF HeirInv
    <3>2. Listed(u) /\ pc[u] \notin Pushing
      BY <1>1, <3>1 DEF OnList, NodeInv, Listed
    <3>3. pc'[u] \notin Pushing
      BY <2>3, <3>2 DEF Others, Pushing
    <3>. QED  BY <2>3, <3>2, <3>3 DEF MayBeHeir, Listed
  <2>4. CASE succ' = succ /\ (succ = t /\ MayBeHeir(t) => MayBeHeir(t)')
    <3>1. MayBeHeir(u)
      BY <1>1, <1>2, <2>4 DEF HeirInv
    <3>2. CASE u = t  BY <1>2, <2>4, <3>1, <3>2
    <3>3. CASE u # t
      <4>1. pc'[u] = pc[u] /\ (Listed(u) => Listed(u)')
        BY <3>3 DEF Others, ListResult
      <4>. QED  BY <3>1, <4>1 DEF MayBeHeir
    <3>. QED  BY <3>2, <3>3
  <2>. QED  BY <2>1, <2>2, <2>3, <2>4 DEF HeirEffect
<1>3. ASSUME NEW u \in Thread, Responsible' = u PROVE Queues(u)'
  <2>1. CASE Responsible' = t /\ Queues(t)'  BY <1>3, <2>1
  <2>2. CASE /\ ~(Responsible' = t /\ Queues(t)')
             /\ (Responsible' = Resigned(t) \/ (Responsible' = Responsible /\ (Queues(t) => Queues(t)')))
    <3>1. Responsible = u /\ (u = t => Queues(t)')
      BY <1>1, <1>3, <2>2 DEF Resigned, HeirInv
    <3>2. Queues(u)
      BY <1>1, <3>1 DEF HeirInv
    <3>3. u # t => Queues(u)'
      BY <3>2 DEF Queues, Others
    <3>. QED  BY <3>1, <3>3
  <2>. QED  BY <1>1, <1>3, <2>1, <2>2 DEF HeirEffect
<1>4. ASSUME NEW u \in Thread
      PROVE  /\ pc'[u] = "epilog" => other'[u] \in Range(cxq') \cup Range(EntryList')
             /\ pc'[u] = "abdicate" => EntryList' # <<>>
  <2>1. CASE u # t
    <3>1. pc'[u] = pc[u] /\ other'[u] = other[u]
      BY <2>1 DEF Others
    <3>2. pc[u] \in {"epilog", "abdicate"} => ~Holds(t)
      BY <1>1, <2>1, OneHolder DEF Holds, Holding
    <3>3. ~Holds(t) => EntryList' = EntryList /\ Range(cxq) \subseteq Range(cxq')
      BY DEF ListResult
    <3>. QED  BY <1>1, <3>1, <3>2, <3>3 DEF HeirInv
  <2>2. CASE u = t /\ (Select(t) \/ Abdicate(t))
    BY <2>2, WakeFacts
  <2>3. CASE u = t /\ pc'[t] \in {"epilog", "abdicate"} /\ pc'[t] = pc[t] /\ other'[t] = other[t]
    <3>1. ~ListStep(t) \/ Select(t)
      BY <2>3 DEF ListStep, Reset, Push, PushRetry, Unlink, AddWaiter, WaitUnlink, NotifyTake,
                  NotifyPlace, NotifyAllTake, SetTState, NotifyAllPlace, Step, At
    <3>2. CASE Quiet(t)
      BY <1>1, <2>3, <3>2 DEF Quiet, HeirInv
    <3>. QED  BY <2>2, <2>3, <3>1, <3>2
  <2>. QED  BY <2>1, <2>2, <2>3 DEF HeirEffect
<1>. QED  BY <1>2, <1>3, <1>4 DEF HeirInv

----------------------------------------------------------------------------
(* ObjectMonitor implements JavaMonitor.                                   *)

HolderOf(p) ==
  IF \E t \in Thread : p[t] \in Visible THEN CHOOSE t \in Thread : p[t] \in Visible ELSE NULL

LEMMA HolderFacts ==
  ASSUME NEW p
  PROVE  /\ \A t \in Thread : /\ p[t] \in Visible
                              /\ \A u \in Thread : p[u] \in Visible => u = t
                              => HolderOf(p) = t
         /\ (\A u \in Thread : p[u] \notin Visible) => HolderOf(p) = NULL
  BY DEF HolderOf

DepthAt(t) == IF HasIt(t) THEN recursions + 1 ELSE Away(t)

\* The state of JavaMonitor, without CHOOSE and CASE, before and after a step of t.
LEMMA ViewFacts ==
  ASSUME Inv, Inv', NEW t \in Thread, Others(t), NestEffect(t)
  PROVE  /\ Holder = HolderOf(pc) /\ Holder' = HolderOf(pc')
         /\ Depth = [u \in Thread |-> DepthAt(u)]
         /\ Depth' = [u \in Thread |-> IF u = t THEN DepthAt(t)' ELSE DepthAt(u)]
         /\ Waiting = Range(WaitSet) /\ Waiting' = Range(WaitSet')
         /\ \A u \in Thread : HasIt(u) => Holds(u)
         /\ \A u \in Thread : HasIt(u)' => Holds(u)'
<1>1. Holder = HolderOf(pc) /\ Holder' = HolderOf(pc')
  BY DEF Holder, HolderOf, HasIt
<1>2. /\ \A u \in Thread : HasIt(u) => Holds(u)
      /\ \A u \in Thread : HasIt(u)' => Holds(u)'
  BY DEF HasIt, Visible, Holds, Holding
<1>3. \A u \in Thread : DepthAt(u) = CASE HasIt(u) -> recursions + 1
       [] ~HasIt(u) /\ op[u] \in {"waiting", "timed_waiting", "reentering"} -> save[u] + 1
       [] OTHER -> 0
  BY DEF DepthAt, Away
<1>4. Depth = [u \in Thread |-> DepthAt(u)]
  BY <1>3 DEF Depth
<1>5. \A u \in Thread : DepthAt(u)' = CASE HasIt(u)' -> recursions' + 1
       [] ~HasIt(u)' /\ op'[u] \in {"waiting", "timed_waiting", "reentering"} -> save'[u] + 1
       [] OTHER -> 0
  BY DEF DepthAt, Away
<1>6. Depth' = [u \in Thread |-> DepthAt(u)']
  BY <1>5 DEF Depth
<1>7. ASSUME NEW u \in Thread, u # t PROVE DepthAt(u)' = DepthAt(u)
  <2>1. /\ pc'[u] = pc[u] /\ op'[u] = op[u] /\ save'[u] = save[u]
    BY <1>7 DEF Others
  <2>2. HasIt(u) => recursions' = recursions
    <3>1. HasIt(u) => ~Holds(t)
      BY <1>2, <1>7, OneHolder DEF Inv
    <3>. QED  BY <3>1 DEF NestEffect
  <2>. QED  BY <2>1, <2>2 DEF DepthAt, Away, HasIt
<1>8. Depth' = [u \in Thread |-> IF u = t THEN DepthAt(t)' ELSE DepthAt(u)]
  BY <1>6, <1>7
<1>9. Waiting = Range(WaitSet)
  <2>1. ASSUME NEW u \in Range(WaitSet), HasIt(u) PROVE FALSE
    <3>1. u \in Thread
      <4>1. WaitSet \in Seq(Thread)
        BY DEF Inv, TypeOK
      <4>. QED  BY SMT, <4>1 DEF Range
    <3>2. TState[u] = "TS_WAIT" /\ NodeInv(u)
      BY <3>1 DEF Inv, ListInv, OnList, LocalInv
    <3>. QED  BY <2>1, <3>2 DEF NodeInv, HasIt, Visible, Notifying
  <2>. QED  BY <2>1 DEF Waiting
<1>10. Waiting' = Range(WaitSet')
  <2>1. ASSUME NEW u \in Range(WaitSet'), HasIt(u)' PROVE FALSE
    <3>1. u \in Thread
      <4>1. WaitSet' \in Seq(Thread)
        BY DEF Inv, TypeOK
      <4>. QED  BY SMT, <4>1 DEF Range
    <3>2. TState'[u] = "TS_WAIT" /\ NodeInv(u)'
      BY <3>1 DEF Inv, ListInv, OnList, LocalInv
    <3>. QED  BY <2>1, <3>2 DEF NodeInv, HasIt, Visible, Notifying
  <2>. QED  BY <2>1 DEF Waiting
<1>. QED  BY <1>1, <1>2, <1>4, <1>8, <1>9, <1>10

\* Who holds the monitor before and after a step.
LEMMA HolderStep ==
  ASSUME Inv, Inv', NEW t \in Thread, Others(t), LockEffect(t), NestEffect(t)
  PROVE  /\ HasIt(t) => Holder = t
         /\ HasIt(t)' => Holder' = t
         /\ ~HasIt(t) /\ HasIt(t)' => Holder = NULL /\ recursions = 0
         /\ HasIt(t) /\ ~HasIt(t)' => Holder' = NULL
         /\ (HasIt(t)' <=> HasIt(t)) => Holder' = Holder
<1>1. /\ Holder = HolderOf(pc) /\ Holder' = HolderOf(pc')
      /\ \A u \in Thread : (HasIt(u) => Holds(u)) /\ (HasIt(u)' => Holds(u)')
  BY ViewFacts
<1>2. /\ \A u \in Thread : HasIt(u) <=> pc[u] \in Visible
      /\ \A u \in Thread : HasIt(u)' <=> pc'[u] \in Visible
      /\ \A u \in Thread \ {t} : HasIt(u)' <=> HasIt(u)
  BY DEF HasIt, Others
<1>3. \A u, v \in Thread : HasIt(u) /\ HasIt(v) => u = v
  BY <1>1, OneHolder DEF Inv
<1>4. \A u, v \in Thread : HasIt(u)' /\ HasIt(v)' => u = v
  <2>1. ASSUME NEW u \in Thread, NEW v \in Thread, HasIt(u)', HasIt(v)' PROVE u = v
    <3>1. owner' \in {u, BasicLock(u)} /\ owner' \in {v, BasicLock(v)}
      BY <1>1, <2>1 DEF Inv, LockInv, MutualExclusion, BasicLock
    <3>. QED  BY <3>1, BasicLockFacts
  <2>. QED  BY <2>1
<1>5. ASSUME NEW u \in Thread, HasIt(u) PROVE Holder = u
  BY <1>1, <1>2, <1>3, <1>5, HolderFacts
<1>6. ASSUME NEW u \in Thread, HasIt(u)' PROVE Holder' = u
  BY <1>1, <1>2, <1>4, <1>6, HolderFacts
<1>7. ASSUME ~HasIt(t), HasIt(t)' PROVE Holder = NULL /\ recursions = 0
  <2>1. Holds(t)'
    BY <1>1, <1>7
  <2>2. CASE Holds(t)
    <3>1. \A u \in Thread : ~HasIt(u)
      BY <1>1, <1>7, <2>2, OneHolder DEF Inv
    <3>2. pc[t] \notin Nesting
      BY <1>7 DEF HasIt, Visible, Nesting, Notifying
    <3>. QED  BY <1>1, <1>2, <2>2, <3>1, <3>2, OneHolder, HolderFacts DEF Inv
  <2>3. CASE owner = NULL
    <3>1. \A u \in Thread : ~Holds(u)
      BY <2>3, BasicLockFacts DEF Inv, LockInv, MutualExclusion
    <3>2. \A u \in Thread : pc[u] \notin Nesting
      BY <3>1 DEF Holds, Holding, Nesting, Notifying
    <3>3. Holder = NULL
      BY <1>1, <1>2, <3>1, HolderFacts
    <3>. QED  BY <3>2, <3>3 DEF Inv, LockInv
  <2>. QED  BY <2>1, <2>2, <2>3 DEF LockEffect
<1>8. ASSUME HasIt(t), ~HasIt(t)' PROVE Holder' = NULL
  <2>1. \A u \in Thread : ~HasIt(u)'
    BY <1>2, <1>3, <1>8
  <2>. QED  BY <1>1, <1>2, <2>1, HolderFacts
<1>9. ASSUME HasIt(t)' <=> HasIt(t) PROVE Holder' = Holder
  <2>1. \A u \in Thread : HasIt(u)' <=> HasIt(u)
    BY <1>2, <1>9
  <2>2. CASE \E u \in Thread : HasIt(u)
    <3>1. PICK u \in Thread : HasIt(u)
      BY <2>2
    <3>. QED  BY <1>5, <1>6, <2>1, <3>1
  <2>3. CASE \A u \in Thread : ~HasIt(u)
    <3>1. HolderOf(pc) = NULL /\ HolderOf(pc') = NULL
      BY <1>2, <2>1, <2>3, HolderFacts
    <3>. QED  BY <1>1, <3>1
  <2>. QED  BY <2>2, <2>3
<1>. QED  BY <1>5, <1>6, <1>7, <1>8, <1>9

\* Every step of a thread is one step of JavaMonitor or none.
LEMMA RefineStep ==
  ASSUME Inv, Inv', NEW t \in Thread, Others(t), LockEffect(t), NestEffect(t), ViewEffect(t)
  PROVE  Abs!Next \/ UNCHANGED <<Holder, Depth, Waiting>>
<1>1. /\ Depth = [u \in Thread |-> DepthAt(u)]
      /\ Depth' = [u \in Thread |-> IF u = t THEN DepthAt(t)' ELSE DepthAt(u)]
      /\ Waiting = Range(WaitSet) /\ Waiting' = Range(WaitSet')
  BY ViewFacts
<1>2. /\ HasIt(t) => Holder = t
      /\ HasIt(t)' => Holder' = t
      /\ ~HasIt(t) /\ HasIt(t)' => Holder = NULL /\ recursions = 0
      /\ HasIt(t) /\ ~HasIt(t)' => Holder' = NULL
      /\ (HasIt(t)' <=> HasIt(t)) => Holder' = Holder
  BY HolderStep
<1>3. Depth[t] = DepthAt(t) /\ Depth' = [Depth EXCEPT ![t] = DepthAt(t)']
  BY <1>1
<1>4. DepthAt(t)' = DepthAt(t) => Depth' = Depth
  BY <1>1
<1>5. recursions \in Nat /\ recursions' \in Nat
  BY DEF Inv, TypeOK
<1>6. /\ pc[t] = "in" => HasIt(t)
      /\ pc'[t] = "in" => HasIt(t)'
  BY DEF HasIt, Visible
<1>7. CASE /\ HasIt(t)' <=> HasIt(t)
           /\ HasIt(t) => recursions' = recursions
           /\ ~HasIt(t) => Away(t)' = Away(t)
           /\ Range(WaitSet') = Range(WaitSet)
  <2>1. DepthAt(t)' = DepthAt(t)
    BY <1>7 DEF DepthAt
  <2>. QED  BY <1>1, <1>2, <1>4, <1>7, <2>1
<1>8. CASE /\ ~HasIt(t) /\ pc'[t] = "in" /\ Away(t) = 0
           /\ recursions' = recursions /\ WaitSet' = WaitSet
  <2>1. HasIt(t)' /\ Holder = NULL /\ recursions = 0 /\ Holder' = t
    BY <1>2, <1>6, <1>8
  <2>2. DepthAt(t) = 0 /\ DepthAt(t)' = 0 + 1
    BY <1>8, <2>1 DEF DepthAt
  <2>3. DepthAt(t)' = 1
    BY SMT, <2>2
  <2>4. Abs!Enter(t)
    BY <1>1, <1>3, <1>8, <2>1, <2>2, <2>3 DEF Abs!Enter
  <2>. QED  BY <2>4 DEF Abs!Next
<1>9. CASE pc[t] = "in" /\ pc'[t] = "in" /\ WaitSet' = WaitSet /\ recursions' = recursions + 1
  <2>1. HasIt(t) /\ HasIt(t)' /\ Holder = t /\ Holder' = Holder
    BY <1>2, <1>6, <1>9
  <2>2. DepthAt(t)' = DepthAt(t) + 1
    BY <1>9, <2>1 DEF DepthAt
  <2>3. Abs!EnterAgain(t)
    BY <1>1, <1>3, <1>9, <2>1, <2>2 DEF Abs!EnterAgain
  <2>. QED  BY <2>3 DEF Abs!Next
<1>10. CASE /\ pc[t] = "in" /\ pc'[t] = "in" /\ WaitSet' = WaitSet
            /\ recursions' = recursions - 1 /\ recursions # 0
  <2>1. HasIt(t) /\ HasIt(t)' /\ Holder = t /\ Holder' = t
    BY <1>2, <1>6, <1>10
  <2>2. DepthAt(t) = recursions + 1 /\ DepthAt(t)' = (recursions - 1) + 1
    BY <1>10, <2>1 DEF DepthAt
  <2>3. DepthAt(t) # 1 /\ DepthAt(t)' = DepthAt(t) - 1
    BY SMT, <1>5, <1>10, <2>2
  <2>4. Abs!Exit(t)
    BY <1>1, <1>3, <1>10, <2>1, <2>3 DEF Abs!Exit
  <2>. QED  BY <2>4 DEF Abs!Next
<1>11. CASE HasIt(t) /\ ~HasIt(t)' /\ Away(t)' = 0 /\ recursions = 0 /\ WaitSet' = WaitSet
  <2>1. Holder = t /\ Holder' = NULL
    BY <1>2, <1>11
  <2>2. DepthAt(t) = 0 + 1 /\ DepthAt(t)' = 0
    BY <1>11 DEF DepthAt
  <2>3. DepthAt(t) = 1 /\ DepthAt(t)' = DepthAt(t) - 1
    BY SMT, <2>2
  <2>4. Abs!Exit(t)
    BY <1>1, <1>3, <1>11, <2>1, <2>3 DEF Abs!Exit
  <2>. QED  BY <2>4 DEF Abs!Next
<1>12. CASE HasIt(t) /\ ~HasIt(t)' /\ Away(t)' = recursions + 1 /\ WaitSet' = WaitSet
  <2>1. Holder = t /\ Holder' = NULL
    BY <1>2, <1>12
  <2>2. DepthAt(t)' = DepthAt(t)
    BY <1>12 DEF DepthAt
  <2>3. Abs!Release(t, FALSE)
    BY <1>1, <1>4, <1>12, <2>1, <2>2 DEF Abs!Release
  <2>. QED  BY <2>3 DEF Abs!Next
<1>13. CASE /\ pc[t] \in {"waitEnd", "reentered"} /\ pc'[t] = "in"
            /\ Away(t) = recursions' + 1 /\ WaitSet' = WaitSet
  <2>1. ~HasIt(t) /\ HasIt(t)' /\ Holder = NULL /\ Holder' = t
    BY <1>2, <1>6, <1>13 DEF HasIt, Visible
  <2>2. DepthAt(t) = recursions' + 1 /\ DepthAt(t)' = DepthAt(t)
    BY <1>13, <2>1 DEF DepthAt
  <2>3. DepthAt(t) > 0
    <3>1. \A n \in Nat : n + 1 > 0
      BY SMT
    <3>. QED  BY <1>5, <2>2, <3>1
  <2>4. t \notin Range(WaitSet)
    BY <1>13, ListFacts DEF OnList, NodeInv
  <2>5. Abs!Resume(t)
    BY <1>1, <1>3, <1>4, <1>13, <2>1, <2>2, <2>3, <2>4 DEF Abs!Resume
  <2>. QED  BY <2>5 DEF Abs!Next
<1>14. CASE AddWaiter(t)
  <2>1. /\ pc[t] = "waitAdd" /\ pc'[t] = "exit" /\ WaitSet' = Append(WaitSet, t)
        /\ save'[t] = recursions /\ op' = op
    BY <1>14, ListFacts DEF AddWaiter, Step, At, Goto, PcType, LocalType
  <2>2. HasIt(t) /\ ~HasIt(t)' /\ Holder = t /\ Holder' = NULL
    <3>1. HasIt(t) /\ ~HasIt(t)'
      BY <2>1 DEF HasIt, Visible
    <3>. QED  BY <1>2, <3>1
  <2>3. op[t] \in {"waiting", "timed_waiting", "reentering"}
    BY <2>1 DEF Inv, LocalInv, OpInv, WaitOps
  <2>4. DepthAt(t)' = DepthAt(t)
    BY <2>1, <2>2, <2>3 DEF DepthAt, Away
  <2>5. Range(WaitSet') = Range(WaitSet) \cup {t}
    <3>1. WaitSet \in Seq(Thread) /\ <<t>> \in Seq(Thread)
      BY SMT, ListFacts
    <3>2. WaitSet' = WaitSet \o <<t>>
      BY <2>1, <3>1, AppendFacts
    <3>3. Range(WaitSet \o <<t>>) = Range(WaitSet) \cup Range(<<t>>)
      BY <3>1, ConcatFacts
    <3>. QED  BY <3>2, <3>3, ShortLists
  <2>6. Abs!Release(t, TRUE)
    BY <1>1, <1>4, <2>2, <2>4, <2>5 DEF Abs!Release
  <2>. QED  BY <2>6 DEF Abs!Next
<1>15. CASE WaitUnlink(t)
  <2>1. /\ pc[t] = "waitUnlink" /\ pc'[t] = "waitSucc" /\ op' = op /\ save' = save
    BY <1>15, ListFacts DEF WaitUnlink, Step, At, Goto, PcType, locals
  <2>2. ~HasIt(t) /\ ~HasIt(t)'
    BY <2>1 DEF HasIt, Visible
  <2>3. Away(t)' = Away(t)
    BY <2>1 DEF Away
  <2>4. CASE TState[t] # "TS_WAIT"
    BY <1>7, <1>15, <2>2, <2>3, <2>4 DEF WaitUnlink, DequeueSpecificWaiter
  <2>5. CASE TState[t] = "TS_WAIT"
    <3>1. WaitSet' = Without(WaitSet, t) /\ ~WaitSetLock
      BY <1>15, <2>5 DEF WaitUnlink, DequeueSpecificWaiter
    <3>2. Range(WaitSet') = Range(WaitSet) \ {t}
      BY <3>1, ListFacts, WithoutFacts
    <3>3. \A u \in Thread : pc[u] \notin Moving
      BY <3>1, ListFacts DEF HandInv, Locked
    <3>4. t \in Range(WaitSet)
      BY <2>5, <3>3, ListFacts DEF OnList, InTransit, Moving
    <3>5. DepthAt(t)' = DepthAt(t)
      BY <2>2, <2>3 DEF DepthAt
    <3>6. Abs!EndWait(t)
      BY <1>1, <1>2, <1>4, <2>2, <3>2, <3>4, <3>5 DEF Abs!EndWait
    <3>. QED  BY <3>6 DEF Abs!Next
  <2>. QED  BY <2>4, <2>5
<1>16. CASE NotifyTake(t) \/ NotifyAllTake(t)
  <2>1. /\ HasIt(t) /\ recursions' = recursions
        /\ \/ WaitSet' = WaitSet /\ pc'[t] = "in"
           \/ /\ WaitSet # <<>> /\ WaitSet' = Tail(WaitSet)
              /\ pc'[t] \in {"notifyFlag", "allState"}
    BY <1>16, ListFacts DEF NotifyTake, NotifyAllTake, NotifyDone, DequeueWaiter, At, Goto, PcType,
                            lockVars, HasIt, Visible
  <2>2. HasIt(t)'
    BY <2>1 DEF HasIt, Visible
  <2>3. CASE WaitSet' = WaitSet
    BY <1>7, <2>1, <2>2, <2>3
  <2>4. CASE WaitSet # <<>> /\ WaitSet' = Tail(WaitSet)
    <3>. DEFINE w == Head(WaitSet)
    <3>1. w \in Thread /\ w \in Range(WaitSet) /\ Range(WaitSet') = Range(WaitSet) \ {w}
      BY <2>4, ListFacts, PopFacts
    <3>. HIDE DEF w
    <3>2. DepthAt(t)' = DepthAt(t)
      BY <2>1, <2>2 DEF DepthAt
    <3>3. Abs!EndWait(w)
      BY <1>1, <1>2, <1>4, <2>1, <2>2, <3>1, <3>2 DEF Abs!EndWait
    <3>. QED  BY <3>1, <3>3 DEF Abs!Next
  <2>. QED  BY <2>1, <2>3, <2>4
<1>. QED  BY <1>7, <1>8, <1>9, <1>10, <1>11, <1>12, <1>13, <1>14, <1>15, <1>16 DEF ViewEffect

----------------------------------------------------------------------------
(* The invariant holds.  Only the counters need facts about finite sets.     *)

INSTANCE FiniteSetTheorems

\* A set that a thread joins, leaves or neither, and its counter.
LEMMA Counted ==
  ASSUME NEW S, NEW T, NEW t, NEW n, NEW m, IsFiniteSet(S), n = Cardinality(S),
         \/ m = n /\ T = S
         \/ m = n + 1 /\ t \notin S /\ T = S \cup {t}
         \/ m = n - 1 /\ t \in S /\ T = S \ {t}
  PROVE  IsFiniteSet(T) /\ m = Cardinality(T)
<1>1. CASE m = n /\ T = S  BY <1>1
<1>2. CASE m = n + 1 /\ t \notin S /\ T = S \cup {t}
  BY <1>2, FS_AddElement
<1>3. CASE m = n - 1 /\ t \in S /\ T = S \ {t}
  BY <1>3, FS_RemoveElement
<1>. QED  BY <1>1, <1>2, <1>3

LEMMA CountInvStep ==
  ASSUME CountInv, NEW t \in Thread, Others(t), CountEffect(t)
  PROVE  CountInv'
<1>1. \A u \in Thread \ {t} : (Contends(u)' <=> Contends(u)) /\ (Waited(u)' <=> Waited(u))
  BY DEF Others, Contends, Queues, Waited
<1>2. \/ Contenders' = Contenders /\ (Contends(t)' <=> Contends(t))
      \/ Contenders' = Contenders \cup {t} /\ t \notin Contenders /\ Contends(t)' /\ ~Contends(t)
      \/ Contenders' = Contenders \ {t} /\ t \in Contenders /\ Contends(t) /\ ~Contends(t)'
  BY <1>1 DEF Contenders
<1>3. \/ Waiters' = Waiters /\ (Waited(t)' <=> Waited(t))
      \/ Waiters' = Waiters \cup {t} /\ t \notin Waiters /\ Waited(t)' /\ ~Waited(t)
      \/ Waiters' = Waiters \ {t} /\ t \in Waiters /\ Waited(t) /\ ~Waited(t)'
  BY <1>1 DEF Waiters
<1>. DEFINE S == Contenders
            T == Waiters
            SS == Contenders'
            TT == Waiters'
<1>4. /\ IsFiniteSet(S) /\ count = Cardinality(S)
      /\ IsFiniteSet(T) /\ waiters = Cardinality(T)
  BY DEF CountInv
<1>5. \/ count' = count /\ SS = S
      \/ count' = count + 1 /\ t \notin S /\ SS = S \cup {t}
      \/ count' = count - 1 /\ t \in S /\ SS = S \ {t}
  BY <1>2 DEF CountEffect
<1>6. \/ waiters' = waiters /\ TT = T
      \/ waiters' = waiters + 1 /\ t \notin T /\ TT = T \cup {t}
      \/ waiters' = waiters - 1 /\ t \in T /\ TT = T \ {t}
  BY <1>3 DEF CountEffect
<1>. HIDE DEF S, T, SS, TT
<1>7. IsFiniteSet(SS) /\ count' = Cardinality(SS)
  BY <1>4, <1>5, Counted
<1>8. IsFiniteSet(TT) /\ waiters' = Cardinality(TT)
  BY <1>4, <1>6, Counted
<1>. QED  BY <1>7, <1>8 DEF CountInv, SS, TT

LEMMA TypeStep ==
  ASSUME TypeOK, NEW t \in Thread, PcType', LocalType', EnvType', LockEffect(t),
         HeirEffect(t), CountInv', ListResult(t)
  PROVE  TypeOK'
<1>1. owner' \in Thread \cup {NULL} \cup {BasicLock(u) : u \in Thread}
  BY DEF TypeOK, LockEffect
<1>2. succ' \in Thread \cup {NULL} /\ Responsible' \in Thread \cup {NULL}
  <2>1. /\ succ \in Thread \cup {NULL} /\ Responsible \in Thread \cup {NULL}
        /\ other[t] \in Thread \cup {NULL}
    BY DEF TypeOK
  <2>2. succ' \in {NULL, t, other[t], succ}
    BY DEF HeirEffect
  <2>3. Responsible' \in {NULL, t, Responsible}
    BY DEF HeirEffect, Resigned
  <2>. QED  BY <2>1, <2>2, <2>3
<1>3. count' \in Nat /\ waiters' \in Nat
  BY FS_CardinalityType DEF CountInv
<1>4. cxq' \in Seq(Thread) /\ EntryList' \in Seq(Thread) /\ WaitSet' \in Seq(Thread)
  BY DEF ListResult
<1>. QED  BY <1>1, <1>2, <1>3, <1>4 DEF TypeOK, PcType, LocalType, EnvType, BasicLock, Label

LEMMA InvStep ==
  ASSUME Inv, NEW t \in Thread, Act(t)
  PROVE  Inv'
<1>1. /\ TypeOK /\ PcType /\ LocalType /\ EnvType /\ LockInv /\ CountInv /\ LocalInv(t)
      /\ RetInv(t) /\ OpInv(t) /\ HeirInv(t)
  BY Types DEF Inv, LocalInv
<1>2. pc[t] = "exit" => recursions = 0
  BY <1>1, OneHolder DEF Holds, Holding, Nesting, Notifying
<1>3. pc[t] = "abdicate" => EntryList # <<>>
  BY <1>1 DEF HeirInv
<1>4. Others(t) /\ LockEffect(t) /\ NestEffect(t)
  BY <1>1, <1>2, OthersStep, LockStep, NestStep
<1>5. CountEffect(t) /\ HeirEffect(t) /\ (Quiet(t) \/ ListStep(t)) /\ LocalEffect(t)
  BY <1>1, CountStep, HeirStep, ListEffect, LocalStep
<1>6. PcType' /\ LocalType' /\ EnvType'
  BY <1>1, <1>3, PcTypeStep, LocalTypeStep, EnvTypeStep
<1>7. LockInv' /\ CountInv'
  BY <1>1, <1>4, <1>5, LockInvStep, CountInvStep
<1>8. ListResult(t)
  BY <1>4, <1>5, ListStepResult
<1>9. \A u \in Thread : HeirInv(u)'
  BY <1>4, <1>5, <1>6, <1>8, HeirInvStep
<1>10. TypeOK'
  BY <1>1, <1>4, <1>5, <1>6, <1>7, <1>8, TypeStep
<1>11. ASSUME NEW u \in Thread PROVE LocalInv(u)'
  <2>1. CASE u = t
    BY <1>5, <1>8, <2>1 DEF LocalEffect, LocalInv, ListResult
  <2>2. CASE u # t
    <3>1. RetInv(u) /\ OpInv(u)
      BY DEF Inv, LocalInv
    <3>2. pc'[u] = pc[u] /\ ret'[u] = ret[u] /\ op'[u] = op[u]
      BY <1>4, <2>2 DEF Others
    <3>3. RetInv(u)' /\ OpInv(u)'
      BY <3>1, <3>2 DEF RetInv, OpInv, Waits
    <3>. QED  BY <1>8, <2>2, <3>3 DEF LocalInv, ListResult
  <2>. QED  BY <2>1, <2>2
<1>. QED  BY <1>7, <1>8, <1>9, <1>10, <1>11 DEF Inv, ListResult

LEMMA InvStutter ==
  ASSUME Inv, UNCHANGED vars
  PROVE  Inv'
<1>1. UNCHANGED <<lockVars, queueVars, heirVars, busyVars, waitVars, event, envVars, pc, locals>>
  BY DEF vars
<1>2. /\ UNCHANGED <<owner, recursions, cxq, EntryList, TState, succ, Responsible, count, waiters>>
      /\ UNCHANGED <<WaitSet, WaitSetLock, notified, event, interrupted, signalled, suspended, set,
                     events, pc, ret, op, other, save, WasNotified, calls>>
  BY <1>1 DEF lockVars, queueVars, heirVars, busyVars, waitVars, envVars, locals
<1>3. TypeOK'
  BY <1>2 DEF Inv, TypeOK, BasicLock, Label
<1>4. LockInv'
  BY <1>2 DEF Inv, LockInv, MutualExclusion, Holds
<1>5. ListInv'
  BY <1>2 DEF Inv, ListInv, OnList, HandInv, InTransit
<1>6. CountInv'
  BY <1>2 DEF Inv, CountInv, Contenders, Waiters, Contends, Queues, Waited
<1>7. \A t \in Thread : LocalInv(t)'
  BY <1>2 DEF Inv, LocalInv, RetInv, OpInv, NodeInv, Waits, Listed
<1>8. \A t \in Thread : HeirInv(t)'
  BY <1>2 DEF Inv, HeirInv, MayBeHeir, Listed, Queues
<1>. QED  BY <1>3, <1>4, <1>5, <1>6, <1>7, <1>8 DEF Inv

\* inflate() makes a monitor without contenders and waiters.
LEMMA InvInit == Init => Inv
<1>. SUFFICES ASSUME Init PROVE Inv
  OBVIOUS
<1>1. PICK t \in Thread :
         /\ pc \in {[u \in Thread |-> "out"], [u \in Thread |-> IF u = t THEN "in" ELSE "out"]}
         /\ owner = IF pc[t] = "in" THEN BasicLock(t) ELSE NULL
         /\ \E o \in set.Ops[t] : op = [u \in Thread |-> IF pc[u] = "in" THEN o ELSE "nothing"]
  BY DEF Init
<1>2. PICK o \in set.Ops[t] : op = [u \in Thread |-> IF pc[u] = "in" THEN o ELSE "nothing"]
  BY <1>1
<1>3. set \in Setting /\ set \in Settings
  BY ConstantsAssumption DEF Init
<1>4. o \in {"nothing", "wait", "timed_wait", "notify", "notifyAll", "complete_exit"}
  BY SMT, <1>3 DEF Setting
<1>5. set.MaxCalls \in Nat /\ set.MaxEvents \in Nat
  BY SMT, <1>3 DEF Setting
<1>6. \A u \in Thread : pc[u] \in {"out", "in"} /\ (pc[u] = "in" => u = t)
  BY <1>1
<1>7. /\ \A u \in Thread : op[u] \notin WaitOps \cup {"reentering"}
      /\ \A u \in Thread : TState[u] = "TS_RUN" /\ ret[u] = "out"
  BY <1>2, <1>4 DEF Init, WaitOps
<1>8. TypeOK
  <2>1. owner \in Thread \cup {NULL} \cup {BasicLock(u) : u \in Thread}
    BY <1>1
  <2>2. recursions \in Nat /\ count \in Nat /\ waiters \in Nat /\ calls \in Nat /\ events \in Nat
        /\ save \in [Thread -> Nat] /\ event \in [Thread -> {0, 1}]
    BY SMT, <1>5 DEF Init
  <2>3. cxq \in Seq(Thread) /\ EntryList \in Seq(Thread) /\ WaitSet \in Seq(Thread)
    BY SMT DEF Init
  <2>4. op \in [Thread -> {"nothing", "wait", "timed_wait", "notify", "notifyAll",
                           "complete_exit", "waiting", "timed_waiting", "reentering"}]
    BY <1>2, <1>4
  <2>5. pc \in [Thread -> Label] /\ ret \in [Thread -> Label]
    <3>1. "out" \in Label /\ "in" \in Label
      BY SMT DEF Label
    <3>. QED  BY <1>1, <3>1 DEF Init
  <2>. QED  BY <2>1, <2>2, <2>3, <2>4, <2>5, <1>3 DEF Init, TypeOK
<1>9. LockInv
  <2>1. \A u \in Thread : Holds(u) <=> pc[u] = "in"
    BY <1>6 DEF Holds, Holding
  <2>2. MutualExclusion
    <3>. SUFFICES ASSUME NEW u \in Thread PROVE Holds(u) <=> owner \in {u, BasicLock(u)}
      BY DEF MutualExclusion
    <3>1. u # NULL /\ BasicLock(u) # NULL /\ BasicLock(t) # u /\ (BasicLock(t) = BasicLock(u) => t = u)
      BY BasicLockFacts
    <3>. QED  BY <1>1, <1>6, <2>1, <3>1
  <2>3. \A u \in Thread : owner = BasicLock(u) => pc[u] = "in"
    BY <2>1, <2>2 DEF MutualExclusion
  <2>. QED  BY <2>2, <2>3 DEF LockInv, Init
<1>10. ListInv
  <2>1. Range(cxq) = {} /\ Range(EntryList) = {} /\ Range(WaitSet) = {}
        /\ IsInjective(cxq) /\ IsInjective(EntryList) /\ IsInjective(WaitSet)
    BY ShortLists DEF Init
  <2>. QED  BY <1>6, <1>7, <2>1 DEF ListInv, OnList, HandInv, Locked, Moving
<1>11. CountInv
  <2>1. Contenders = {}
    BY <1>6 DEF Contenders, Contends, Queues, Spinning, Exiting, Pushing, Enqueued, Futile, Leaving
  <2>2. Waiters = {}
    BY <1>7 DEF Waiters, Waited
  <2>. QED  BY <2>1, <2>2, FS_EmptySet DEF CountInv, Init
<1>12. ASSUME NEW u \in Thread PROVE LocalInv(u)
  <2>1. RetInv(u) /\ NodeInv(u)
    BY <1>6, <1>7 DEF RetInv, NodeInv, Spinning, Exiting, Pushing, Enqueued, Futile, Leaving,
                      Reentering, Woken
  <2>2. OpInv(u)
    BY <1>6, <1>7 DEF OpInv, Waits, Spinning, Exiting, Futile, Leaving, Reentering, Woken, Sleeping
  <2>. QED  BY <2>1, <2>2 DEF LocalInv
<1>13. ASSUME NEW u \in Thread PROVE HeirInv(u)
  BY <1>6, ConstantsAssumption DEF Init, HeirInv
<1>. QED  BY <1>8, <1>9, <1>10, <1>11, <1>12, <1>13 DEF Inv

\* The invariant holds in every state that enter(), exit(), wait() and notify(),
\* interrupts, timeouts and suspensions reach.
THEOREM Invariance == Spec => []Inv
<1>1. Inv /\ [Next]_vars => Inv'
  <2>. SUFFICES ASSUME Inv, [Next]_vars PROVE Inv'
    OBVIOUS
  <2>1. CASE UNCHANGED vars  BY <2>1, InvStutter
  <2>2. CASE Next
    <3>1. PICK t \in Thread : Act(t)
      BY <2>2 DEF Next, Act, ClientSteps
    <3>. QED  BY <3>1, InvStep
  <2>. QED  BY <2>1, <2>2
<1>. QED  BY <1>1, InvInit, PTL DEF Spec

----------------------------------------------------------------------------
(* The theorems.                                                           *)

\* The types: in particular _count and _waiters never become negative.
THEOREM TypeCorrect == Spec => []TypeOK
<1>1. Inv => TypeOK
  BY DEF Inv
<1>. QED  BY <1>1, Invariance, PTL

\* At most one thread is past an acquisition, and _owner names it.
THEOREM Exclusion == Spec => []MutualExclusion
<1>1. Inv => MutualExclusion
  BY DEF Inv, LockInv
<1>. QED  BY <1>1, Invariance, PTL

\* A node is on the one list that its TState names, whatever policies drain the
\* _cxq and place the waiters.
THEOREM ListsNamed == Spec => []OnTheListTStateNames
<1>1. ASSUME Inv PROVE OnTheListTStateNames
  <2>1. /\ cxq \in Seq(Thread) /\ EntryList \in Seq(Thread) /\ WaitSet \in Seq(Thread)
        /\ IsInjective(cxq) /\ IsInjective(EntryList) /\ IsInjective(WaitSet)
        /\ \A u \in Thread : OnList(u)
    BY <1>1, ListFacts
  <2>2. Range(cxq) \subseteq Thread /\ Range(EntryList) \subseteq Thread
    BY SMT, <2>1 DEF Range
  <2>3. /\ Range(cxq) \cap Range(EntryList) = {}
        /\ (Range(cxq) \cup Range(EntryList)) \cap Range(WaitSet) = {}
    BY <2>1, <2>2 DEF OnList
  <2>. DEFINE r == cxq \o EntryList
  <2>4. /\ r \in Seq(Thread) /\ Range(r) = Range(cxq) \cup Range(EntryList)
        /\ IsInjective(cxq) /\ IsInjective(EntryList) /\ Range(cxq) \cap Range(EntryList) = {} =>
             IsInjective(r)
    BY <2>1, ConcatFacts
  <2>. HIDE DEF r
  <2>5. IsInjective(r) /\ IsInjective(WaitSet) /\ Range(r) \cap Range(WaitSet) = {} =>
          IsInjective(r \o WaitSet)
    BY <2>1, <2>4, ConcatFacts
  <2>6. IsInjective(cxq \o EntryList \o WaitSet)
    BY <2>1, <2>3, <2>4, <2>5 DEF r
  <2>. QED  BY <2>1, <2>6 DEF OnTheListTStateNames, OnList, Pushing
<1>. QED  BY <1>1, Invariance, PTL

\* A thread that is counted keeps its counter from being zero.
LEMMA CountFacts ==
  ASSUME Inv, NEW t \in Thread
  PROVE  (Contends(t) => count # 0) /\ (Waited(t) => waiters # 0 /\ waiters > 0)
<1>1. Contends(t) => t \in Contenders
  BY DEF Contenders
<1>2. Waited(t) => t \in Waiters
  BY DEF Waiters
<1>3. (Contends(t) => count # 0) /\ (Waited(t) => waiters # 0)
  BY <1>1, <1>2, FS_EmptySet DEF Inv, CountInv
<1>4. waiters \in Nat
  BY DEF Inv, TypeOK
<1>5. waiters # 0 => waiters > 0
  BY SMT, <1>4
<1>. QED  BY <1>3, <1>5

\* The asserts and guarantees of synchronizer.cpp hold: a free monitor has no
\* recursions, _count is not negative, a thread that has entered is neither the
\* heir nor responsible, wait() comes back without recursions and off every list, and
\* nobody on the WaitSet is notified.
THEOREM AssertionsHold == Spec => []Assertions
<1>1. ASSUME Inv PROVE owner = NULL => recursions = 0
  <2>1. MutualExclusion /\ (recursions = 0 \/ \E t \in Thread : pc[t] \in Nesting)
    BY <1>1 DEF Inv, LockInv
  <2>2. ASSUME NEW t \in Thread, pc[t] \in Nesting PROVE owner # NULL
    BY <2>1, <2>2, ConstantsAssumption DEF MutualExclusion, Holds, Holding, Nesting, Notifying
  <2>. QED  BY <2>1, <2>2
<1>2. ASSUME Inv PROVE count >= 0
  BY SMT, <1>2 DEF Inv, TypeOK
<1>3. ASSUME Inv PROVE Assertions
  <2>. SUFFICES ASSUME NEW t \in Thread
                PROVE  /\ pc[t] \in {"EnterI", "reset", "suspendCheck", "in", "waitEnd", "reentered"} =>
                            succ # t /\ Responsible # t
                       /\ pc[t] \in {"waitEnd", "reentered"} => recursions = 0
                       /\ t \in Range(WaitSet) => ~notified[t]
                       /\ pc[t] \in {"waitEnd", "in"} => TState[t] = "TS_RUN"
                       /\ pc[t] = "waitReenter" => TState[t] # "TS_WAIT"
                       /\ pc[t] \in {"ReenterI", "rPark", "rTry"} => waiters > 0
    BY <1>1, <1>2, <1>3 DEF Assertions
  <2>1. HeirInv(t) /\ NodeInv(t) /\ OpInv(t) /\ OnList(t) /\ LockInv
    BY <1>3 DEF Inv, LocalInv, ListInv
  <2>2. pc[t] \in {"EnterI", "reset", "suspendCheck", "in", "waitEnd", "reentered"} => succ # t
    BY <2>1 DEF HeirInv, MayBeHeir, NodeInv, Listed
  <2>3. pc[t] \in {"EnterI", "reset", "suspendCheck", "in", "waitEnd", "reentered"} =>
          Responsible # t
    BY <2>1 DEF HeirInv, Queues, Enqueued, Spinning, Futile, Leaving
  <2>4. pc[t] \in {"waitEnd", "reentered"} => recursions = 0
    BY <2>1, OneHolder DEF Holds, Holding, Nesting, Notifying
  <2>5. pc[t] \in {"waitEnd", "in"} => TState[t] = "TS_RUN"
    BY <2>1 DEF NodeInv
  <2>6. pc[t] = "waitReenter" => TState[t] # "TS_WAIT"
    BY <2>1 DEF NodeInv, Woken
  <2>7. pc[t] \in {"ReenterI", "rPark", "rTry"} => Waited(t)
    BY <2>1 DEF OpInv, Waits, Reentering, Waited
  <2>. QED  BY <1>3, <2>1, <2>2, <2>3, <2>4, <2>5, <2>6, <2>7, CountFacts DEF OnList
<1>. QED  BY <1>3, Invariance, PTL

\* deflate_idle_monitors() leaves a monitor alone that a thread is inside of.
THEOREM Busy == Spec => []BusyWhileUsed
<1>1. ASSUME Inv PROVE BusyWhileUsed
  <2>. SUFFICES ASSUME NEW t \in Thread, AtSafepoint(t) PROVE is_busy
    BY DEF BusyWhileUsed
  <2>1. RetInv(t) /\ OpInv(t)
    BY <1>1 DEF Inv, LocalInv
  <2>2. Contends(t) \/ Waits(t)
    BY <2>1 DEF AtSafepoint, RetInv, Contends, Queues, Waits, Pushing, Enqueued, Futile, Exiting,
                Sleeping, Reentering, Spinning
  <2>3. Waits(t) => Waited(t)
    BY <2>1 DEF OpInv, Waited, Waits, Sleeping, Woken, Reentering, Spinning, Futile, Leaving, Exiting
  <2>. QED  BY <1>1, <2>2, <2>3, CountFacts DEF is_busy
<1>. QED  BY <1>1, Invariance, PTL

\* synchronizer.cpp implements the monitor of the Java language, with any number
\* of threads, any setting of the three knobs and any program.
THEOREM Refinement == Spec => ImplementsMonitor
<1>1. Init => Abs!Init
  <2>. SUFFICES ASSUME Init PROVE Abs!Init
    OBVIOUS
  <2>1. Inv
    BY InvInit
  <2>2. PICK t \in Thread :
         pc \in {[u \in Thread |-> "out"], [u \in Thread |-> IF u = t THEN "in" ELSE "out"]}
    BY DEF Init
  <2>3. \A u \in Thread : (HasIt(u) <=> pc[u] = "in") /\ (pc[u] = "in" => u = t)
    BY <2>2 DEF HasIt, Visible
  <2>4. Holder = IF pc[t] = "in" THEN t ELSE NULL
    BY <2>3, HolderFacts DEF Holder, HolderOf, HasIt
  <2>5. Waiting = {}
    BY ShortLists DEF Waiting, Init
  <2>6. \A u \in Thread : op[u] \notin {"waiting", "timed_waiting", "reentering"}
    BY <2>1, <2>2 DEF Inv, LocalInv, OpInv, WaitOps
  <2>7. \A u \in Thread : Depth[u] = IF HasIt(u) THEN 0 + 1 ELSE 0
    BY <2>6 DEF Depth, Init
  <2>8. 0 + 1 = 1
    BY SMT
  <2>9. \A u \in Thread : Depth[u] = IF u = Holder THEN 1 ELSE 0
    BY <2>3, <2>4, <2>7, <2>8, ConstantsAssumption
  <2>10. Depth = [u \in Thread |-> IF u = Holder THEN 1 ELSE 0]
    BY <2>9 DEF Depth
  <2>. QED  BY <2>4, <2>5, <2>10 DEF Abs!Init
<1>2. Inv /\ Inv' /\ [Next]_vars => [Abs!Next]_(Abs!vars)
  <2>. SUFFICES ASSUME Inv, Inv', [Next]_vars
                PROVE  Abs!Next \/ UNCHANGED <<Holder, Depth, Waiting>>
    BY DEF Abs!vars
  <2>1. CASE UNCHANGED vars
    <3>1. UNCHANGED <<pc, op, save, recursions, WaitSet>>
      BY <2>1 DEF vars, lockVars, waitVars, locals
    <3>. QED  BY <3>1 DEF Holder, Depth, Waiting, HasIt
  <2>2. CASE Next
    <3>1. PICK t \in Thread : Act(t)
      BY <2>2 DEF Next, Act, ClientSteps
    <3>2. /\ TypeOK /\ PcType /\ LocalType /\ LockInv /\ LocalInv(t) /\ RetInv(t)
      BY Types DEF Inv, LocalInv
    <3>3. pc[t] \in {"exit", "fastDrop"} => recursions = 0
      BY <3>2, OneHolder DEF Holds, Holding, Nesting, Notifying
    <3>4. owner = BasicLock(t) => recursions = 0
      BY <3>2 DEF LockInv
    <3>5. Others(t) /\ LockEffect(t) /\ NestEffect(t) /\ ViewEffect(t)
      BY <3>1, <3>2, <3>3, <3>4, OthersStep, LockStep, NestStep, ViewStep
    <3>. QED  BY <3>5, RefineStep
  <2>. QED  BY <2>1, <2>2
<1>3. ImplementsMonitor <=> Abs!Init /\ [][Abs!Next]_(Abs!vars)
  BY DEF ImplementsMonitor, Abs!Spec
<1>. QED  BY <1>1, <1>2, <1>3, Invariance, PTL DEF Spec

=============================================================================
