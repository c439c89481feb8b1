# HotSpot's synchronization runtime in TLA+

The HotSpot VM keeps its threads apart, stops them and lets them go again with
a tower of small concurrent protocols: events to sleep on, the VM's own
monitors, the monitors of Java objects, the safepoint, the VM thread that runs
operations while everybody else stands still, and the queues from which parallel
collectors share their work.  Each layer is hand-written lock-free or nearly
lock-free code whose correctness arguments are in comments.  This project models
these layers from the source (`src/src/share/vm/runtime` and `utilities`,
`src/src/os/linux/vm`), checks them with TLC on small instances, and proves the
most important properties of all of them with TLAPS for any number of threads.

## 1. Parts

Paths are relative to `src/src/share/vm` unless they say otherwise.

| Part | State | Operations | Hard behaviours | Modules |
|---|---|---|---|---|
| Native Mutex/Monitor (`runtime/mutex.cpp`) | `_LockWord` (LockByte and cxq), `_EntryList`, `_OnDeck`, `_WaitSet`, `_WaitLock`, `_owner`, each ParkEvent's `_Event` and `Notified` | lock, try_lock, jvm_raw_lock, unlock, wait, notify, notify_all | lock-free queues, competitive handoff, delegation of wakeups, timeouts racing notify, suspension during wait | `NativeMonitor`, `AbstractMonitor` |
| PlatformEvent (`src/src/os/linux/vm/os_linux.cpp`) | `_Event`, `_nParked`, a pthread mutex and condition | park, park(millis), TryPark, reset, unpark | plain store against CAS, signal after unlock, spurious wakeups, timeouts | `PlatformEvent`, `Permit` |
| Parker (same file) | `_counter`, mutex, condition, the interrupt flag | park, unpark, interrupt | store buffers, trylock that gives up, interrupt between two checks | `Parker` |
| ParkEvent and Parker free lists (`runtime/thread.cpp`) | `FreeList`, `FreeNext`, `AssociatedWith` | Allocate, Release | ABA, detached lists | `ParkEventFreeList` |
| Safepoints (`runtime/safepoint.cpp`) and thread states (`runtime/interfaceSupport.hpp`) | `_state`, `_waiting_to_block`, `_safepoint_counter`, the polling page, each thread's `_thread_state` and ThreadSafepointState, the Threads_lock and thread list | begin, end, block, the transitions, thread start and end | Dekker protocol over store buffers, the serialization page, threads that come and go, locks held across transitions | `Safepoint` |
| VM thread and its queue (`runtime/vmThread.cpp`) | two queues, the drain list, `_cur_vm_operation`, tickets, the termination flags | execute, loop, nested operations, exit | operations on their callers' stacks, draining during a safepoint, starvation, a lost last notification | `VMThread` |
| Task queues and terminator (`utilities/taskqueue.hpp`, `.cpp`, driven by `gc_implementation/parNew`) | `_age`, `_bottom`, the elements, the overflow list, offers of termination | push, pop_local, pop_global, peek, steal, take from overflow, offer_termination | the last element, tags and indices that wrap, an offer withdrawn too late | `TaskQueue`, `WorkPool` |
| ObjectMonitor (`runtime/synchronizer.cpp`) | `_owner`, `_cxq`, `_EntryList`, `_WaitSet`, `_succ`, `_Responsible`, `_count`, `_waiters`, each ObjectWaiter's `TState` and `_notified` | enter, exit, fast unlock, wait, notify, notifyAll, complete_exit, reenter | 1-0 exit that looks back, or never; the one thread that polls; interrupts, timeouts and suspension racing notify | `ObjectMonitor`, `JavaMonitor` |
| ObjectSynchronizer and the mark word (same file, `oops/markOop.hpp`) | the mark word, BasicLocks, monitors' headers, the free lists of monitors | fast_enter, fast_exit, inflate, omAlloc, omRelease, omFlush, FastHashCode, deflate_idle_monitors | inflation against stack unlock, the header that moves while its hash code is read | `ObjectSynchronizer`, `JavaMonitor` |

How they interact: a thread that blocks on a native or on an object's monitor
sleeps on its ParkEvent (from the free list), which is a PlatformEvent.  A Java
thread that blocks or leaves native code goes through a state transition, which
looks at the safepoint; the safepoint stops threads on the Threads_lock, a native
monitor; the VM thread brings safepoints about for the operations that threads
queue under two more native monitors; at a safepoint idle object monitors are
deflated.  Each layer takes of the one below what that one is shown to provide:
monitors use the `Permit` that `PlatformEvent` implements, `ObjectSynchronizer`
uses the monitor that `ObjectMonitor` implements, `VMThread` the atomic safepoint.
`PROJECT.json` lists all parts of the repository, and the hazards at the lines
where they bite.

## 2. How the models are made

One action is one access to shared memory, or one critical section of a lock
where everything inside is private to it.  A CAS loop is the step at which its
CAS succeeds, and where a failed CAS matters (the free list, the inner lock of
`IUnlock`) the failing step is there as well.  Memory is sequentially consistent
where the code orders it (CAS, fences, locks).  Where it does not, the store
buffer is explicit: in `Parker` for `_counter`, in `Safepoint` for every
thread's state.  Tests and updates that a plausible slip would get wrong are
operators of their own (`Free`, `Drained`, `do_call_back`); the operator above
one of them with a longer name (`Free_Unchecked`) is the slip, and shows that
the property in question would notice it.

### NativeMonitor, AbstractMonitor

`pc[t]` follows a thread through `ILock`, `IUnlock`, `IWait` and `notify`; the
lists are sequences of threads, since every queued ParkEvent belongs to one
thread.  `LockByte` and `cxq` share one word, so an action that CASes the word
reads and writes both atomically.  The OnDeck pointer is also the inner lock
(`LBIT`).  park and unpark are those of a binary permit.  `Ops` selects what
clients do in an instance; `quiesce` ends new calls, so that liveness can be
asked without promising fairness against barging threads.  The VM thread's
sneaking past held locks is left out.

`AbstractMonitor` is what clients rely on: an owner, a set of waiters and a set
of notified threads.  `ImplementsMonitor` is the refinement.  A waiter counts as
notified once `notify` has taken it off the WaitSet.

### PlatformEvent, Permit

The owner's `park` (timed or not) against any number of unparkers.  `Permit` is
a Boolean that unpark sets and a successful park consumes; `ImplementsPermit`
maps it to `_Event`, taking into account that the parked thread clears `_Event`
by a plain store after it has decided to return.

### Parker

`Parker::park` and `unpark` with the parking thread's store buffer, which a
fence, a lock or nothing empties.  `available` is a history variable: a permit
was given since the last return from park.

### ParkEventFreeList

Pointer by pointer: `FreeNext` is a function on addresses, and a CAS compares
addresses only.  The Parker list is the same code.  Callers without a Thread
(they skip the association) are left out.

### Safepoint

The VM thread's `begin` and `end`, with one action per store or lock, and Java
threads that move between Java, the VM, native code and blocking.  The order in
which `begin` scans the list is abstracted: it examines any thread that it still
takes for running.  The Safepoint_lock is held from `serialize` to `wait` and
again in `restart`.  `Dynamic` adds threads that start (`add` under the
Threads_lock, `Start` after it) and end.  Left out: suspension and asynchronous
exceptions on the way out of a transition, `SafepointTimeout`, a nonnegative
`DeferPollingPageLoopCount`, statistics, cleanup tasks, concurrent GC threads,
and terminated threads that call `block` at VM exit.

### VMThread

The safepoint is atomic here (that is what `Safepoint` shows), the two locks
are held within single actions.  Java threads take no step at a safepoint, other
threads do.  Operations are addresses that are reused, and `live` says which are
not deallocated.  Prologues that cancel, timers for self-destruction and the
bodies of operations are left out; nested operations matter by the safepoint
they may begin.

### TaskQueue, WorkPool

Every read and write of `_bottom`, `_age` and the elements is a step of one
worker's loop: it scans a task, pushes what it finds on its queue or on the
overflow list, pops, steals, and offers to terminate.  Indices are modulo `N` and
tags modulo `TagSize`, as in the code.  The stores of a worker become visible in
order, and the store to `_bottom` in `pop_local` before the reads behind its
fence.  Whom a thief tries is left open, since sampled sizes are only hints.  A
task is a piece of work: a large array is scanned in chunks, and what is left of
it after a chunk is a task that is found first (`Discover`).  The code pushes it
without a look at the result ("just popped, push must be okay"), and `Assertions`
says that there is room from the pop on.

`WorkPool` is a set of tasks, each taken by one worker at a time and finished
once, with an end that nobody sees before all tasks are finished
(`ImplementsPool`).

### ObjectMonitor, JavaMonitor

All of `enter`, `exit`, `wait` and `notify`, as their owners call them (anybody
else has IllegalMonitorStateException and changes nothing), with every setting of
three of the `SyncKnobs` that change their control: `Knob_ExitPolicy`, `Knob_QMode`
and `Knob_MoveNotifyee`.  The others that do, `Knob_SuccEnabled`, `Knob_ResetEvent`
and the bits of `SyncFlags`, have their defaults.  Spinning is an attempt that may
succeed at any of its rounds.  `set` is the
setting of a behaviour, chosen in `Init` from `Settings`: one run covers several
policies and client programs.  `Fast_Unlock` of compiled code, which releases
without looking back, is an exit of its own.

`JavaMonitor` is what the Java language promises: a holder with a depth, waiters
that come back with the depth they had.  A wait ends by notification, timeout or
interrupt; which of them, and so that only the holder notifies, is not part of it.

### ObjectSynchronizer

One object, its mark word, every thread's BasicLocks and the monitors.  `box[t]`
is the displaced header of the outermost BasicLock of t, `inner[t]` those of its
nested entries.  The header with the hash code is in exactly one of mark word,
BasicLock and monitor, and it moves by CASes and plain stores; `returned` is a
history variable with all the hash codes that `FastHashCode` has returned.  Of the
ObjectMonitor there are owner, depth and `is_busy`.  Deflation happens when every
thread is stopped at a safepoint.  A thread that dies leaves the thread list
(`remove`), and from then on holds up no safepoint; its destructor gives its free
monitors back later (`omFlush`), possibly during a deflation.  Biased locking is off
(`-XX:-UseBiasedLocking`).

## 3. Runs

| Run | Instance | Distinct states | What it shows |
|---|---|---|---|
| `nm_succession` | 3 threads, lock, try_lock | 0.19 M | exclusion, nobody is stranded, every lock() is served once arrivals stop, OnDeck is stable and nobody its own successor |
| `nm_wait` | 2 threads, every operation (all waits, raw locks, suspension), flags 1 and 16 | 0.20 M | lists are disjoint and notifications kept through spurious wakeups, timeouts and transient events; every lock() and every wait that is notified or timed ends; refinement of AbstractMonitor |
| `pe_event` | 3 unparkers, signal after the unlock | 3.1 k | no wakeup is lost and timed parks end; refinement of Permit |
| `pk_membar` | 2 unparkers, fences | 0.8 k | no sleep over a permit; unpark and interrupt end a sleep |
| `pk_default` | 2 unparkers, the default flags (no fences) | violated | the fast path's store wipes out a later permit |
| `fl_list` | 3 threads, 5 events, 2 each | 28 k | no event is lost or in two hands |
| `sp_safety` | 2 threads that come and go, store buffers, serialization page | 39 k | no thread runs at a safepoint, counts agree, the asserts and fatal errors of block(), no owner of the Threads_lock blocks there; safepoints are reached and threads resume |
| `vt_queue` | 1 Java thread, 1 other, 2 operations, all modes, exit | 98 k | operations are evaluated once, never touched after deallocation, found by collections; every request is answered, safepoint operations do not starve others, the end of the VM thread is seen |
| `tq_steal` | 2 workers, 4 tasks, queues of 4 that start at index 3, one steal | 0.38 M | queues, overflow list and terminator are one pool of tasks; the asserts; no early end, and an end |
| `om_monitor` | 3 threads, 9 settings | 0.38 M | exclusion, the lists that TState names, the asserts, is_busy() while in use, refinement of JavaMonitor; with the default exit policy nobody is stranded |
| `om_notify` | a waiter, a notifier, an interrupt | violated | a notified thread throws InterruptedException, and the notification is lost |
| `os_mark` | 3 threads, up to 3 calls each, 3 monitors, 2 hash codes, depth 2 | 1.2 M | the hash code is stable, monitors are accounted for, the guarantees on free and idle monitors, refinement of JavaMonitor, every call returns |

Why the bounds are enough to be interesting.  The succession protocol needs
three roles at once: a thread that exits, one that is OnDeck and one that
arrives; `nm_succession` and the default setting of `om_monitor` have all of
them.  The free list's ABA needs an event to leave and come back while two other
threads are under way.  A store buffer of one entry (`BufferSize`) already delays
the announcement past the look at `_state`, which is the case the serialization
page is for.  `StarvationLimit` is 10 in the code and 1 here: starvation is about
whether the limit is finite.  A task queue of four that starts at its last index
wraps, fills up and overflows with four tasks, and one steal makes owner and
thief meet at the last element.  The number of steals is bounded (`MaxSteals`),
and `Terminates` rests on it: in the code a stolen task goes to the thief's queue,
where it can be stolen again before it is popped, as often as chance has it.  The races of inflation need a thread that holds
the stack lock, one that inflates and one that reads the hash code; a second
hash code shows a lost one.  One thread has three calls, so that it can enter twice
and give both entries up in `wait`.

Deadlock is checked except where the system may stop: in the runs of monitors,
where waiting threads may all wait for a notification that no client gives and
the number of calls is bounded, in `tq_steal`, where the collection ends, and in
`vt_queue`, where the VM does.

Fairness.  Threads that are inside an operation go on (weak fairness): the
scheduler runs them.  Nobody has to call an operation.  A timed park needs
strong fairness of its timeout, since its deadline is absolute while wakeups
may come and go.  `Safepoint` and `VMThread` assume strong fairness of the
acquisition of native locks.  `EveryoneServed` of `NativeMonitor` supports it and is
weaker: it says that nobody is left behind once arrivals stop, while under barging
without end it is chance that lets a thread in.  In `ObjectSynchronizer` and
`ObjectMonitor` the calls are finitely many, and weak fairness is enough: their
`EveryoneServed` says that no wakeup is lost, not that the lock is fair.  `VMThread` assumes for `begin` what
`SafepointReached` says, and for stopped threads what `ThreadsResume` says.
`Safepoint` assumes that Java code polls and that code in the VM reaches a
transition; `ObjectMonitor`, that whoever suspends a thread resumes it.

## 4. What is proved

For any set of threads and without the bounds of the runs:

* `NativeMonitorProofs` (flag 32 off): `TypeCorrect`, `Exclusion` (at most one
  thread has the lock, and LockByte says so), `SingleConsumer`,
  `OnDeckAssertions`, `OnDeckStability`, `ListsDisjoint`, `NotificationsAreKept`,
  `SuccessorIsAnother`, `NobodyStranded` and `MonitorRefinement`.
* `ParkProofs`: of `PlatformEvent`, `EventTypes`, `EventGuarantees` and
  `PermitRefinement`; of `Parker`, `ParkerTypes` and `PermitSeen`, that with
  UseMembar nobody sleeps over a permit.
* `ParkEventFreeListProofs`, for any threads and events: `TypeCorrect`,
  `NoEventLost` (no event is lost or in two hands) and `GuaranteesHold`.
* `SafepointProofs` (finitely many threads): `SafepointTypes`, `SafepointStops`,
  `SafepointCounts`, `SafepointAssertions`, `SafepointNoSelfDeadlock`, for both
  settings of UseMembar and any size of the store buffers.
* `VMThreadProofs`, for any threads, operations and modes: `TypeCorrect`,
  `MemorySafe` (without TraceLongCompiles), `NothingHidden` and
  `ReturnsAfterEvaluation`.
* `ObjectMonitorProofs`, for any threads, any setting of the three knobs and any client
  program: `TypeCorrect`, `Exclusion`, `ListsNamed` (a node is on the list that its
  TState names), `AssertionsHold`, `Busy` (no monitor is deflated that a thread will
  come back to) and `Refinement`, that it implements the `JavaMonitor`.
* `ObjectSynchronizerProofs`, for any threads, monitors, hash codes and depths:
  `TypeCorrect`, `HashIsStable`, `MonitorsAccounted`, `GuaranteesHold` and
  `Refinement`, that stack locks, inflation and deflation implement the
  `JavaMonitor`.
* `TaskQueueProofs`, for any number of workers and tasks, queues of any size and any
  number of tags, as long as no tag comes round under a thief: `TypeCorrect`,
  `Termination` (nobody leaves early), `AssertionsHold` and `Refinement`, that queues,
  overflow list and terminator implement the `WorkPool`; and `TagsSuffice`, that with
  enough tags none does.

Flag 32 of NativeMonitorFlags (off by default) makes `ILock` install its Thread
where it later asserts its ParkEvent; that is why the theorems exclude it.

Some theorems state properties that no run lists: the types, `OneConsumer`,
`OnDeckIsSelf` of `NativeMonitor`, `Guarantees` of `PlatformEvent` and
`ParkEventFreeList`.  Where a theorem and a run state the same property, `PROJECT.json` pairs them, except for
`PermitSeen`, which has `NoSleepOverPermit` of `pk_membar` from an instance of `Parker`.

**NativeMonitor.**  Mutual exclusion is not inductive: a thread "has the lock" at
some twenty control points, and the code relies on who holds the inner lock to
touch the EntryList.  `IInv` therefore relates every control point to the lock
word, the OnDeck word and the local variables (`ControlInv`, `LocalInv`).  The
proof first states for every action what it does to the lock word, to OnDeck and
to control (the effect lemmas), once, and derives each invariant from the effects.
The lists need more: `ListInv` says that each thread is at most once on cxq,
EntryList, WaitSet and the private lists, and not at all while it is off lists;
the head of `NativeMonitorProofs` has the facts on sequences (push, pop, remove)
in a pointwise form that SMT can use.  The refinement follows from the effects of
each action on what clients see.

A notification changes hands three times, and `Notified` is set only after the
waiter is queued for the lock.  `NoteInv` follows it: a waiter is not notified
exactly as long as it is on the WaitSet or in the hands of a notifier that has
the WaitLock, and once notified it is queued (`WaitInv`, `HandInv`), so a waiter
that times out can tell which of the two it is.  Stranding is about an instant at
which the lock is free, and the duty to wake somebody is in the program counter of
one of the threads that dropped it.  `StrandInv` names the points at which a
thread still has the duty, given what it has sampled (`Looks`, `Wakes`); an exiting
thread that gives it up has seen the lock held or another thread OnDeck and awake,
and then the invariant holds through that thread.

**Parker.**  `FencedInv` says that the buffered store of the fast path does not
outlive `park`, so that an available permit is in memory, and that whoever sleeps
over a `_counter` that is set has the unparker that set it about to signal.  It is
the fence that makes the first conjunct true: without UseMembar `pk_default`
refutes the property.

**ParkEventFreeList.**  The pointers form lists of any length.  `Reach` defines a
list without recursion, as the least set that contains its head and is closed
under `FreeNext`, and `Ends` says that it has no cycle: every nonempty part of it has
an element whose successor is outside.  Push, pop and append then are set
reasoning.  The inductive invariant adds to `InOneHand` that every private list
ends, that a thread's private lists are disjoint and that the event to be pushed is
linked to the head the thread saw.  The last is where ABA would bite: the CAS
succeeds for an equal head even when the list behind it has changed, and the
theorem holds since a push links to the head and not to what follows it, and a
take detaches the whole list.

**Safepoint.**  `Stopped` is about the end of a long argument, and says nothing
about its middle.  `ThreadInv` of `SafepointProofs` has it.  `ControlOf` ties a
thread's latest state to its control point.  `PendingOf` is the heart: every state
of a thread that memory holds, or that a store buffer may still deliver, tells the
truth about the thread (native or blocked means `Held`, in the VM means
`WillCallBack`).  With fences this is so always, with the serialization page from
the flush on, and a thread that looked at `_state` before the flush has nothing
misleading left to deliver.  `TypeOf` carries this over to what the VM thread has
noted.  `Held` lasts as long as the VM thread has the Threads_lock and `_state`
stops threads.  The count is the cardinality of the set of threads waited for, so
it reaches zero only when all threads are held.

**VMThread.**  An operation lives on its caller's stack, so that the VM thread may
touch it is a fact about the caller.  `HandedInv` says it: an operation that is on
a list or in the VM thread's hands is alive, and unless it is concurrent its caller
waits for it with an outstanding ticket.  `CallerInv` is the other side: who is
about to return has no ticket outstanding.  A caller that deallocates its
operation therefore deallocates none that the VM thread has.  For this to last,
completing an operation must take it out of every place at once, which needs
`ListInv` (no operation is in two places) and `LoopInv` (the drain list that
`oops_do` scans is the one `loop` works on, and is empty between rounds).
`TraceLongCompiles` breaks exactly one conjunct, see below.

**ObjectSynchronizer.**  Who owns the object is told by three different words:
a mark word that points to a stack, the stack lock that an inflating thread has
taken over, and the owner of a monitor.  `OwnInv` equates each thread's own view
(it has a BasicLock whose entry is complete) with these words, and since they name
one thread, exclusion follows.  `ShapeInv` says which of the nested BasicLocks were
counted by the monitor, so that the depth is the same in all forms of the lock;
`UserInv` says that a monitor in a thread's hands is the one in the mark word,
which deflation must not break; `PoolInv`, `PrepInv` and `MonitorInv` say where
every monitor is and in what condition; and `HashInv` that the header in charge,
wherever it is, has every hash code ever returned.  An action is proved in two
halves: a frame lemma for its kind (it leaves the mark word alone; it moves the
mark; it publishes a monitor) carries over what that kind cannot disturb, and the
action's own lemma proves the rest.  The refinement maps holder and depth to these
three forms, and each action to a step of `JavaMonitor` or to none.

**ObjectMonitor.**  `TrySpin` and `exit` are called from several places, so a control
point says where a thread is only together with its return label and what it does;
`LocalInv` has the combinations that occur, and from them who holds the lock (`LockInv`)
and who is counted by `_count` and `_waiters` (`CountInv`, with the cardinality of the
sets of contenders and waiters).  Three lists, three writers: the owner drains the
`_cxq`, an arriving thread pushes to it without the lock, a waiter that timed out takes
itself off the WaitSet under the `_WaitSetLock`, and notify() has a waiter in its hands
between two lists.  `ListInv` says of each thread where its node is, and its step is
proved once for the dozen actions that touch a list and once for all the others.
`HeirInv` says who may be `_succ` or `_Responsible`: a thread that is queued, or spins
and has not looked back yet.  That is what the asserts on these fields need.  In
the refinement a release takes effect when exit() decides to drop the lock, and an
acquisition when enter(), wait() or reenter() can no longer give it back; every other
step is a stutter of `JavaMonitor`.

**TaskQueue.**  `EndsInv` gives the length of a queue at every step of its owner,
including the one at which `_bottom` has passed `_age.top`, and says that one element
at most is left when owner and thieves race for it.  `ThiefInv` is about the thieves:
if the CAS would succeed, the element that was read before it is still the oldest.  A
task changes hands in many ways and must never be in two: `Partition` has every task
at exactly one place (unknown, on a queue, in a hand, on the overflow list, done), and
each action is shown to move a set of tasks from one place to another, once, from which
the partition and the steps of `WorkPool` both follow.  Early termination needs
`OverflowInv` (whoever puts an object on the overflow list looks there before it
offers), `CountInv` (offers are counted) and `EndInv`.

The algorithm is correct only while a tag does not come round between the read of
`_age` in `pop_global` and its CAS.  With 2^16 tags the code relies on that and cannot
enforce it.  `TagsLast` states it as an action property, and the theorems have it as
their hypothesis: they hold for two tags as well, for the behaviours that respect it.
`TagsSuffice` shows that the hypothesis is no more than a bound on how much happens:
with more than MaxTasks + 2 (MaxSteals + NWorkers) tags every behaviour respects it,
and the run `tq_steal` is such an instance.  Its invariant `TagInv` pays for each new
tag with a task popped for good or with half a steal, and orders the ages that an owner
or a thief has read before the present one.

What stays with TLC, and why:

* liveness (`EveryoneServed`, `ParkReturns`, `BlockedReturns`,
  `SafepointReached`, `ThreadsResume`, `ExitIsSeen`, `Terminates`): fairness and
  ENABLED are beyond the prover;
* the two violations, `pk_default` and `om_notify`, which are counterexamples.

Every safety property and every refinement that a run checks is a theorem.

## 5. Disagreements between the code and what it says

* `os_linux.cpp:4552`: the fast path of `Parker::park` clears `_counter` without
  a fence; the delayed store can wipe out a permit (`pk_default`).
* `synchronizer.cpp:4098`: `notify` stores `TState` before `_notified`, while
  `notifyAll` does it the other way round.  A waiter that an interrupt has woken
  can find itself off the WaitSet and not notified; it throws
  InterruptedException and uses up the notification, though "Monitor notify has
  precedence over thread interrupt" (line 4068; run `om_notify`).

The code admits a third one itself: with `TraceLongCompiles` the VM thread reads
an operation that may be gone (`vmThread.cpp:497`).  `VMThread` has the flag, and
with it TRUE TLC finds `NoUseAfterFree` violated; the run has it FALSE, its
default, and the theorem says so.

`VMThread` also shows that a thread which is not stopped by safepoints and never
stops requesting them keeps the draining loop going for ever.  The run bounds the
requests of such a thread (`MaxOtherCalls`); the collector threads that request
safepoints pause on the CMS token.

## 6. Not modelled

`PROJECT.json` has every part with its reason.  In short:

* biased locking, external suspension itself (it is an environment step of the
  monitors), lock ranks and the VM thread's sneaking;
* protocols on one native monitor, which its theorems cover in part: work gangs,
  GC task manager, GC locker, CMS token, compile broker, watcher thread;
* class initialization and loading, nmethod states and sweeper, JNI handles and
  fast field access, which depend on Java code, stacks or generated code;
* the time conversions of park: a timeout is an event that may come at any time;
* compilers, interpreter, parsers, the collectors' heap traversal, CPU back ends
  and the serviceability agent: data-dominated or generated.
