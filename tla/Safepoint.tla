----------------------------- MODULE Safepoint -----------------------------
(***************************************************************************)
(* SafepointSynchronize (runtime/safepoint.cpp) and the transitions of     *)
(* Java threads (runtime/interfaceSupport.hpp): how the VM thread stops    *)
(* all Java threads and lets them go again.                                *)
(*                                                                         *)
(* A Java thread announces what it does in its thread_state, and looks at  *)
(* _state when it leaves native code, a blocking call or the VM.  The VM   *)
(* thread sets _state, then looks at each thread_state.  The stores of a   *)
(* thread_state go through a store buffer; a thread fences (UseMembar) or  *)
(* relies on the VM thread, which flushes all buffers by the serialization *)
(* page.  Locks order memory: whoever takes or drops one has an empty      *)
(* buffer.                                                                 *)
(***************************************************************************)
EXTENDS Naturals, Sequences, FiniteSets

CONSTANTS
  JavaThread,  \* the threads that may exist
  Initial,     \* the threads that exist at first
  VMThread,
  NONE,
  UseMembar,   \* flag: fence every transition
  Dynamic,     \* whether this instance starts and ends threads
  BufferSize   \* bound: pending stores in a store buffer

ASSUME SafepointAssumption ==
  /\ IsFiniteSet(JavaThread) /\ Initial \subseteq JavaThread
  /\ VMThread \notin JavaThread /\ NONE \notin JavaThread /\ NONE # VMThread
  /\ UseMembar \in BOOLEAN /\ Dynamic \in BOOLEAN
  /\ BufferSize \in Nat \ {0}

VARIABLES
  State,             \* _state
  waiting_to_block,  \* _waiting_to_block
  counter,           \* _safepoint_counter % 2
  PageArmed,
  Threads_lock,      \* its owner
  threads,           \* the thread list
  type,              \* ThreadSafepointState::_type
  has_called_back,   \* ThreadSafepointState::_has_called_back
  thread_state,      \* JavaThread::_thread_state, in memory
  buffer,            \* stores of thread_state that are not in memory yet
  vm,                \* where the VM thread is in begin() or end()
  pc,                \* where a Java thread is
  to,                \* local: the target of a transition ("in_vm" if unused)
  saved              \* local "state" of block() ("in_vm" if unused)

vmVars == <<State, waiting_to_block, counter, PageArmed, vm>>
typeVars == <<type, has_called_back>>
stateVars == <<thread_state, buffer>>
locals == <<pc, to, saved>>
vars == <<vmVars, Threads_lock, threads, typeVars, stateVars, locals>>

\* The transitional state (from + 1) of a state.
Trans == [new |-> "new_trans", in_native |-> "in_native_trans",
          in_vm |-> "in_vm_trans", blocked |-> "blocked_trans"]
JavaThreadState ==
  {"in_Java"} \cup DOMAIN Trans \cup {Trans[s] : s \in DOMAIN Trans}

TypeOK ==
  /\ State \in {"not_synchronized", "synchronizing", "synchronized"}
  /\ waiting_to_block \in 0..Cardinality(JavaThread)
  /\ counter \in {0, 1} /\ PageArmed \in BOOLEAN
  /\ Threads_lock \in JavaThread \cup {VMThread, NONE}
  /\ threads \subseteq JavaThread
  /\ type \in [JavaThread -> {"running", "at_safepoint", "call_back"}]
  /\ has_called_back \in [JavaThread -> BOOLEAN]
  /\ thread_state \in [JavaThread -> JavaThreadState]
  /\ buffer \in [JavaThread -> Seq(JavaThreadState)]
  /\ \A t \in JavaThread : Len(buffer[t]) <= BufferSize
  /\ vm \in {"out", "initiate", "serialize", "arm", "examine", "wait", "woken",
             "at_safepoint", "resume", "restart"}
  /\ pc \in [JavaThread -> {"none", "unstarted", "run", "check", "block",
                            "callback", "threadsLock", "leave", "start"}]
  /\ to \in [JavaThread -> JavaThreadState]
  /\ saved \in [JavaThread -> JavaThreadState]

Init ==
  /\ State = "not_synchronized" /\ waiting_to_block = 0 /\ counter = 0
  /\ PageArmed = FALSE /\ Threads_lock = NONE
  /\ threads = Initial
  /\ type = [t \in JavaThread |-> "running"]
  /\ has_called_back = [t \in JavaThread |-> FALSE]
  /\ thread_state =
       [t \in JavaThread |-> IF t \in Initial THEN "in_vm" ELSE "new"]
  /\ buffer = [t \in JavaThread |-> <<>>]
  /\ vm = "out"
  /\ pc = [t \in JavaThread |-> IF t \in Initial THEN "run" ELSE "none"]
  /\ to = [t \in JavaThread |-> "in_vm"]
  /\ saved = [t \in JavaThread |-> "in_vm"]

Goto(t, l) == pc' = [pc EXCEPT ![t] = l]
Step(t, l, m) == pc[t] = l /\ Goto(t, m)
VMStep(l, m) == vm = l /\ vm' = m

----------------------------------------------------------------------------
(* Store buffers.                                                          *)

\* What t itself reads.
thread_state_of(t) ==
  IF buffer[t] = <<>> THEN thread_state[t] ELSE buffer[t][Len(buffer[t])]

set_thread_state(t, s) ==
  /\ Len(buffer[t]) < BufferSize
  /\ buffer' = [buffer EXCEPT ![t] = Append(@, s)]
  /\ UNCHANGED thread_state

\* A store by a thread that orders it with a lock.
set_thread_state_locked(t, s) ==
  /\ buffer[t] = <<>>
  /\ thread_state' = [thread_state EXCEPT ![t] = s]
  /\ UNCHANGED buffer

Drain(t) ==
  /\ buffer[t] # <<>>
  /\ thread_state' = [thread_state EXCEPT ![t] = Head(buffer[t])]
  /\ buffer' = [buffer EXCEPT ![t] = Tail(@)]
  /\ UNCHANGED <<vmVars, Threads_lock, threads, typeVars, locals>>

----------------------------------------------------------------------------
(* Transitions of a Java thread.                                           *)

Runs(t, s) == pc[t] = "run" /\ thread_state_of(t) = s

\* transition_from_java(): there is no check.
transition_from_java(t, s) ==
  /\ Runs(t, "in_Java") /\ set_thread_state(t, s)
  /\ UNCHANGED <<vmVars, Threads_lock, threads, typeVars, locals>>

\* transition(), transition_and_fence(), transition_from_native(): announce
\* the change, ...
Announce(t, from, target) ==
  /\ Runs(t, from) /\ Goto(t, "check")
  /\ set_thread_state(t, Trans[from])
  /\ to' = [to EXCEPT ![t] = target]
  /\ UNCHANGED <<vmVars, threads, typeVars, saved>>

transition(t, from, target) ==
  /\ Threads_lock # t
  /\ Announce(t, from, target) /\ UNCHANGED Threads_lock

\* ... fence or write to the serialization page, look at _state, ...
Fenced(t) == UseMembar => buffer[t] = <<>>

do_call_back_AtSafepoint == State = "synchronized"
do_call_back == State # "not_synchronized"

CheckState(t) ==
  /\ Fenced(t)
  /\ Step(t, "check", IF do_call_back THEN "block" ELSE "leave")
  /\ UNCHANGED <<vmVars, Threads_lock, threads, typeVars, stateVars, to, saved>>

\* ... and go on, after block() without another look.
Leave(t) ==
  /\ Step(t, "leave", "run") /\ set_thread_state(t, to[t])
  /\ to' = [to EXCEPT ![t] = "in_vm"]
  /\ UNCHANGED <<vmVars, Threads_lock, threads, typeVars, saved>>

\* Compiled code reads the polling page, and faults.
Poll(t) ==
  /\ Runs(t, "in_Java") /\ PageArmed /\ Goto(t, "block")
  /\ UNCHANGED <<vmVars, Threads_lock, threads, typeVars, stateVars, to, saved>>

----------------------------------------------------------------------------
(* SafepointSynchronize::block().                                          *)

Calls_Back(s) == s \in {"in_vm_trans", "in_Java"}

\* From the VM or from Java, pretend to be in the VM; otherwise be blocked.
block(t) ==
  LET s == thread_state_of(t) IN
  /\ Step(t, "block", IF Calls_Back(s) THEN "callback" ELSE "threadsLock")
  /\ saved' = [saved EXCEPT ![t] = s]
  /\ set_thread_state(t, IF Calls_Back(s) THEN "in_vm" ELSE "blocked")
  /\ UNCHANGED <<vmVars, Threads_lock, threads, typeVars, to>>

\* The VM thread has the Safepoint_lock.
Safepoint_locked == vm \in {"serialize", "arm", "examine", "restart"}

\* With the Safepoint_lock: one thread less to wait for, and perhaps the last.
notify_all_Never == UNCHANGED vm
notify_all ==
  IF waiting_to_block' = 0 /\ vm = "wait" THEN vm' = "woken" ELSE UNCHANGED vm

CallBack(t) ==
  /\ Step(t, "callback", "threadsLock") /\ ~Safepoint_locked
  /\ IF State = "synchronizing"
       THEN /\ waiting_to_block' = waiting_to_block - 1
            /\ has_called_back' = [has_called_back EXCEPT ![t] = TRUE]
            /\ notify_all
       ELSE UNCHANGED <<waiting_to_block, has_called_back, vm>>
  /\ set_thread_state_locked(t, "blocked")
  /\ UNCHANGED <<State, counter, PageArmed, Threads_lock, threads, type, to,
                 saved>>

\* The threads line up for the Threads_lock, and restore their states.
Resume(t) ==
  /\ Threads_lock = NONE
  /\ Step(t, "threadsLock", IF saved[t] = "in_Java" THEN "run" ELSE "leave")
  /\ set_thread_state_locked(t, saved[t])
  /\ saved' = [saved EXCEPT ![t] = "in_vm"]
  /\ UNCHANGED <<vmVars, Threads_lock, threads, typeVars, to>>

----------------------------------------------------------------------------
(* Threads that come and go, under the Threads_lock.                       *)

\* Monitor::lock() without and with contention: a thread that had to block has
\* the lock already when it leaves the blocked state.
LockThreads(t) ==
  /\ Dynamic /\ Threads_lock = NONE /\ Runs(t, "in_vm") /\ buffer[t] = <<>>
  /\ Threads_lock' = t
  /\ UNCHANGED <<vmVars, threads, typeVars, stateVars, locals>>

LockThreadsBlocked(t) ==
  /\ Dynamic /\ Threads_lock = NONE
  /\ Announce(t, "blocked", "in_vm") /\ Threads_lock' = t

Owns(t) == Threads_lock = t /\ Runs(t, "in_vm") /\ buffer[t] = <<>>

\* JVM_StartThread(): Threads::add(), ...
add(t, u) ==
  /\ Owns(t) /\ u \notin threads /\ pc[u] = "none"
  /\ threads' = threads \cup {u} /\ Threads_lock' = NONE
  /\ thread_state' = [thread_state EXCEPT ![u] = "new"]
  /\ type' = [type EXCEPT ![u] = "running"]
  /\ has_called_back' = [has_called_back EXCEPT ![u] = FALSE]
  /\ pc' = [pc EXCEPT ![t] = "start", ![u] = "unstarted"]
  /\ UNCHANGED <<vmVars, buffer, to, saved>>

\* ... and then Thread::start(), without the lock.
Start(t, u) ==
  /\ pc[t] = "start" /\ pc[u] = "unstarted"
  /\ pc' = [pc EXCEPT ![t] = "run", ![u] = "run"]
  /\ UNCHANGED <<vmVars, Threads_lock, threads, typeVars, stateVars, to, saved>>

\* Threads::remove(): block() disregards the thread from now on.
remove(t) ==
  /\ Owns(t) /\ Goto(t, "none")
  /\ threads' = threads \ {t} /\ Threads_lock' = NONE
  /\ UNCHANGED <<vmVars, typeVars, stateVars, to, saved>>

----------------------------------------------------------------------------
(* SafepointSynchronize::begin().                                          *)

Threads_lock_lock_Skipped == UNCHANGED Threads_lock
Threads_lock_lock == Threads_lock = NONE /\ Threads_lock' = VMThread

TakeThreadsLock ==
  /\ VMStep("out", "initiate") /\ Threads_lock_lock
  /\ UNCHANGED <<State, waiting_to_block, counter, PageArmed, threads, typeVars,
                 stateVars, locals>>

number_of_threads == Cardinality(threads)

Initiate ==
  /\ VMStep("initiate", "serialize")
  /\ waiting_to_block' = number_of_threads
  /\ State' = "synchronizing"
  /\ UNCHANGED <<counter, PageArmed, Threads_lock, threads, typeVars, stateVars,
                 locals>>

\* os::serialize_thread_states(): every pending store is in memory now.
serialize_thread_states_Not == UNCHANGED stateVars
serialize_thread_states ==
  IF UseMembar THEN UNCHANGED stateVars
  ELSE /\ thread_state' = [t \in JavaThread |-> thread_state_of(t)]
       /\ buffer' = [t \in JavaThread |-> <<>>]

Serialize ==
  /\ VMStep("serialize", "arm") /\ serialize_thread_states
  /\ UNCHANGED <<State, waiting_to_block, counter, PageArmed, Threads_lock,
                 threads, typeVars, locals>>

Arm ==
  /\ VMStep("arm", "examine") /\ PageArmed' = TRUE
  /\ UNCHANGED <<State, waiting_to_block, counter, Threads_lock, threads, typeVars,
                 stateVars, locals>>

safepoint_safe(s) == s \in {"in_native", "blocked"}

\* roll_forward(): a thread that is at a safepoint is not waited for.
signal_thread_at_safepoint(s) ==
  IF safepoint_safe(s) THEN waiting_to_block - 1 ELSE waiting_to_block

\* examine_state_of_thread(); a thread in any other state keeps running, and
\* the loop comes back to it.
examine_state_of_thread(t) ==
  /\ vm = "examine" /\ t \in threads /\ type[t] = "running"
  /\ safepoint_safe(thread_state[t]) \/ thread_state[t] = "in_vm"
  /\ type' = [type EXCEPT ![t] = IF safepoint_safe(thread_state[t])
                                 THEN "at_safepoint" ELSE "call_back"]
  /\ waiting_to_block' = signal_thread_at_safepoint(thread_state[t])
  /\ has_called_back' =
       [has_called_back EXCEPT ![t] = safepoint_safe(thread_state[t]) /\ @]
  /\ UNCHANGED <<State, counter, PageArmed, vm, Threads_lock, threads, stateVars,
                 locals>>

Synchronized ==
  /\ vm' = "at_safepoint" /\ counter' = 1 - counter /\ State' = "synchronized"
  /\ UNCHANGED <<waiting_to_block, PageArmed, Threads_lock, threads, typeVars,
                 stateVars, locals>>

StillRunning_Ignored == FALSE
StillRunning == \E t \in threads : type[t] = "running"

\* No thread is running: wait for those that will call back.
EndSpin ==
  /\ vm = "examine" /\ ~StillRunning /\ waiting_to_block > 0
  /\ vm' = "wait"
  /\ UNCHANGED <<State, waiting_to_block, counter, PageArmed, Threads_lock, threads,
                 typeVars, stateVars, locals>>

Begun ==
  /\ vm = "woken" \/ (vm = "examine" /\ ~StillRunning)
  /\ waiting_to_block = 0
  /\ Synchronized

----------------------------------------------------------------------------
(* SafepointSynchronize::end().                                            *)

Disarm ==
  /\ VMStep("at_safepoint", "resume")
  /\ counter' = 1 - counter /\ PageArmed' = FALSE
  /\ UNCHANGED <<State, waiting_to_block, Threads_lock, threads, typeVars, stateVars,
                 locals>>

NotSynchronized ==
  /\ VMStep("resume", "restart") /\ State' = "not_synchronized"
  /\ UNCHANGED <<waiting_to_block, counter, PageArmed, Threads_lock, threads,
                 typeVars, stateVars, locals>>

\* restart() every thread, and drop both locks.
Threads_lock_unlock_Forgotten == UNCHANGED Threads_lock
Threads_lock_unlock == Threads_lock' = NONE

Restart ==
  /\ VMStep("restart", "out") /\ Threads_lock_unlock
  /\ type' = [t \in JavaThread |-> IF t \in threads THEN "running" ELSE type[t]]
  /\ has_called_back' =
       [t \in JavaThread |-> t \notin threads /\ has_called_back[t]]
  /\ UNCHANGED <<State, waiting_to_block, counter, PageArmed, threads, stateVars,
                 locals>>

----------------------------------------------------------------------------

LeaveVM(t) ==
  \E target \in {"in_Java", "in_native", "blocked"} :
    transition(t, "in_vm", target)

\* A thread that owns the Threads_lock, or has a thread to start.
Manage(t) == remove(t) \/ \E u \in JavaThread : add(t, u) \/ Start(t, u)

\* What a thread does in any case, and what it may do.
Oblige(t) ==
  \/ CheckState(t) \/ Leave(t) \/ block(t) \/ Poll(t) \/ Manage(t)
  \/ LeaveVM(t) \/ transition(t, "new", "in_vm")

Java(t) ==
  \/ Oblige(t) \/ CallBack(t) \/ Resume(t) \/ Drain(t)
  \/ transition_from_java(t, "in_vm") \/ transition_from_java(t, "in_native")
  \/ transition(t, "in_native", "in_vm")
  \/ transition(t, "in_native", "in_Java")
  \/ transition(t, "blocked", "in_vm")
  \/ LockThreads(t) \/ LockThreadsBlocked(t)

VM ==
  \/ Initiate \/ Serialize \/ Arm \/ EndSpin \/ Begun
  \/ Disarm \/ NotSynchronized \/ Restart
  \/ \E t \in threads : examine_state_of_thread(t)

Next == TakeThreadsLock \/ VM \/ \E t \in JavaThread : Java(t)

Spec == Init /\ [][Next]_vars

\* Code in the VM reaches a transition and Java code polls; stores drain; the
\* two locks serve everyone who waits for them (NativeMonitor's EveryoneServed).
FairSpec ==
  /\ Spec /\ WF_vars(VM)
  /\ \A t \in JavaThread :
       /\ WF_vars(Oblige(t)) /\ WF_vars(Drain(t))
       /\ SF_vars(CallBack(t)) /\ SF_vars(Resume(t))

----------------------------------------------------------------------------
(* Properties.                                                             *)

\* While the safepoint lasts no Java thread runs Java code or code of the VM,
\* and none can get there: each is in native code, blocked, about to look at
\* _state, or in line for the Threads_lock.
Stopped ==
  State = "synchronized" =>
    \A t \in threads :
      \/ pc[t] = "threadsLock"
      \/ Runs(t, "in_native") \/ Runs(t, "blocked")
      \/ /\ pc[t] \in {"check", "block"}
         /\ thread_state_of(t) \in {"in_native_trans", "blocked_trans"}

\* _waiting_to_block counts the threads that are still running or have to call
\* back, whichever of the VM thread and the threads themselves counts them down.
CountsAgree ==
  State = "synchronizing" =>
    waiting_to_block =
      Cardinality({t \in threads :
                     \/ type[t] = "running"
                     \/ type[t] = "call_back" /\ ~has_called_back[t]})

\* The assertions of block() and of the handler of the polling page: only a
\* thread that is waited for calls back; no thread blocks that should have
\* called back; a poll faults during synchronization only, in a running thread.
BlockAssertions ==
  \A t \in threads :
    /\ pc[t] = "callback" => State = "synchronizing" /\ ~has_called_back[t]
    /\ pc[t] = "block" =>
         IF thread_state_of(t) = "in_Java"
         THEN State = "synchronizing" /\ type[t] = "running"
         ELSE thread_state_of(t) # "in_vm_trans" => type[t] # "call_back"

\* A thread that owns the Threads_lock is never sent to block(), where it would
\* wait for that lock.
NoSelfDeadlock ==
  \A t \in JavaThread :
    Threads_lock = t => pc[t] \notin {"block", "callback", "threadsLock"}

\* A safepoint that is begun is reached.
SafepointReached == vm = "initiate" ~> State = "synchronized"

\* Every thread that was stopped goes on.
ThreadsResume ==
  \A t \in JavaThread : pc[t] = "threadsLock" ~> pc[t] # "threadsLock"

=============================================================================
