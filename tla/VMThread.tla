------------------------------ MODULE VMThread ------------------------------
(***************************************************************************)
(* VMThread and VMOperationQueue (runtime/vmThread.cpp): threads hand VM   *)
(* operations to the VM thread, which evaluates them one by one, those     *)
(* that ask for it at a safepoint; and the end of the VM thread.           *)
(*                                                                         *)
(* A safepoint is atomic here: begin() waits until no Java thread runs in  *)
(* the VM, and between begin() and end() no Java thread takes a step (what *)
(* module Safepoint shows).  The threads that are not Java threads (the    *)
(* watcher, concurrent collectors) are not stopped.  VMOperationQueue_lock *)
(* and VMOperationRequest_lock are held for one action at a time.          *)
(* A thread has one ticket at a time, so its counts of started and of      *)
(* completed operations matter by their difference only.                   *)
(***************************************************************************)
EXTENDS Naturals, Sequences, Functions

CONSTANTS
  JavaThread,         \* threads that call execute(), and stop at safepoints
  OtherThread,        \* threads that call execute(), and do not stop
  Op,                 \* the addresses of VM_Operations
  Modes,              \* the evaluation modes that this instance uses
  NULL,
  StarvationLimit,    \* how often the high priority goes first (10)
  MaxOtherCalls,      \* bound: how often an OtherThread calls before it pauses
  TraceLongCompiles,  \* flag
  Exits               \* whether the VM ends in this instance

Caller == JavaThread \cup OtherThread
Mode == {"safepoint", "no_safepoint", "concurrent", "async_safepoint"}

ASSUME VMThreadAssumption ==
  /\ NULL \notin Op /\ JavaThread \cap OtherThread = {}
  /\ Modes \subseteq Mode /\ StarvationLimit \in Nat
  /\ MaxOtherCalls \in Nat
  /\ TraceLongCompiles \in BOOLEAN /\ Exits \in BOOLEAN

VARIABLES
  queue,            \* _queue, by priority
  queue_counter,    \* _queue_counter
  drain_list,       \* _drain_list
  safepoint_ops,    \* local of loop()
  cur,              \* _cur_vm_operation
  vm,               \* where the VM thread is
  at_safepoint,
  mode,             \* VM_Operation::evaluation_mode()
  calling_thread,   \* VM_Operation::_calling_thread
  live,             \* the operations whose memory is not deallocated
  outstanding,      \* _vm_operation_started_count - _vm_operation_completed_count
  pc, op,           \* a caller: where it is in execute(), and its operation
  calls,            \* how often an OtherThread has called
  dpc,              \* where the thread is that ends the VM
  should_terminate, terminated

queueVars == <<queue, queue_counter, drain_list, safepoint_ops>>
vmVars == <<cur, vm, at_safepoint>>
opVars == <<mode, calling_thread, live, outstanding>>
callerVars == <<pc, op, calls>>
exitVars == <<dpc, should_terminate, terminated>>
vars == <<queueVars, vmVars, opVars, callerVars, exitVars>>

Priority == {"safepoint", "medium"}

TypeOK ==
  /\ queue \in [Priority -> Seq(Op)] /\ queue_counter \in 0..StarvationLimit
  /\ drain_list \in Seq(Op) /\ safepoint_ops \in Seq(Op)
  /\ cur \in Op \cup {NULL}
  /\ vm \in {"look", "wait", "woken", "timedOut", "begin", "evaluate",
             "complete", "next", "peek", "end", "trace", "notify", "interval",
             "idleSafepoint", "nestedSafepoint", "lastSafepoint", "exit",
             "terminate", "gone"}
  /\ at_safepoint \in BOOLEAN
  /\ mode \in [Op -> Mode] /\ calling_thread \in [Op -> Caller \cup {NULL}]
  /\ live \subseteq Op
  /\ outstanding \in [Caller -> {0, 1}]
  /\ pc \in [Caller -> {"idle", "enqueue", "test", "wait", "return"}]
  /\ op \in [Caller -> Op \cup {NULL}]
  /\ calls \in [OtherThread -> 0..MaxOtherCalls]
  /\ dpc \in {"run", "lock", "test", "unowned", "waiting", "done"}
  /\ should_terminate \in BOOLEAN /\ terminated \in BOOLEAN

Init ==
  /\ queue = [p \in Priority |-> <<>>] /\ queue_counter = 0
  /\ drain_list = <<>> /\ safepoint_ops = <<>> /\ cur = NULL
  /\ vm = "look" /\ at_safepoint = FALSE
  /\ mode = [o \in Op |-> "safepoint"]
  /\ calling_thread = [o \in Op |-> NULL] /\ live = {}
  /\ outstanding = [c \in Caller |-> 0]
  /\ pc = [c \in Caller |-> "idle"] /\ op = [c \in Caller |-> NULL]
  /\ calls = [c \in OtherThread |-> 0]
  /\ dpc = "run" /\ should_terminate = FALSE /\ terminated = FALSE

evaluate_at_safepoint(o) == mode[o] \in {"safepoint", "async_safepoint"}
evaluate_concurrently(o) == mode[o] \in {"concurrent", "async_safepoint"}

Goto(c, l) == pc' = [pc EXCEPT ![c] = l]
VMStep(l, m) == vm = l /\ vm' = m

\* A Java thread takes no step at a safepoint.
CallerStep(c, l, m) ==
  /\ pc[c] = l /\ Goto(c, m)
  /\ c \in JavaThread => ~at_safepoint

\* notify() on the VMOperationQueue_lock.
notify == vm' = IF vm = "wait" THEN "woken" ELSE vm

----------------------------------------------------------------------------
(* execute(), called by a thread other than the VM thread.                 *)

\* Set the operation up; one that is not concurrent gets a ticket.
vm_operation_ticket(c) == outstanding[c] + 1

\* The memory of an operation is given back; what it held does not matter.
Deallocate(o) ==
  /\ live' = live \ {o} /\ mode' = [mode EXCEPT ![o] = "safepoint"]
  /\ calling_thread' = [calling_thread EXCEPT ![o] = NULL]

execute(c, o, m) ==
  /\ CallerStep(c, "idle", "enqueue") /\ o \notin live
  /\ op' = [op EXCEPT ![c] = o] /\ live' = live \cup {o}
  /\ mode' = [mode EXCEPT ![o] = m]
  /\ calling_thread' = [calling_thread EXCEPT ![o] = c]
  /\ outstanding' = IF m \in {"concurrent", "async_safepoint"} THEN outstanding
                    ELSE [outstanding EXCEPT ![c] = vm_operation_ticket(c)]
  /\ \/ c \in JavaThread /\ UNCHANGED calls
     \/ /\ c \in OtherThread /\ calls[c] < MaxOtherCalls
        /\ calls' = [calls EXCEPT ![c] = @ + 1]
  /\ UNCHANGED <<queueVars, vmVars, exitVars>>

\* With the VMOperationQueue_lock: put it on the right list, and notify.
add(c) ==
  LET o == op[c]
      prio == IF evaluate_at_safepoint(o) THEN "safepoint" ELSE "medium" IN
  /\ CallerStep(c, "enqueue", IF evaluate_concurrently(o) THEN "idle" ELSE "test")
  /\ queue' = [queue EXCEPT ![prio] = Append(@, o)]
  /\ notify
  /\ op' = [op EXCEPT ![c] = IF evaluate_concurrently(o) THEN NULL ELSE o]
  /\ UNCHANGED <<queue_counter, drain_list, safepoint_ops, cur, at_safepoint,
                 opVars, calls, exitVars>>

\* With the VMOperationRequest_lock: wait until the ticket is completed.
MustWait_Never(c) == FALSE
MustWait(c) == outstanding[c] > 0

WaitForCompletion(c) ==
  /\ CallerStep(c, "test", IF MustWait(c) THEN "wait" ELSE "return")
  /\ UNCHANGED <<queueVars, vmVars, opVars, op, calls, exitVars>>

\* The epilogue; then the caller deallocates its operation.
Return(c) ==
  /\ CallerStep(c, "return", "idle")
  /\ Deallocate(op[c]) /\ op' = [op EXCEPT ![c] = NULL]
  /\ UNCHANGED <<queueVars, vmVars, outstanding, calls, exitVars>>

----------------------------------------------------------------------------
(* loop().                                                                 *)

\* remove_next(): the other priority has its turn now and then.
SafepointFirst_Always == TRUE
SafepointFirst == queue_counter < StarvationLimit

NextPriority ==
  LET high == IF SafepointFirst THEN "safepoint" ELSE "medium"
      low == IF SafepointFirst THEN "medium" ELSE "safepoint"
  IN  IF queue[high] = <<>> THEN low ELSE high

remove_next ==
  /\ queue_counter' = IF queue_counter < StarvationLimit
                      THEN queue_counter + 1 ELSE 0
  /\ cur' = IF queue[NextPriority] = <<>> THEN NULL ELSE Head(queue[NextPriority])

Rest == IF queue[NextPriority] = <<>> THEN queue
        ELSE [queue EXCEPT ![NextPriority] = Tail(@)]

\* queue_drain() at safepoint priority.
Drained_Kept(q) == q
Drained(q) == [q EXCEPT !["safepoint"] = <<>>]

\* Leave the loop, wait, or execute the operation.
GoOn ==
  vm' = CASE should_terminate -> "exit"
          [] ~should_terminate /\ cur' = NULL -> "wait"
          [] OTHER -> IF evaluate_at_safepoint(cur') THEN "begin" ELSE "evaluate"

\* With the VMOperationQueue_lock: the first look, ...
Look ==
  /\ vm = "look" /\ remove_next /\ queue' = Rest /\ GoOn
  /\ safepoint_ops' = <<>>
  /\ UNCHANGED <<drain_list, at_safepoint, opVars, callerVars, exitVars>>

\* ... and another after the wait, which may take all safepoint operations.
LookAgain ==
  /\ vm \in {"woken", "timedOut"} /\ remove_next /\ GoOn
  /\ IF cur' # NULL /\ evaluate_at_safepoint(cur')
       THEN /\ safepoint_ops' = Rest["safepoint"]
            /\ queue' = Drained(Rest)
       ELSE queue' = Rest /\ UNCHANGED safepoint_ops
  /\ UNCHANGED <<drain_list, at_safepoint, opVars, callerVars, exitVars>>

TimeOut ==
  /\ VMStep("wait", "timedOut")
  /\ UNCHANGED <<queueVars, cur, at_safepoint, opVars, callerVars, exitVars>>

\* SafepointSynchronize::begin() waits for the Java threads in the VM.
begin(l, m) ==
  /\ VMStep(l, m) /\ ~at_safepoint /\ at_safepoint' = TRUE
  /\ \A c \in JavaThread : pc[c] # "enqueue"
  /\ UNCHANGED <<queue, queue_counter, safepoint_ops, cur, opVars, callerVars,
                 exitVars>>

end(l, m) ==
  /\ VMStep(l, m) /\ at_safepoint' = FALSE
  /\ UNCHANGED <<queueVars, cur, opVars, callerVars, exitVars>>

\* Safepoints for their own sake, and for an operation that nests another.
ExtraBegin ==
  /\ \/ begin("timedOut", "idleSafepoint") \/ begin("interval", "lastSafepoint")
     \/ begin("evaluate", "nestedSafepoint")
  /\ UNCHANGED drain_list

ExtraEnd ==
  \/ end("idleSafepoint", "woken") \/ end("lastSafepoint", "look")
  \/ end("nestedSafepoint", "complete")

\* set_drain_list() lets a collection find the operations that loop() took.
Registered_Not(list) == drain_list
Registered(list) == list

Begin == begin("begin", "evaluate") /\ drain_list' = Registered(safepoint_ops)

\* evaluate_operation(): evaluate, and then mark as completed.
evaluate ==
  /\ VMStep("evaluate", "complete")
  /\ UNCHANGED <<queueVars, cur, at_safepoint, opVars, callerVars, exitVars>>

Complete ==
  LET c == calling_thread[cur] IN
  /\ VMStep("complete", IF evaluate_at_safepoint(cur) THEN "next" ELSE "trace")
  /\ IF evaluate_concurrently(cur)
       THEN Deallocate(cur) /\ UNCHANGED outstanding
       ELSE /\ outstanding' = [outstanding EXCEPT ![c] = @ - 1]
            /\ UNCHANGED <<live, mode, calling_thread>>
  /\ UNCHANGED <<queueVars, cur, at_safepoint, callerVars, exitVars>>

\* The operations that loop() took: each one's link is read first.
Next_op ==
  /\ vm = "next"
  /\ IF safepoint_ops = <<>>
       THEN /\ cur' = NULL /\ vm' = "peek"
            /\ UNCHANGED <<safepoint_ops, drain_list>>
       ELSE /\ cur' = Head(safepoint_ops) /\ vm' = "evaluate"
            /\ safepoint_ops' = Tail(safepoint_ops)
            /\ drain_list' = Registered(Tail(safepoint_ops))
  /\ UNCHANGED <<queue, queue_counter, at_safepoint, opVars, callerVars, exitVars>>

\* Operations that were added meanwhile are taken too.
Peek ==
  /\ vm = "peek"
  /\ IF queue["safepoint"] = <<>>
       THEN vm' = "end" /\ drain_list' = <<>> /\ UNCHANGED <<queue, safepoint_ops>>
       ELSE /\ vm' = "next" /\ safepoint_ops' = queue["safepoint"]
            /\ queue' = Drained(queue)
            /\ UNCHANGED drain_list
  /\ UNCHANGED <<queue_counter, cur, at_safepoint, opVars, callerVars, exitVars>>

\* After an operation without safepoint, TraceLongCompiles reads its name.
Trace ==
  /\ VMStep("trace", "notify") /\ cur' = NULL
  /\ UNCHANGED <<queueVars, at_safepoint, opVars, callerVars, exitVars>>

\* With the VMOperationRequest_lock: wake all who wait for an operation.
Notified(c) == pc[c] = "wait"

notify_all ==
  /\ VMStep("notify", "interval")
  /\ pc' = [c \in Caller |-> IF Notified(c) THEN "test" ELSE pc[c]]
  /\ UNCHANGED <<queueVars, cur, at_safepoint, opVars, op, calls, exitVars>>

\* No safepoint is due.
Again ==
  /\ VMStep("interval", "look")
  /\ UNCHANGED <<queueVars, cur, at_safepoint, opVars, callerVars, exitVars>>

----------------------------------------------------------------------------
(* The end of the VM thread.                                               *)

\* wait_for_vm_thread_exit(): with the VMOperationQueue_lock, ...
wait_for_vm_thread_exit ==
  /\ Exits /\ dpc = "run" /\ dpc' = "lock"
  /\ should_terminate' = TRUE /\ notify
  /\ UNCHANGED <<queueVars, cur, at_safepoint, opVars, callerVars, terminated>>

\* ... and then with the _terminate_lock.  wait() unsets the owner of the lock
\* before it drops the lock.
WaitUntilTerminated ==
  /\ dpc' = CASE dpc = "lock" -> "test"
              [] dpc = "test" -> IF terminated THEN "done" ELSE "unowned"
              [] dpc = "unowned" -> "waiting"
              [] OTHER -> dpc
  /\ dpc \in {"lock", "test", "unowned"}
  /\ UNCHANGED <<queueVars, vmVars, opVars, callerVars, should_terminate,
                 terminated>>

\* run(): the VM thread ends at a safepoint that nobody ends, ...
Exit == begin("exit", "terminate") /\ UNCHANGED drain_list

\* ... and tells so, with the _terminate_lock; it does not sneak.
MayLock_Sneaking == dpc # "test"
MayLock == dpc \notin {"test", "unowned"}

Terminate ==
  /\ VMStep("terminate", "gone") /\ MayLock
  /\ terminated' = TRUE
  /\ dpc' = IF dpc = "waiting" THEN "lock" ELSE dpc
  /\ UNCHANGED <<queueVars, cur, at_safepoint, opVars, callerVars,
                 should_terminate>>

----------------------------------------------------------------------------

Waiting(c) == add(c) \/ WaitForCompletion(c) \/ Return(c)

Synchronizes == Begin \/ ExtraBegin \/ Exit

Loops ==
  \/ Look \/ LookAgain \/ TimeOut \/ evaluate \/ Complete \/ Next_op \/ Peek
  \/ end("end", "notify") \/ Trace \/ notify_all \/ Again \/ ExtraEnd
  \/ Terminate

Next ==
  \/ Synchronizes \/ Loops \/ wait_for_vm_thread_exit \/ WaitUntilTerminated
  \/ \E c \in Caller :
       Waiting(c) \/ \E o \in Op, m \in Modes : execute(c, o, m)

Spec == Init /\ [][Next]_vars

\* The VM thread goes on, safepoints are reached and stopped threads resumed
\* (Safepoint's SafepointReached and ThreadsResume); nobody has to call.
FairSpec ==
  /\ Spec /\ WF_vars(Loops) /\ SF_vars(Begin) /\ SF_vars(Exit)
  /\ WF_vars(WaitUntilTerminated)
  /\ \A c \in Caller : SF_vars(Waiting(c))

----------------------------------------------------------------------------
(* Properties.                                                             *)

Pending(p) == Range(queue[p])

\* The VM thread touches no operation that its caller may have deallocated: not
\* the current one, nor one that is linked into a list ("It is unsafe to access
\* the _cur_vm_operation after the 'increment_vm_operation_completed_count'").
NoUseAfterFree ==
  /\ vm \in {"begin", "evaluate", "nestedSafepoint", "complete"} => cur \in live
  /\ vm = "trace" /\ TraceLongCompiles => cur \in live
  /\ Range(safepoint_ops) \cup Range(drain_list) \subseteq live
  /\ Pending("safepoint") \cup Pending("medium") \subseteq live

\* A collection that an operation performs finds every other operation that
\* waits to be evaluated, on a queue or on the drain list (oops_do()).
AllScanned ==
  vm \in {"evaluate", "nestedSafepoint"} =>
    Range(safepoint_ops) \subseteq Range(drain_list)

\* Every operation that the VM thread has still to evaluate.
ToEvaluate == Range(safepoint_ops) \cup UNION {Pending(p) : p \in Priority}

\* Operations that ask for a safepoint are evaluated at one.  None is evaluated twice
\* for one call: the one that is being evaluated is on no list, and whoever leaves
\* execute() has had its operation evaluated, which is nowhere in the VM thread's hands.
EvaluatedOnce ==
  /\ vm \in {"evaluate", "complete"} /\ evaluate_at_safepoint(cur) => at_safepoint
  /\ vm \in {"begin", "evaluate", "complete"} => cur \notin ToEvaluate
  /\ \A c \in Caller :
       pc[c] = "return" =>
         /\ op[c] \notin ToEvaluate
         /\ vm \in {"begin", "evaluate", "complete"} => cur # op[c]

\* Whoever waits for an operation gets it, and an operation that nobody waits for
\* is evaluated as well, whatever its priority, unless the VM ends first.
EveryoneServed ==
  /\ \A c \in Caller : pc[c] = "test" ~> (pc[c] = "idle" \/ should_terminate)
  /\ \A o \in Op : o \in Pending("medium") ~> (cur = o \/ should_terminate)

\* Whoever ends the VM learns that the VM thread is gone ("the notification
\* below may get lost and we will have a hang").
ExitIsSeen == should_terminate ~> dpc = "done"

=============================================================================
