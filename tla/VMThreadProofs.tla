--------------------------- MODULE VMThreadProofs ---------------------------
(***************************************************************************)
(* The safety of VMThread: no operation is lost track of while its memory  *)
(* lives, for any threads, operations and modes.                           *)
(*                                                                         *)
(* The inductive invariant says of every operation where it is: with its   *)
(* caller before add(), in one place of one list, or in the VM thread's    *)
(* hands; and ties the caller's ticket to it (HandedInv, CallerInv).       *)
(***************************************************************************)
EXTENDS VMThread, TLAPS

\* Zenon proves most leaves; those that say so are left to SMT.
USE ZenonT(40)

\* The VM thread works on cur.
Active == {"begin", "evaluate", "nestedSafepoint", "complete"}

\* o is on a list, or in the VM thread's hands.
Queued(o) ==
  o \in Range(queue["safepoint"]) \/ o \in Range(queue["medium"])
    \/ o \in Range(safepoint_ops)
Handed(o) == Queued(o) \/ (vm \in Active /\ cur = o)

\* No operation is in two places.
ListInv ==
  /\ IsInjective(queue["safepoint"]) /\ IsInjective(queue["medium"])
  /\ IsInjective(safepoint_ops)
  /\ Range(queue["safepoint"]) \cap Range(queue["medium"]) = {}
  /\ Range(queue["safepoint"]) \cap Range(safepoint_ops) = {}
  /\ Range(queue["medium"]) \cap Range(safepoint_ops) = {}
  /\ vm \in Active => cur \in Op /\ ~Queued(cur)

\* An operation that the VM thread has is alive, and if it is not concurrent its
\* caller waits with a ticket.
HandedInv ==
  \A o \in Op : Handed(o) =>
    /\ o \in live /\ calling_thread[o] \in Caller
    /\ ~evaluate_concurrently(o) =>
         /\ op[calling_thread[o]] = o /\ pc[calling_thread[o]] \in {"test", "wait"}
         /\ outstanding[calling_thread[o]] = 1

\* A caller's operation is its own until it is deallocated; add() hands it over.
CallerInv(c) ==
  /\ pc[c] = "idle" => op[c] = NULL /\ outstanding[c] = 0
  /\ pc[c] # "idle" => op[c] \in live /\ calling_thread[op[c]] = c
  /\ pc[c] = "enqueue" =>
       /\ ~Handed(op[c])
       /\ outstanding[c] = IF evaluate_concurrently(op[c]) THEN 0 ELSE 1
  /\ pc[c] \in {"test", "wait", "return"} => ~evaluate_concurrently(op[c])
  /\ pc[c] = "return" => outstanding[c] = 0

\* The priorities are kept apart.
ModeInv ==
  \A o \in Op :
    /\ o \in Range(queue["safepoint"]) \/ o \in Range(safepoint_ops) =>
         evaluate_at_safepoint(o)
    /\ o \in Range(queue["medium"]) => ~evaluate_at_safepoint(o)

\* Between two rounds the VM thread has no operations in its hands.
Between == {"look", "wait", "woken", "timedOut", "peek", "end", "trace", "notify",
            "interval", "idleSafepoint", "lastSafepoint"}

\* The drain list is what loop() took, or nothing; what needs a safepoint has one.
LoopInv ==
  /\ vm \in Between => safepoint_ops = <<>>
  /\ drain_list = <<>> \/ drain_list = safepoint_ops
  /\ vm \in {"evaluate", "nestedSafepoint", "complete"} =>
       /\ drain_list = safepoint_ops
       /\ ~evaluate_at_safepoint(cur) => safepoint_ops = <<>>
  /\ vm = "begin" => evaluate_at_safepoint(cur)
  /\ vm \in {"evaluate", "complete"} /\ evaluate_at_safepoint(cur) => at_safepoint
  /\ vm = "nestedSafepoint" => ~evaluate_at_safepoint(cur)
  /\ vm \in {"next", "peek"} => at_safepoint

Inv ==
  /\ TypeOK /\ ListInv /\ HandedInv /\ ModeInv /\ LoopInv
  /\ \A c \in Caller : CallerInv(c)

----------------------------------------------------------------------------
(* Lists.                                                                  *)

\* The empty list.
LEMMA EmptyList == Range(<<>>) = {} /\ IsInjective(<<>>)
BY SMT DEF Range, IsInjective

\* add() at the end of a list.
LEMMA AppendFacts ==
  ASSUME NEW S, NEW s \in Seq(S), NEW x \in S
  PROVE  /\ Append(s, x) \in Seq(S)
         /\ Range(Append(s, x)) = Range(s) \cup {x}
         /\ IsInjective(s) /\ x \notin Range(s) => IsInjective(Append(s, x))
<1>. DEFINE r == Append(s, x)
<1>1. /\ r \in Seq(S) /\ DOMAIN s = 1..Len(s) /\ DOMAIN r = 1..(Len(s) + 1)
      /\ Len(s) \in Nat /\ r[Len(s) + 1] = x /\ \A i \in 1..Len(s) : r[i] = s[i]
  BY SMT
<1>. HIDE DEF r
<1>2. \A i \in DOMAIN r : i \in DOMAIN s \/ i = Len(s) + 1
  BY SMT, <1>1
<1>3. Range(r) = Range(s) \cup {x}
  <2>1. \A y \in Range(r) : y \in Range(s) \cup {x}
    BY <1>1, <1>2 DEF Range
  <2>2. \A y \in Range(s) : y \in Range(r)
    BY SMT, <1>1 DEF Range
  <2>3. x \in Range(r)
    BY SMT, <1>1 DEF Range
  <2>. QED
    BY <2>1, <2>2, <2>3
<1>4. ASSUME IsInjective(s), x \notin Range(s) PROVE IsInjective(r)
  <2>1. \A i \in DOMAIN s : s[i] # x
    BY <1>4 DEF Range
  <2>. QED
    BY <1>1, <1>2, <1>4, <2>1 DEF IsInjective
<1>. QED
  BY <1>1, <1>3, <1>4 DEF r

\* Removal of the first element.
LEMMA TailFacts ==
  ASSUME NEW S, NEW s \in Seq(S), s # <<>>
  PROVE  /\ Head(s) \in S /\ Tail(s) \in Seq(S)
         /\ Range(s) = {Head(s)} \cup Range(Tail(s))
         /\ IsInjective(s) => IsInjective(Tail(s)) /\ Head(s) \notin Range(Tail(s))
<1>. DEFINE r == Tail(s)
            h == Head(s)
<1>1. /\ h \in S /\ r \in Seq(S) /\ Len(s) \in Nat /\ Len(s) > 0
      /\ DOMAIN s = 1..Len(s) /\ DOMAIN r = 1..(Len(s) - 1)
      /\ h = s[1] /\ \A i \in 1..(Len(s) - 1) : r[i] = s[i + 1]
  BY SMT
<1>. HIDE DEF r, h
<1>2. \A i \in DOMAIN s : i = 1 \/ (i - 1 \in DOMAIN r /\ s[i] = r[i - 1])
  BY SMT, <1>1
<1>3. \A i \in DOMAIN r : i + 1 \in DOMAIN s /\ r[i] = s[i + 1] /\ i + 1 # 1
  BY SMT, <1>1
<1>4. Range(s) = {h} \cup Range(r)
  <2>1. \A y \in Range(s) : y \in {h} \cup Range(r)
    BY SMT, <1>1, <1>2 DEF Range
  <2>2. \A y \in Range(r) : y \in Range(s)
    BY <1>3 DEF Range
  <2>3. h \in Range(s)
    BY SMT, <1>1 DEF Range
  <2>. QED
    BY <2>1, <2>2, <2>3
<1>5. ASSUME IsInjective(s) PROVE IsInjective(r) /\ h \notin Range(r)
  <2>1. IsInjective(r)
    BY SMT, <1>1, <1>3, <1>5 DEF IsInjective
  <2>2. ASSUME h \in Range(r) PROVE FALSE
    <3>1. PICK i \in DOMAIN r : r[i] = h
      BY <2>2 DEF Range
    <3>2. 1 \in DOMAIN s /\ s[1] = s[i + 1]
      BY SMT, <1>1, <1>3, <3>1
    <3>. QED
      BY <1>3, <1>5, <3>2 DEF IsInjective
  <2>. QED
    BY <2>1, <2>2
<1>. QED
  BY <1>1, <1>4, <1>5 DEF r, h

\* The elements of a list of operations are operations.
LEMMA RangeIn ==
  ASSUME NEW S, NEW s \in Seq(S)
  PROVE  Range(s) \subseteq S
BY SMT DEF Range

----------------------------------------------------------------------------
(* Frames.                                                                 *)

\* What a step of the VM thread or of the one who ends the VM leaves alone.
CallersAlone == UNCHANGED <<mode, calling_thread, live, outstanding, pc, op>>

\* A step that moves operations from one list to another, or drops one.
LEMMA ListStep ==
  ASSUME Inv, CallersAlone, TypeOK', ListInv', ModeInv', LoopInv',
         \A o \in Op : Handed(o)' => Handed(o)
  PROVE  Inv'
<1>1. HandedInv'
  BY DEF Inv, HandedInv, CallersAlone, evaluate_concurrently
<1>2. ASSUME NEW c \in Caller PROVE CallerInv(c)'
  <2>1. CallerInv(c) /\ op[c] \in Op \cup {NULL} /\ live \subseteq Op
    BY DEF Inv, TypeOK
  <2>2. (pc[c] = "enqueue" => ~Handed(op[c]))'
    <3>. SUFFICES ASSUME pc'[c] = "enqueue" PROVE ~Handed(op[c])'
      OBVIOUS
    <3>1. op' = op /\ pc' = pc
      BY DEF CallersAlone
    <3>2. PICK o \in Op : o = op[c] /\ ~Handed(o)
      BY <2>1, <3>1 DEF CallerInv
    <3>. QED
      BY <3>1, <3>2 DEF Handed, Queued
  <2>. QED
    BY <2>1, <2>2 DEF CallerInv, CallersAlone, evaluate_concurrently
<1>. QED
  BY <1>1, <1>2 DEF Inv

\* A step that leaves the lists alone and takes nothing in hand.
LEMMA PlainStep ==
  ASSUME Inv, CallersAlone, TypeOK', LoopInv', UNCHANGED <<queue, safepoint_ops>>,
         vm' \in Active => vm \in Active /\ cur' = cur
  PROVE  Inv'
<1>1. ListInv'
  BY DEF Inv, ListInv, Queued
<1>2. ModeInv'
  BY DEF Inv, ModeInv, CallersAlone, evaluate_at_safepoint
<1>3. \A o \in Op : Handed(o)' => Handed(o)
  BY DEF Handed, Queued
<1>. QED
  BY <1>1, <1>2, <1>3, ListStep

----------------------------------------------------------------------------
(* The steps that only move the VM thread, or the one who ends the VM.     *)

LEMMA InitInv == Init => Inv
<1>. SUFFICES ASSUME Init PROVE Inv
  OBVIOUS
<1>1. TypeOK
  <2>1. <<>> \in Seq(Op) /\ 0 \in 0..StarvationLimit /\ 0 \in 0..MaxOtherCalls
    BY SMT, VMThreadAssumption
  <2>2. queue \in [Priority -> Seq(Op)]
    BY <2>1 DEF Init
  <2>. QED
    BY <2>1, <2>2 DEF Init, TypeOK, Mode
<1>2. \A o : ~Queued(o)
  BY EmptyList DEF Init, Queued, Priority
<1>3. vm \notin Active
  BY DEF Init, Active
<1>4. ListInv /\ ModeInv
  BY <1>2, <1>3, EmptyList DEF Init, ListInv, ModeInv, Queued, Priority
<1>5. HandedInv
  BY <1>2, <1>3 DEF HandedInv, Handed
<1>6. LoopInv
  BY DEF Init, LoopInv
<1>7. \A c \in Caller : CallerInv(c)
  BY DEF Init, CallerInv
<1>. QED
  BY <1>1, <1>4, <1>5, <1>6, <1>7 DEF Inv

LEMMA TimeOutInv == Inv /\ TimeOut => Inv'
<1>. SUFFICES ASSUME Inv, TimeOut PROVE Inv'
  OBVIOUS
<1>1. TypeOK'
  BY DEF Inv, TypeOK, TimeOut, VMStep, queueVars, opVars, callerVars, exitVars
<1>2. LoopInv'
  BY DEF Inv, LoopInv, Between, TimeOut, VMStep, queueVars
<1>. QED
  BY <1>1, <1>2, PlainStep
     DEF TimeOut, VMStep, Active, CallersAlone, queueVars, opVars, callerVars

LEMMA evaluateInv == Inv /\ evaluate => Inv'
<1>. SUFFICES ASSUME Inv, evaluate PROVE Inv'
  OBVIOUS
<1>1. TypeOK'
  BY DEF Inv, TypeOK, evaluate, VMStep, queueVars, opVars, callerVars, exitVars
<1>2. LoopInv'
  BY DEF Inv, LoopInv, Between, evaluate, VMStep, queueVars, opVars,
         evaluate_at_safepoint
<1>. QED
  BY <1>1, <1>2, PlainStep
     DEF evaluate, VMStep, Active, CallersAlone, queueVars, opVars, callerVars

LEMMA TraceInv == Inv /\ Trace => Inv'
<1>. SUFFICES ASSUME Inv, Trace PROVE Inv'
  OBVIOUS
<1>1. TypeOK'
  BY DEF Inv, TypeOK, Trace, VMStep, queueVars, opVars, callerVars, exitVars
<1>2. LoopInv'
  BY DEF Inv, LoopInv, Between, Trace, VMStep, queueVars
<1>. QED
  BY <1>1, <1>2, PlainStep
     DEF Trace, VMStep, Active, CallersAlone, queueVars, opVars, callerVars

LEMMA AgainInv == Inv /\ Again => Inv'
<1>. SUFFICES ASSUME Inv, Again PROVE Inv'
  OBVIOUS
<1>1. TypeOK'
  BY DEF Inv, TypeOK, Again, VMStep, queueVars, opVars, callerVars, exitVars
<1>2. LoopInv'
  BY DEF Inv, LoopInv, Between, Again, VMStep, queueVars
<1>. QED
  BY <1>1, <1>2, PlainStep
     DEF Again, VMStep, Active, CallersAlone, queueVars, opVars, callerVars

LEMMA endInv ==
  ASSUME NEW l, NEW m, Inv, end(l, m),
         <<l, m>> \in {<<"end", "notify">>, <<"idleSafepoint", "woken">>,
                      <<"lastSafepoint", "look">>, <<"nestedSafepoint", "complete">>}
  PROVE  Inv'
<1>1. TypeOK'
  BY DEF Inv, TypeOK, end, VMStep, queueVars, opVars, callerVars, exitVars
<1>2. LoopInv'
  BY DEF Inv, LoopInv, Between, end, VMStep, queueVars, opVars,
         evaluate_at_safepoint
<1>. QED
  BY <1>1, <1>2, PlainStep
     DEF end, VMStep, Active, CallersAlone, queueVars, opVars, callerVars

LEMMA ExtraBeginInv == Inv /\ (ExtraBegin \/ Exit) => Inv'
<1>. SUFFICES ASSUME Inv, NEW l, NEW m, begin(l, m), UNCHANGED drain_list,
                     <<l, m>> \in {<<"timedOut", "idleSafepoint">>,
                                  <<"interval", "lastSafepoint">>,
                                  <<"evaluate", "nestedSafepoint">>,
                                  <<"exit", "terminate">>}
              PROVE  Inv'
  BY DEF ExtraBegin, Exit
<1>1. TypeOK'
  BY DEF Inv, TypeOK, begin, VMStep, opVars, callerVars, exitVars
<1>2. LoopInv'
  BY DEF Inv, LoopInv, Between, begin, VMStep, opVars, evaluate_at_safepoint
<1>. QED
  BY <1>1, <1>2, PlainStep
     DEF begin, VMStep, Active, CallersAlone, opVars, callerVars

LEMMA BeginInv == Inv /\ Begin => Inv'
<1>. SUFFICES ASSUME Inv, Begin PROVE Inv'
  OBVIOUS
<1>1. TypeOK'
  BY DEF Inv, TypeOK, Begin, Registered, begin, VMStep, opVars, callerVars, exitVars
<1>2. LoopInv'
  BY DEF Inv, LoopInv, Between, Begin, Registered, begin, VMStep, opVars,
         evaluate_at_safepoint
<1>. QED
  BY <1>1, <1>2, PlainStep
     DEF Begin, begin, VMStep, Active, CallersAlone, opVars, callerVars

LEMMA ExitStepsInv ==
  Inv /\ (wait_for_vm_thread_exit \/ WaitUntilTerminated \/ Terminate) => Inv'
<1>1. ASSUME Inv, wait_for_vm_thread_exit PROVE Inv'
  <2>1. TypeOK'
    BY <1>1 DEF Inv, TypeOK, wait_for_vm_thread_exit, notify, queueVars, opVars,
                callerVars
  <2>2. LoopInv'
    BY <1>1 DEF Inv, LoopInv, Between, wait_for_vm_thread_exit, notify, queueVars,
                opVars, evaluate_at_safepoint
  <2>. QED
    BY <1>1, <2>1, <2>2, PlainStep
       DEF wait_for_vm_thread_exit, notify, Active, CallersAlone, queueVars, opVars,
           callerVars
<1>2. ASSUME Inv, WaitUntilTerminated PROVE Inv'
  <2>1. dpc' \in {"test", "done", "unowned", "waiting"}
    BY <1>2 DEF WaitUntilTerminated
  <2>2. TypeOK'
    BY SMT, <1>2, <2>1 DEF Inv, TypeOK, WaitUntilTerminated, queueVars, vmVars, opVars,
                      callerVars
  <2>3. LoopInv'
    BY <1>2 DEF Inv, LoopInv, WaitUntilTerminated, queueVars, vmVars, opVars,
                evaluate_at_safepoint
  <2>. QED
    BY <1>2, <2>2, <2>3, PlainStep
       DEF WaitUntilTerminated, CallersAlone, queueVars, vmVars, opVars, callerVars
<1>3. ASSUME Inv, Terminate PROVE Inv'
  <2>1. TypeOK'
    BY <1>3 DEF Inv, TypeOK, Terminate, VMStep, queueVars, opVars, callerVars
  <2>2. LoopInv'
    BY <1>3 DEF Inv, LoopInv, Between, Terminate, VMStep, queueVars
  <2>. QED
    BY <1>3, <2>1, <2>2, PlainStep
       DEF Terminate, VMStep, Active, CallersAlone, queueVars, opVars, callerVars
<1>. QED
  BY <1>1, <1>2, <1>3

----------------------------------------------------------------------------
(* The steps that move operations between the lists.                       *)

\* remove_next() takes the first operation of one list.
LEMMA RemoveFacts ==
  ASSUME Inv, NEW h, h = IF queue[NextPriority] = <<>> THEN NULL
                         ELSE Head(queue[NextPriority])
  PROVE  /\ Rest \in [Priority -> Seq(Op)] /\ h \in Op \cup {NULL}
         /\ \A p \in Priority : /\ IsInjective(Rest[p])
                                /\ Range(Rest[p]) \subseteq Range(queue[p])
         /\ h # NULL =>
              /\ h \in Range(queue["safepoint"]) \/ h \in Range(queue["medium"])
              /\ \A p \in Priority : h \notin Range(Rest[p])
<1>. DEFINE p == NextPriority
            q == IF p = "safepoint" THEN "medium" ELSE "safepoint"
<1>1. p \in Priority /\ q \in Priority /\ p # q /\ Priority = {p, q}
  BY DEF NextPriority, Priority
<1>2. /\ queue \in [Priority -> Seq(Op)]
      /\ \A r \in Priority : IsInjective(queue[r])
      /\ Range(queue[p]) \cap Range(queue[q]) = {}
  BY DEF Inv, TypeOK, ListInv, Priority, NextPriority
<1>3. \A x : x \in Range(queue[p]) =>
          x \in Range(queue["safepoint"]) \/ x \in Range(queue["medium"])
  BY <1>1 DEF Priority
<1>. HIDE DEF q
<1>4. CASE queue[p] = <<>>
  BY <1>2, <1>4 DEF Rest
<1>5. CASE queue[p] # <<>>
  <2>. PICK s \in Seq(Op) : s = queue[p]
    BY <1>1, <1>2
  <2>1. /\ Head(s) \in Op /\ Tail(s) \in Seq(Op)
        /\ Range(s) = {Head(s)} \cup Range(Tail(s))
        /\ IsInjective(Tail(s)) /\ Head(s) \notin Range(Tail(s))
    BY <1>1, <1>2, <1>5, TailFacts
  <2>2. h = Head(s) /\ Rest = [queue EXCEPT ![p] = Tail(s)]
    BY <1>5 DEF Rest
  <2>3. Rest[p] = Tail(s) /\ Rest[q] = queue[q] /\ Rest \in [Priority -> Seq(Op)]
    BY <1>1, <1>2, <2>1, <2>2
  <2>4. \A r \in Priority : /\ IsInjective(Rest[r])
                            /\ Range(Rest[r]) \subseteq Range(queue[r])
                            /\ h \notin Range(Rest[r])
    BY <1>1, <1>2, <2>1, <2>2, <2>3
  <2>. QED
    BY <1>3, <2>1, <2>2, <2>3, <2>4
<1>. QED
  BY <1>4, <1>5

\* Where the VM thread goes from there.
LEMMA GoOnFacts ==
  ASSUME GoOn
  PROVE  /\ vm' \in {"exit", "wait", "begin", "evaluate"}
         /\ vm' \in Active => cur' # NULL
         /\ vm' = "begin" => evaluate_at_safepoint(cur')
         /\ vm' = "evaluate" => ~evaluate_at_safepoint(cur')
         /\ cur' = NULL => vm' \in {"exit", "wait"}
BY DEF GoOn, Active

LEMMA LookInv == Inv /\ Look => Inv'
<1>. SUFFICES ASSUME Inv, Look PROVE Inv'
  OBVIOUS
<1>0. PICK h : h = IF queue[NextPriority] = <<>> THEN NULL
                   ELSE Head(queue[NextPriority])
  OBVIOUS
<1>. PICK r : r = Rest
  OBVIOUS
<1>1. /\ r \in [Priority -> Seq(Op)] /\ h \in Op \cup {NULL}
      /\ \A p \in Priority : /\ IsInjective(r[p])
                             /\ Range(r[p]) \subseteq Range(queue[p])
      /\ h # NULL =>
           /\ h \in Range(queue["safepoint"]) \/ h \in Range(queue["medium"])
           /\ \A p \in Priority : h \notin Range(r[p])
  BY <1>0, RemoveFacts
<1>2. /\ queue' = r /\ cur' = h /\ GoOn /\ safepoint_ops' = <<>> /\ drain_list' = drain_list
      /\ queue_counter' \in 0..StarvationLimit
      /\ UNCHANGED <<at_safepoint, opVars, callerVars, exitVars>>
  BY SMT, <1>0, VMThreadAssumption DEF Look, remove_next, Inv, TypeOK
<1>3. CallersAlone
  BY <1>2 DEF CallersAlone, opVars, callerVars
<1>4. safepoint_ops = <<>> /\ drain_list = <<>>
  BY DEF Inv, LoopInv, Between, Look
<1>5. TypeOK'
  BY ZenonT(30), <1>1, <1>2, <1>4, GoOnFacts DEF Inv, TypeOK, opVars, callerVars, exitVars
<1>6. ListInv'
  BY <1>1, <1>2, GoOnFacts, EmptyList DEF Inv, ListInv, Queued, Priority
<1>7. ModeInv'
  BY <1>1, <1>2, EmptyList DEF Inv, ModeInv, Priority, opVars, evaluate_at_safepoint
<1>8. LoopInv'
  BY <1>2, <1>4, GoOnFacts DEF LoopInv, Between, opVars, evaluate_at_safepoint
<1>9. \A o \in Op : Handed(o)' => Handed(o)
  BY <1>1, <1>2, GoOnFacts, EmptyList DEF Handed, Queued, Priority
<1>. QED
  BY <1>3, <1>5, <1>6, <1>7, <1>8, <1>9, ListStep

LEMMA LookAgainInv == Inv /\ LookAgain => Inv'
<1>. SUFFICES ASSUME Inv, LookAgain PROVE Inv'
  OBVIOUS
<1>0. PICK h : h = IF queue[NextPriority] = <<>> THEN NULL
                   ELSE Head(queue[NextPriority])
  OBVIOUS
<1>. PICK r : r = Rest
  OBVIOUS
<1>1. /\ r \in [Priority -> Seq(Op)] /\ h \in Op \cup {NULL}
      /\ \A p \in Priority : /\ IsInjective(r[p])
                             /\ Range(r[p]) \subseteq Range(queue[p])
      /\ h # NULL =>
           /\ h \in Range(queue["safepoint"]) \/ h \in Range(queue["medium"])
           /\ \A p \in Priority : h \notin Range(r[p])
  BY <1>0, RemoveFacts
<1>2. /\ cur' = h /\ GoOn /\ drain_list' = drain_list
      /\ queue_counter' \in 0..StarvationLimit
      /\ UNCHANGED <<at_safepoint, opVars, callerVars, exitVars>>
  BY SMT, <1>0, VMThreadAssumption DEF LookAgain, remove_next, Inv, TypeOK
<1>3. CallersAlone
  BY <1>2 DEF CallersAlone, opVars, callerVars
<1>4. safepoint_ops = <<>> /\ drain_list = <<>>
  BY DEF Inv, LoopInv, Between, LookAgain
\* What is left in the queue, and what the round has taken.
<1>5. \/ queue' = r /\ safepoint_ops' = <<>>
      \/ /\ cur' # NULL /\ evaluate_at_safepoint(cur')
         /\ queue'["safepoint"] = <<>> /\ queue'["medium"] = r["medium"]
         /\ safepoint_ops' = r["safepoint"] /\ queue' \in [Priority -> Seq(Op)]
  <2>1. CASE cur' # NULL /\ evaluate_at_safepoint(cur')
    <3>1. safepoint_ops' = r["safepoint"] /\ queue' = [r EXCEPT !["safepoint"] = <<>>]
      BY <2>1 DEF LookAgain, Drained, evaluate_at_safepoint
    <3>. QED
      BY SMT, <1>1, <2>1, <3>1 DEF Priority
  <2>2. CASE ~(cur' # NULL /\ evaluate_at_safepoint(cur'))
    BY <1>4, <2>2 DEF LookAgain
  <2>. QED
    BY <2>1, <2>2
<1>6. TypeOK'
  <2>0. <<>> \in Seq(Op) /\ r["safepoint"] \in Seq(Op)
    BY SMT, <1>1 DEF Priority
  <2>1. queue' \in [Priority -> Seq(Op)] /\ safepoint_ops' \in Seq(Op)
    BY <1>1, <1>5, <2>0
  <2>. QED
    BY ZenonT(30), <1>1, <1>2, <1>4, <2>1, GoOnFacts
       DEF Inv, TypeOK, opVars, callerVars, exitVars
<1>7. ListInv'
  BY <1>1, <1>2, <1>5, GoOnFacts, EmptyList DEF Inv, ListInv, Queued, Priority
<1>8. ModeInv'
  BY <1>1, <1>2, <1>5, EmptyList
     DEF Inv, ModeInv, Priority, opVars, evaluate_at_safepoint
<1>9. LoopInv'
  <2>1. evaluate_at_safepoint(cur)' <=> evaluate_at_safepoint(cur')
    BY <1>2 DEF opVars, evaluate_at_safepoint
  <2>2. vm' \in {"exit", "wait", "begin", "evaluate"} /\ drain_list' = <<>>
    BY <1>2, <1>4, GoOnFacts
  <2>3. /\ vm' = "wait" => safepoint_ops' = <<>>
        /\ vm' = "evaluate" => safepoint_ops' = <<>>
    <3>1. vm' = "wait" => cur' = NULL
      BY <1>2 DEF GoOn
    <3>2. vm' = "evaluate" => ~evaluate_at_safepoint(cur')
      BY <1>2, GoOnFacts
    <3>. QED
      BY <1>5, <3>1, <3>2
  <2>4. /\ vm' = "begin" => evaluate_at_safepoint(cur)'
        /\ vm' = "evaluate" => ~evaluate_at_safepoint(cur)'
    BY <1>2, <2>1, GoOnFacts
  <2>. QED
    BY <2>2, <2>3, <2>4 DEF LoopInv, Between
<1>10. \A o \in Op : Handed(o)' => Handed(o)
  BY <1>1, <1>2, <1>5, GoOnFacts, EmptyList DEF Handed, Queued, Priority
<1>. QED
  BY <1>3, <1>6, <1>7, <1>8, <1>9, <1>10, ListStep

LEMMA Next_opInv == Inv /\ Next_op => Inv'
<1>. SUFFICES ASSUME Inv, Next_op PROVE Inv'
  OBVIOUS
<1>1. CASE safepoint_ops = <<>>
  <2>1. TypeOK'
    BY <1>1 DEF Inv, TypeOK, Next_op, opVars, callerVars, exitVars
  <2>2. LoopInv'
    BY <1>1 DEF Inv, LoopInv, Between, Next_op, opVars, evaluate_at_safepoint
  <2>. QED
    BY <1>1, <2>1, <2>2, PlainStep
       DEF Next_op, Active, CallersAlone, opVars, callerVars
<1>2. CASE safepoint_ops # <<>>
  <2>. PICK s \in Seq(Op) : s = safepoint_ops
    BY DEF Inv, TypeOK
  <2>1. /\ Head(s) \in Op /\ Tail(s) \in Seq(Op)
        /\ Range(s) = {Head(s)} \cup Range(Tail(s))
        /\ IsInjective(Tail(s)) /\ Head(s) \notin Range(Tail(s))
    BY <1>2, TailFacts DEF Inv, ListInv
  <2>2. /\ vm = "next" /\ vm' = "evaluate" /\ cur' = Head(s)
        /\ safepoint_ops' = Tail(s) /\ drain_list' = Tail(s)
        /\ UNCHANGED <<queue, queue_counter, at_safepoint, opVars, callerVars, exitVars>>
    BY <1>2 DEF Next_op, Registered
  <2>3. TypeOK'
    BY <2>1, <2>2 DEF Inv, TypeOK, opVars, callerVars, exitVars
  <2>4. ListInv'
    BY <2>1, <2>2 DEF Inv, ListInv, Queued
  <2>5. ModeInv'
    BY <2>1, <2>2 DEF Inv, ModeInv, opVars, evaluate_at_safepoint
  <2>6. LoopInv'
    <3>1. evaluate_at_safepoint(Head(s)) /\ at_safepoint
      BY <2>1, <2>2 DEF Inv, ModeInv, LoopInv
    <3>. QED
      BY <2>2, <3>1 DEF LoopInv, Between, opVars, evaluate_at_safepoint
  <2>7. \A o \in Op : Handed(o)' => Handed(o)
    BY <2>1, <2>2 DEF Handed, Queued
  <2>. QED
    BY <2>2, <2>3, <2>4, <2>5, <2>6, <2>7, ListStep DEF CallersAlone, opVars, callerVars
<1>. QED
  BY <1>1, <1>2

LEMMA PeekInv == Inv /\ Peek => Inv'
<1>. SUFFICES ASSUME Inv, Peek PROVE Inv'
  OBVIOUS
<1>0. safepoint_ops = <<>> /\ drain_list = <<>> /\ at_safepoint /\ vm = "peek"
  BY DEF Inv, LoopInv, Between, Peek
<1>1. CASE queue["safepoint"] = <<>>
  <2>1. TypeOK'
    BY <1>0, <1>1 DEF Inv, TypeOK, Peek, opVars, callerVars, exitVars
  <2>2. LoopInv'
    BY <1>0, <1>1 DEF LoopInv, Peek
  <2>. QED
    BY <1>1, <2>1, <2>2, PlainStep
       DEF Peek, Active, CallersAlone, opVars, callerVars
<1>2. CASE queue["safepoint"] # <<>>
  <2>1. /\ queue'["safepoint"] = <<>> /\ queue'["medium"] = queue["medium"]
        /\ queue' \in [Priority -> Seq(Op)] /\ safepoint_ops' = queue["safepoint"]
        /\ safepoint_ops' \in Seq(Op)
    <3>1. queue \in [Priority -> Seq(Op)] /\ <<>> \in Seq(Op)
      BY SMT DEF Inv, TypeOK
    <3>2. /\ queue' = [queue EXCEPT !["safepoint"] = <<>>]
          /\ safepoint_ops' = queue["safepoint"]
      BY <1>2 DEF Peek, Drained
    <3>. QED
      BY <3>1, <3>2 DEF Priority
  <2>2. /\ vm' = "next" /\ drain_list' = drain_list
        /\ UNCHANGED <<queue_counter, cur, at_safepoint, opVars, callerVars, exitVars>>
    BY <1>2 DEF Peek
  <2>3. TypeOK'
    BY <2>1, <2>2 DEF Inv, TypeOK, opVars, callerVars, exitVars
  <2>4. ListInv'
    BY <2>1, <2>2, EmptyList DEF Inv, ListInv, Active
  <2>5. ModeInv'
    BY <2>1, <2>2, EmptyList DEF Inv, ModeInv, opVars, evaluate_at_safepoint
  <2>6. LoopInv'
    BY <1>0, <2>1, <2>2 DEF LoopInv, Between
  <2>7. \A o \in Op : Handed(o)' => Handed(o)
    BY <2>1, <2>2, EmptyList DEF Handed, Queued, Active
  <2>. QED
    BY <2>2, <2>3, <2>4, <2>5, <2>6, <2>7, ListStep DEF CallersAlone, opVars, callerVars
<1>. QED
  BY <1>1, <1>2

----------------------------------------------------------------------------
(* The steps of the callers, and the completion of an operation.           *)

\* What the VM thread has, it has in one place, and alive.
LEMMA HandedFacts ==
  ASSUME Inv
  PROVE  /\ \A o \in Op : Handed(o) => o \in live
         /\ \A o : Queued(o) => o \in Op /\ Handed(o)
         /\ vm \in Active => cur \in Op /\ Handed(cur) /\ ~Queued(cur)
<1>1. \A o \in Op : Handed(o) => o \in live
  BY DEF Inv, HandedInv
<1>2. ASSUME NEW o, Queued(o) PROVE o \in Op
  <2>1. /\ queue["safepoint"] \in Seq(Op) /\ queue["medium"] \in Seq(Op)
        /\ safepoint_ops \in Seq(Op)
    BY DEF Inv, TypeOK, Priority
  <2>2. /\ Range(queue["safepoint"]) \subseteq Op /\ Range(queue["medium"]) \subseteq Op
        /\ Range(safepoint_ops) \subseteq Op
    BY <2>1, RangeIn
  <2>. QED
    BY <1>2, <2>2 DEF Queued
<1>. QED
  BY <1>1, <1>2 DEF Inv, ListInv, Handed

\* A caller's operation is not another's.
LEMMA OwnOp ==
  ASSUME Inv, NEW c \in Caller, NEW d \in Caller, c # d,
         pc[c] # "idle", pc[d] # "idle"
  PROVE  op[c] # op[d]
BY DEF Inv, CallerInv

\* A step that leaves the VM thread and the operations that it has alone.
LEMMA VMAlone ==
  ASSUME Inv, UNCHANGED <<queueVars, vmVars>>,
         \A o \in Op : Handed(o) => mode'[o] = mode[o]
  PROVE  /\ ListInv' /\ ModeInv' /\ LoopInv'
         /\ \A o : Handed(o)' <=> Handed(o)
<1>1. ListInv' /\ \A o : Handed(o)' <=> Handed(o)
  BY DEF Inv, ListInv, Handed, Queued, queueVars, vmVars
<1>2. ModeInv'
  <2>1. \A o \in Op : Queued(o) => mode'[o] = mode[o]
    BY HandedFacts
  <2>. QED
    BY <2>1 DEF Inv, ModeInv, Queued, queueVars, evaluate_at_safepoint
<1>3. LoopInv'
  <2>1. vm \in Active => mode'[cur] = mode[cur]
    BY HandedFacts
  <2>2. LoopInv /\ UNCHANGED <<vm, cur, at_safepoint, drain_list, safepoint_ops>>
    BY DEF Inv, queueVars, vmVars
  <2>3. vm \in Active => (evaluate_at_safepoint(cur)' <=> evaluate_at_safepoint(cur))
    BY <2>1, <2>2 DEF evaluate_at_safepoint
  <2>. QED
    BY <2>2, <2>3 DEF LoopInv, Active
<1>. QED
  BY <1>1, <1>2, <1>3

LEMMA executeInv ==
  ASSUME Inv, NEW c \in Caller, NEW o \in Op, NEW m \in Modes, execute(c, o, m)
  PROVE  Inv'
<1>1. /\ pc[c] = "idle" /\ o \notin live /\ m \in Mode
      /\ op[c] = NULL /\ outstanding[c] = 0 /\ ~Handed(o)
  BY VMThreadAssumption, HandedFacts DEF Inv, CallerInv, execute, CallerStep
<1>2. /\ pc' = [pc EXCEPT ![c] = "enqueue"] /\ op' = [op EXCEPT ![c] = o]
      /\ live' = live \cup {o} /\ mode' = [mode EXCEPT ![o] = m]
      /\ calling_thread' = [calling_thread EXCEPT ![o] = c]
      /\ UNCHANGED <<queueVars, vmVars, exitVars>>
  BY DEF execute, CallerStep, Goto
<1>3. outstanding' = [outstanding EXCEPT ![c] = IF m \in {"concurrent", "async_safepoint"}
                                               THEN 0 ELSE 1]
  <2>1. outstanding \in [Caller -> {0, 1}] /\ outstanding[c] + 1 = 1
    BY SMT, <1>1 DEF Inv, TypeOK
  <2>2. [outstanding EXCEPT ![c] = 0] = outstanding
    BY <1>1, <2>1
  <2>3. outstanding' = IF m \in {"concurrent", "async_safepoint"} THEN outstanding
                       ELSE [outstanding EXCEPT ![c] = 1]
    BY <2>1 DEF execute, vm_operation_ticket
  <2>. QED
    BY <2>2, <2>3
<1>4. calls' \in [OtherThread -> 0..MaxOtherCalls]
  <2>1. calls \in [OtherThread -> 0..MaxOtherCalls] /\ MaxOtherCalls \in Nat
    BY VMThreadAssumption DEF Inv, TypeOK
  <2>2. CASE calls' = calls
    BY <2>1, <2>2
  <2>3. CASE /\ c \in OtherThread /\ calls[c] < MaxOtherCalls
             /\ calls' = [calls EXCEPT ![c] = @ + 1]
    BY SMT, <2>1, <2>3
  <2>. QED
    BY <2>2, <2>3 DEF execute
<1>5. TypeOK'
  BY SMT, <1>1, <1>2, <1>3, <1>4 DEF Inv, TypeOK, queueVars, vmVars, exitVars
<1>6. \A x \in Op : x # o => mode'[x] = mode[x] /\ calling_thread'[x] = calling_thread[x]
  BY <1>2 DEF Inv, TypeOK
<1>7. /\ ListInv' /\ ModeInv' /\ LoopInv'
      /\ \A x : Handed(x)' <=> Handed(x)
  BY <1>1, <1>2, <1>6, VMAlone
<1>8. HandedInv'
  <2>. SUFFICES ASSUME NEW x \in Op, Handed(x)
                PROVE  /\ x \in live' /\ calling_thread'[x] \in Caller
                       /\ ~evaluate_concurrently(x)' =>
                            /\ op'[calling_thread'[x]] = x
                            /\ pc'[calling_thread'[x]] \in {"test", "wait"}
                            /\ outstanding'[calling_thread'[x]] = 1
    BY <1>7 DEF HandedInv
  <2>1. x # o /\ x \in live /\ calling_thread[x] \in Caller
    BY <1>1 DEF Inv, HandedInv
  <2>2. ASSUME ~evaluate_concurrently(x)
        PROVE  /\ calling_thread[x] # c /\ op[calling_thread[x]] = x
               /\ pc[calling_thread[x]] \in {"test", "wait"}
               /\ outstanding[calling_thread[x]] = 1
    BY <1>1, <2>2 DEF Inv, HandedInv
  <2>3. evaluate_concurrently(x)' <=> evaluate_concurrently(x)
    BY <1>6, <2>1 DEF evaluate_concurrently
  <2>. QED
    BY <1>2, <1>3, <1>6, <2>1, <2>2, <2>3 DEF Inv, TypeOK
<1>9. ASSUME NEW d \in Caller PROVE CallerInv(d)'
  <2>1. CASE d = c
    <3>1. /\ pc'[c] = "enqueue" /\ op'[c] = o /\ o \in live' /\ calling_thread'[o] = c
          /\ mode'[o] = m
          /\ outstanding'[c] = IF m \in {"concurrent", "async_safepoint"} THEN 0 ELSE 1
      BY <1>2, <1>3 DEF Inv, TypeOK
    <3>2. ~Handed(op[c])'
      BY <1>1, <1>7, <3>1 DEF Handed, Queued
    <3>. QED
      BY <2>1, <3>1, <3>2 DEF CallerInv, evaluate_concurrently
  <2>2. CASE d # c
    <3>1. pc'[d] = pc[d] /\ op'[d] = op[d] /\ outstanding'[d] = outstanding[d] /\ CallerInv(d)
      BY <1>2, <1>3, <2>2 DEF Inv, TypeOK
    <3>2. CASE pc[d] = "idle"
      BY <3>1, <3>2 DEF CallerInv
    <3>3. CASE pc[d] # "idle"
      <4>. PICK x : x = op[d]
        OBVIOUS
      <4>1. x \in live /\ x \in Op /\ x # o /\ calling_thread[x] = d
        BY <1>1, <3>1, <3>3 DEF CallerInv, Inv, TypeOK
      <4>2. /\ calling_thread'[x] = d /\ mode'[x] = mode[x] /\ x \in live'
            /\ Handed(op[d])' <=> Handed(op[d])
        BY <1>2, <1>6, <1>7, <3>1, <4>1 DEF Handed, Queued
      <4>. QED
        BY <3>1, <3>3, <4>1, <4>2 DEF CallerInv, evaluate_concurrently
    <3>. QED
      BY <3>2, <3>3
  <2>. QED
    BY <2>1, <2>2
<1>. QED
  BY <1>5, <1>7, <1>8, <1>9 DEF Inv

LEMMA addInv ==
  ASSUME Inv, NEW c \in Caller, add(c)
  PROVE  Inv'
<1>. PICK o : o = op[c]
  OBVIOUS
<1>. PICK p \in Priority : p = IF evaluate_at_safepoint(o) THEN "safepoint" ELSE "medium"
  BY DEF Priority
<1>. DEFINE conc == evaluate_concurrently(o)
            l == IF conc THEN "idle" ELSE "test"
<1>1. /\ pc[c] = "enqueue" /\ o \in Op /\ o \in live /\ calling_thread[o] = c
      /\ ~Handed(o) /\ ~Queued(o) /\ outstanding[c] = IF conc THEN 0 ELSE 1
  BY DEF Inv, TypeOK, CallerInv, add, CallerStep, Handed
<1>2. /\ pc' = [pc EXCEPT ![c] = l]
      /\ op' = [op EXCEPT ![c] = IF conc THEN NULL ELSE o]
      /\ UNCHANGED <<queue_counter, drain_list, safepoint_ops, cur, at_safepoint,
                     mode, calling_thread, live, outstanding, calls, exitVars>>
      /\ vm' = IF vm = "wait" THEN "woken" ELSE vm
  BY DEF add, CallerStep, Goto, opVars, notify
<1>3. PICK s \in Seq(Op) : s = Append(queue[p], o)
  BY <1>1, AppendFacts DEF Inv, TypeOK
<1>4. /\ queue' = [queue EXCEPT ![p] = s] /\ queue \in [Priority -> Seq(Op)]
      /\ Range(s) = Range(queue[p]) \cup {o} /\ IsInjective(s)
  <2>1. queue' = [queue EXCEPT ![p] = s] /\ queue \in [Priority -> Seq(Op)]
    BY <1>3 DEF add, Inv, TypeOK
  <2>2. IsInjective(queue[p]) /\ o \notin Range(queue[p])
    BY <1>1 DEF Inv, ListInv, Priority, Queued
  <2>. QED
    BY SMT, <1>1, <1>3, <2>1, <2>2, AppendFacts
<1>5. /\ p = "safepoint" => /\ queue'["safepoint"] = s
                            /\ queue'["medium"] = queue["medium"]
      /\ p = "medium" => /\ queue'["medium"] = s
                         /\ queue'["safepoint"] = queue["safepoint"]
  BY <1>4 DEF Priority
<1>6. \A x : Queued(x)' <=> Queued(x) \/ x = o
  BY <1>2, <1>4, <1>5 DEF Queued, Priority
<1>7. \A x : Handed(x)' <=> Handed(x) \/ x = o
  BY <1>2, <1>6 DEF Handed, Active
<1>. HIDE DEF conc
<1>8. TypeOK'
  <2>1. queue' \in [Priority -> Seq(Op)]
    BY <1>3, <1>4
  <2>2. /\ pc' \in [Caller -> {"idle", "enqueue", "test", "wait", "return"}]
        /\ op' \in [Caller -> Op \cup {NULL}]
    BY <1>1, <1>2 DEF Inv, TypeOK
  <2>. QED
    BY <1>2, <2>1, <2>2 DEF Inv, TypeOK, exitVars
<1>9. ListInv'
  <2>1. vm' \in Active => vm \in Active /\ cur' = cur /\ cur # o /\ cur \in Op /\ ~Queued(cur)
    BY <1>1, <1>2, HandedFacts DEF Active
  <2>2. (vm \in Active => cur \in Op /\ ~Queued(cur))'
    BY <1>6, <2>1 DEF Queued
  <2>3. CASE p = "safepoint"
    BY ZenonT(30), <1>1, <1>2, <1>4, <1>5, <2>2, <2>3 DEF Inv, ListInv, Queued
  <2>4. CASE p = "medium"
    BY ZenonT(30), <1>1, <1>2, <1>4, <1>5, <2>2, <2>4 DEF Inv, ListInv, Queued
  <2>. QED
    BY <2>3, <2>4 DEF Priority
<1>10. ModeInv'
  BY <1>2, <1>4, <1>5 DEF Inv, ModeInv, Priority, evaluate_at_safepoint
<1>11. LoopInv'
  BY <1>2 DEF Inv, LoopInv, Between, evaluate_at_safepoint
<1>12. HandedInv'
  <2>. SUFFICES ASSUME NEW x \in Op, Handed(x) \/ x = o
                PROVE  /\ x \in live /\ calling_thread[x] \in Caller
                       /\ ~evaluate_concurrently(x) =>
                            /\ op'[calling_thread[x]] = x
                            /\ pc'[calling_thread[x]] \in {"test", "wait"}
                            /\ outstanding[calling_thread[x]] = 1
    BY <1>2, <1>7 DEF HandedInv, evaluate_concurrently
  <2>1. CASE x = o
    BY <1>1, <1>2, <2>1 DEF Inv, TypeOK, conc
  <2>2. CASE Handed(x)
    <3>1. x \in live /\ calling_thread[x] \in Caller
      BY <2>2 DEF Inv, HandedInv
    <3>2. ASSUME ~evaluate_concurrently(x)
          PROVE  /\ calling_thread[x] # c /\ op[calling_thread[x]] = x
                 /\ pc[calling_thread[x]] \in {"test", "wait"}
                 /\ outstanding[calling_thread[x]] = 1
      BY <1>1, <2>2, <3>2 DEF Inv, HandedInv
    <3>. QED
      BY <1>2, <3>1, <3>2 DEF Inv, TypeOK
  <2>. QED
    BY <2>1, <2>2
<1>13. ASSUME NEW d \in Caller PROVE CallerInv(d)'
  <2>1. CASE d = c
    <3>1. /\ pc'[c] = l /\ op'[c] = IF conc THEN NULL ELSE o
          /\ outstanding'[c] = IF conc THEN 0 ELSE 1
      BY <1>1, <1>2 DEF Inv, TypeOK
    <3>2. CASE conc
      BY <2>1, <3>1, <3>2 DEF CallerInv
    <3>3. CASE ~conc
      <4>1. pc'[c] = "test" /\ op'[c] = o /\ mode' = mode
              /\ live' = live /\ calling_thread' = calling_thread
        BY <1>2, <3>1, <3>3
      <4>2. ~evaluate_concurrently(op[c])'
        BY <3>3, <4>1 DEF conc, evaluate_concurrently
      <4>. QED
        BY <1>1, <2>1, <4>1, <4>2 DEF CallerInv
    <3>. QED
      BY <3>2, <3>3
  <2>2. CASE d # c
    <3>1. /\ pc'[d] = pc[d] /\ op'[d] = op[d] /\ CallerInv(d)
          /\ UNCHANGED <<outstanding, live, mode, calling_thread>>
      BY <1>2, <2>2 DEF Inv, TypeOK
    <3>2. pc[d] = "enqueue" => ~Handed(op[d])'
      <4>. SUFFICES ASSUME pc[d] = "enqueue" PROVE ~Handed(op[d])'
        OBVIOUS
      <4>1. op[d] # o /\ ~Handed(op[d])
        BY <1>1, <2>2, <3>1, OwnOp DEF CallerInv
      <4>. PICK x : x = op[d]
        OBVIOUS
      <4>. QED
        BY <1>7, <3>1, <4>1 DEF Handed, Queued
    <3>. QED
      BY <3>1, <3>2 DEF CallerInv, evaluate_concurrently
  <2>. QED
    BY <2>1, <2>2
<1>. QED
  BY <1>8, <1>9, <1>10, <1>11, <1>12, <1>13 DEF Inv

\* A step that only moves callers that wait, or that test whether to wait.
LEMMA PcStep ==
  ASSUME Inv, TypeOK', UNCHANGED <<queueVars, vmVars, opVars, op>>,
         \A c \in Caller :
           \/ pc'[c] = pc[c]
           \/ pc[c] \in {"test", "wait"} /\ pc'[c] \in {"test", "wait"}
           \/ pc[c] = "test" /\ pc'[c] = "return" /\ outstanding[c] = 0
  PROVE  Inv'
<1>1. /\ ListInv' /\ ModeInv' /\ LoopInv'
      /\ \A o : Handed(o)' <=> Handed(o)
  BY VMAlone DEF opVars
<1>2. HandedInv'
  <2>. SUFFICES ASSUME NEW x \in Op, Handed(x)
                PROVE  /\ x \in live /\ calling_thread[x] \in Caller
                       /\ ~evaluate_concurrently(x) =>
                            /\ op[calling_thread[x]] = x
                            /\ pc'[calling_thread[x]] \in {"test", "wait"}
                            /\ outstanding[calling_thread[x]] = 1
    BY <1>1 DEF HandedInv, evaluate_concurrently, opVars
  <2>. QED
    BY SMT DEF Inv, HandedInv
<1>3. ASSUME NEW c \in Caller PROVE CallerInv(c)'
  <2>1. Handed(op[c])' <=> Handed(op[c])
    BY <1>1 DEF Handed, Queued
  <2>2. CallerInv(c) /\ UNCHANGED <<mode, calling_thread, live, outstanding, op>>
    BY DEF Inv, opVars
  <2>. QED
    BY <2>1, <2>2 DEF CallerInv, evaluate_concurrently
<1>. QED
  BY <1>1, <1>2, <1>3 DEF Inv

LEMMA WaitForCompletionInv ==
  ASSUME Inv, NEW c \in Caller, WaitForCompletion(c)
  PROVE  Inv'
<1>1. /\ pc[c] = "test" /\ pc' = [pc EXCEPT ![c] = IF MustWait(c) THEN "wait" ELSE "return"]
      /\ UNCHANGED <<queueVars, vmVars, opVars, op, calls, exitVars>>
  BY DEF WaitForCompletion, CallerStep, Goto
<1>2. TypeOK'
  BY SMT, <1>1 DEF Inv, TypeOK, queueVars, vmVars, opVars, exitVars
<1>3. ~MustWait(c) => outstanding[c] = 0
  BY SMT DEF MustWait, Inv, TypeOK
<1>4. ASSUME NEW d \in Caller
      PROVE  \/ pc'[d] = pc[d]
             \/ pc[d] \in {"test", "wait"} /\ pc'[d] \in {"test", "wait"}
             \/ pc[d] = "test" /\ pc'[d] = "return" /\ outstanding[d] = 0
  BY <1>1, <1>3 DEF Inv, TypeOK
<1>. QED
  BY <1>1, <1>2, <1>4, PcStep

LEMMA notify_allInv == Inv /\ notify_all => Inv'
<1>. SUFFICES ASSUME Inv, notify_all PROVE Inv'
  OBVIOUS
<1>1. /\ vm = "notify" /\ vm' = "interval"
      /\ pc' = [c \in Caller |-> IF pc[c] = "wait" THEN "test" ELSE pc[c]]
      /\ UNCHANGED <<queueVars, cur, at_safepoint, opVars, op, calls, exitVars>>
  BY DEF notify_all, VMStep, Notified
<1>2. TypeOK'
  BY <1>1 DEF Inv, TypeOK, queueVars, opVars, exitVars
<1>3. /\ ListInv' /\ ModeInv'
      /\ \A o : Handed(o)' => Handed(o)
  BY <1>1 DEF Inv, ListInv, ModeInv, Handed, Queued, Active, queueVars, opVars,
              evaluate_at_safepoint
<1>4. LoopInv'
  BY <1>1 DEF Inv, LoopInv, Between, queueVars
<1>5. HandedInv'
  <2>. SUFFICES ASSUME NEW x \in Op, Handed(x)
                PROVE  /\ x \in live /\ calling_thread[x] \in Caller
                       /\ ~evaluate_concurrently(x) =>
                            /\ op[calling_thread[x]] = x
                            /\ pc'[calling_thread[x]] \in {"test", "wait"}
                            /\ outstanding[calling_thread[x]] = 1
    BY <1>1, <1>3 DEF HandedInv, evaluate_concurrently, opVars
  <2>. QED
    BY <1>1 DEF Inv, HandedInv
<1>6. ASSUME NEW c \in Caller PROVE CallerInv(c)'
  <2>1. Handed(op[c])' => Handed(op[c])
    BY <1>1, <1>3 DEF Handed, Queued
  <2>2. /\ CallerInv(c) /\ UNCHANGED <<mode, calling_thread, live, outstanding, op>>
        /\ pc'[c] = IF pc[c] = "wait" THEN "test" ELSE pc[c]
    BY <1>1 DEF Inv, opVars
  <2>. QED
    BY <2>1, <2>2 DEF CallerInv, evaluate_concurrently
<1>. QED
  BY <1>2, <1>3, <1>4, <1>5, <1>6 DEF Inv

\* The caller deallocates what the VM thread does not have any more: if it had,
\* the ticket would be outstanding.
LEMMA ReturnInv ==
  ASSUME Inv, NEW c \in Caller, Return(c)
  PROVE  Inv'
<1>. PICK o : o = op[c]
  OBVIOUS
<1>1. /\ pc[c] = "return" /\ o \in Op /\ o \in live /\ calling_thread[o] = c
      /\ ~evaluate_concurrently(o) /\ outstanding[c] = 0
  BY DEF Inv, TypeOK, CallerInv, Return, CallerStep
<1>2. ~Handed(o)
  BY <1>1 DEF Inv, HandedInv
<1>3. /\ pc' = [pc EXCEPT ![c] = "idle"] /\ op' = [op EXCEPT ![c] = NULL]
      /\ live' = live \ {o} /\ mode' = [mode EXCEPT ![o] = "safepoint"]
      /\ calling_thread' = [calling_thread EXCEPT ![o] = NULL]
      /\ UNCHANGED <<queueVars, vmVars, outstanding, calls, exitVars>>
  BY DEF Return, CallerStep, Goto, Deallocate
<1>4. TypeOK'
  <2>1. /\ mode' \in [Op -> Mode] /\ calling_thread' \in [Op -> Caller \cup {NULL}]
        /\ live' \subseteq Op
    BY <1>3 DEF Inv, TypeOK, Mode
  <2>2. /\ pc' \in [Caller -> {"idle", "enqueue", "test", "wait", "return"}]
        /\ op' \in [Caller -> Op \cup {NULL}]
    BY <1>3 DEF Inv, TypeOK
  <2>. QED
    BY SMT, <1>3, <2>1, <2>2 DEF Inv, TypeOK, queueVars, vmVars, exitVars
<1>5. \A x \in Op : x # o => mode'[x] = mode[x] /\ calling_thread'[x] = calling_thread[x]
  BY <1>3 DEF Inv, TypeOK
<1>6. /\ ListInv' /\ ModeInv' /\ LoopInv'
      /\ \A x : Handed(x)' <=> Handed(x)
  BY <1>2, <1>3, <1>5, VMAlone
<1>7. HandedInv'
  <2>. SUFFICES ASSUME NEW x \in Op, Handed(x)
                PROVE  /\ x \in live' /\ calling_thread'[x] \in Caller
                       /\ ~evaluate_concurrently(x)' =>
                            /\ op'[calling_thread'[x]] = x
                            /\ pc'[calling_thread'[x]] \in {"test", "wait"}
                            /\ outstanding'[calling_thread'[x]] = 1
    BY <1>6 DEF HandedInv
  <2>1. x # o /\ x \in live /\ calling_thread[x] \in Caller
    BY <1>2 DEF Inv, HandedInv
  <2>2. ASSUME ~evaluate_concurrently(x)
        PROVE  /\ calling_thread[x] # c /\ op[calling_thread[x]] = x
               /\ pc[calling_thread[x]] \in {"test", "wait"}
               /\ outstanding[calling_thread[x]] = 1
    BY <1>1, <2>2 DEF Inv, HandedInv
  <2>3. evaluate_concurrently(x)' <=> evaluate_concurrently(x)
    BY <1>5, <2>1 DEF evaluate_concurrently
  <2>. QED
    BY <1>3, <1>5, <2>1, <2>2, <2>3 DEF Inv, TypeOK
<1>8. ASSUME NEW d \in Caller PROVE CallerInv(d)'
  <2>1. CASE d = c
    BY <1>1, <1>3, <2>1 DEF CallerInv, Inv, TypeOK
  <2>2. CASE d # c
    <3>1. pc'[d] = pc[d] /\ op'[d] = op[d] /\ outstanding' = outstanding /\ CallerInv(d)
      BY <1>3, <2>2 DEF Inv, TypeOK
    <3>2. CASE pc[d] = "idle"
      BY <3>1, <3>2 DEF CallerInv
    <3>3. CASE pc[d] # "idle"
      <4>. PICK x : x = op[d]
        OBVIOUS
      <4>1. x \in live /\ x \in Op /\ x # o /\ calling_thread[x] = d
        BY <1>1, <2>2, <3>1, <3>3, OwnOp DEF CallerInv, Inv, TypeOK
      <4>2. /\ calling_thread'[x] = d /\ mode'[x] = mode[x] /\ x \in live'
            /\ Handed(op[d])' <=> Handed(op[d])
        BY <1>3, <1>5, <1>6, <3>1, <4>1 DEF Handed, Queued
      <4>. QED
        BY <3>1, <3>3, <4>1, <4>2 DEF CallerInv, evaluate_concurrently
    <3>. QED
      BY <3>2, <3>3
  <2>. QED
    BY <2>1, <2>2
<1>. QED
  BY <1>4, <1>6, <1>7, <1>8 DEF Inv

\* The VM thread completes the ticket, or deallocates the operation itself; from
\* then on it has the operation no more.
LEMMA CompleteInv == Inv /\ Complete => Inv'
<1>. SUFFICES ASSUME Inv, Complete PROVE Inv'
  OBVIOUS
<1>. PICK o : o = cur
  OBVIOUS
<1>. PICK c : c = calling_thread[o]
  OBVIOUS
<1>1. /\ vm = "complete" /\ o \in Op /\ Handed(o) /\ ~Queued(o) /\ o \in live
      /\ c \in Caller
      /\ ~evaluate_concurrently(o) =>
           op[c] = o /\ pc[c] \in {"test", "wait"} /\ outstanding[c] = 1
  BY HandedFacts DEF Inv, HandedInv, Complete, VMStep, Active
<1>2. /\ vm' = IF evaluate_at_safepoint(o) THEN "next" ELSE "trace"
      /\ UNCHANGED <<queueVars, cur, at_safepoint, callerVars, exitVars>>
  BY DEF Complete, VMStep
<1>3. \A x : (Queued(x)' <=> Queued(x)) /\ (Handed(x)' <=> Queued(x))
  BY <1>2 DEF Handed, Queued, Active, queueVars
<1>4. \/ /\ evaluate_concurrently(o) /\ live' = live \ {o}
         /\ mode' = [mode EXCEPT ![o] = "safepoint"]
         /\ calling_thread' = [calling_thread EXCEPT ![o] = NULL]
         /\ outstanding' = outstanding
      \/ /\ ~evaluate_concurrently(o) /\ outstanding' = [outstanding EXCEPT ![c] = 0]
         /\ UNCHANGED <<live, mode, calling_thread>>
  <2>1. CASE evaluate_concurrently(o)
    BY <2>1 DEF Complete, Deallocate
  <2>2. CASE ~evaluate_concurrently(o)
    <3>1. outstanding' = [outstanding EXCEPT ![c] = @ - 1]
          /\ UNCHANGED <<live, mode, calling_thread>>
      BY <2>2 DEF Complete
    <3>2. outstanding \in [Caller -> {0, 1}] /\ outstanding[c] - 1 = 0
      BY SMT, <1>1, <2>2 DEF Inv, TypeOK
    <3>. QED
      BY <2>2, <3>1, <3>2
  <2>. QED
    BY <2>1, <2>2
<1>5. TypeOK'
  <2>1. /\ mode' \in [Op -> Mode] /\ calling_thread' \in [Op -> Caller \cup {NULL}]
        /\ live' \subseteq Op /\ outstanding' \in [Caller -> {0, 1}]
    BY <1>4 DEF Inv, TypeOK, Mode
  <2>. QED
    BY <1>2, <2>1 DEF Inv, TypeOK, queueVars, callerVars, exitVars
<1>6. /\ \A x \in Op : x # o => /\ mode'[x] = mode[x]
                                /\ calling_thread'[x] = calling_thread[x]
                                /\ x \in live' <=> x \in live
      /\ \A d \in Caller : evaluate_concurrently(o) \/ d # c =>
           outstanding'[d] = outstanding[d]
  BY <1>4 DEF Inv, TypeOK
<1>7. ListInv'
  BY <1>2 DEF Inv, ListInv, queueVars, Active
<1>8. ModeInv'
  <2>1. \A x \in Op : Queued(x) => mode'[x] = mode[x]
    <3>1. \A x \in Op : Queued(x) => x # o
      BY <1>1 DEF Queued
    <3>. QED
      BY <1>6, <3>1
  <2>. QED
    BY <1>2, <2>1 DEF Inv, ModeInv, Queued, queueVars, evaluate_at_safepoint
<1>9. LoopInv'
  BY <1>1, <1>2 DEF Inv, LoopInv, Between, queueVars
<1>10. HandedInv'
  <2>. SUFFICES ASSUME NEW x \in Op, Queued(x)
                PROVE  /\ x \in live' /\ calling_thread'[x] \in Caller
                       /\ ~evaluate_concurrently(x)' =>
                            /\ op[calling_thread'[x]] = x
                            /\ pc[calling_thread'[x]] \in {"test", "wait"}
                            /\ outstanding'[calling_thread'[x]] = 1
    BY <1>2, <1>3 DEF HandedInv, callerVars
  <2>1. x # o /\ Handed(x) /\ x \in live /\ calling_thread[x] \in Caller
    BY <1>1, HandedFacts DEF Inv, HandedInv
  <2>2. ASSUME ~evaluate_concurrently(x)
        PROVE  /\ op[calling_thread[x]] = x /\ pc[calling_thread[x]] \in {"test", "wait"}
               /\ outstanding[calling_thread[x]] = 1
               /\ evaluate_concurrently(o) \/ calling_thread[x] # c
    BY <1>1, <2>1, <2>2 DEF Inv, HandedInv
  <2>3. evaluate_concurrently(x)' <=> evaluate_concurrently(x)
    BY <1>6, <2>1 DEF evaluate_concurrently
  <2>. QED
    BY <1>6, <2>1, <2>2, <2>3
<1>11. ASSUME NEW d \in Caller PROVE CallerInv(d)'
  <2>1. pc' = pc /\ op' = op /\ CallerInv(d) /\ op[d] \in Op \cup {NULL} /\ live \subseteq Op
    BY <1>2 DEF callerVars, Inv, TypeOK
  <2>2. CASE d = c /\ ~evaluate_concurrently(o)
    <3>1. /\ op[d] = o /\ pc[d] \in {"test", "wait"} /\ outstanding'[d] = 0
          /\ UNCHANGED <<live, mode, calling_thread>>
      BY <1>1, <1>4, <2>2 DEF Inv, TypeOK
    <3>. QED
      BY <2>1, <3>1 DEF CallerInv, evaluate_concurrently
  <2>3. CASE ~(d = c /\ ~evaluate_concurrently(o))
    <3>1. outstanding'[d] = outstanding[d]
      BY <1>6, <2>3
    <3>2. CASE pc[d] = "idle"
      BY <2>1, <3>1, <3>2 DEF CallerInv
    <3>3. CASE pc[d] # "idle"
      <4>. PICK x : x = op[d]
        OBVIOUS
      <4>1. x \in live /\ x \in Op /\ calling_thread[x] = d
        BY <2>1, <3>3 DEF CallerInv
      <4>2. x # o
        <5>1. CASE pc[d] = "enqueue"
          BY <1>1, <2>1, <5>1 DEF CallerInv
        <5>2. CASE pc[d] # "enqueue"
          <6>1. ~evaluate_concurrently(x)
            BY <2>1, <3>3, <5>2 DEF CallerInv, Inv, TypeOK
          <6>. QED
            BY <2>3, <4>1, <6>1
        <5>. QED
          BY <5>1, <5>2
      <4>3. /\ calling_thread'[x] = d /\ mode'[x] = mode[x] /\ x \in live'
            /\ Handed(op[d])' => Handed(op[d])
        BY <1>3, <1>6, <2>1, <4>1, <4>2 DEF Handed, Queued
      <4>. QED
        BY <2>1, <3>1, <3>3, <4>1, <4>3 DEF CallerInv, evaluate_concurrently
    <3>. QED
      BY <3>2, <3>3
  <2>. QED
    BY <2>2, <2>3
<1>. QED
  BY <1>5, <1>7, <1>8, <1>9, <1>10, <1>11 DEF Inv

----------------------------------------------------------------------------
(* Results.                                                                *)

LEMMA StutterInv == Inv /\ UNCHANGED vars => Inv'
<1>. SUFFICES ASSUME Inv, UNCHANGED vars PROVE Inv'
  OBVIOUS
<1>1. TypeOK'
  BY SMT DEF Inv, TypeOK, vars, queueVars, vmVars, opVars, callerVars, exitVars
<1>2. LoopInv'
  BY DEF Inv, LoopInv, vars, queueVars, vmVars, opVars, evaluate_at_safepoint
<1>. QED
  BY <1>1, <1>2, PlainStep
     DEF CallersAlone, vars, queueVars, vmVars, opVars, callerVars

LEMMA NextInv == Inv /\ [Next]_vars => Inv'
<1>. SUFFICES ASSUME Inv, [Next]_vars PROVE Inv'
  OBVIOUS
<1>1. CASE Synchronizes
  BY <1>1, BeginInv, ExtraBeginInv DEF Synchronizes
<1>2. CASE Loops
  <2>1. CASE end("end", "notify") \/ ExtraEnd
    BY <2>1, endInv DEF ExtraEnd
  <2>2. CASE ~(end("end", "notify") \/ ExtraEnd)
    BY <1>2, <2>2, LookInv, LookAgainInv, TimeOutInv, evaluateInv, CompleteInv,
       Next_opInv, PeekInv, TraceInv, notify_allInv, AgainInv, ExitStepsInv DEF Loops
  <2>. QED
    BY <2>1, <2>2
<1>3. CASE wait_for_vm_thread_exit \/ WaitUntilTerminated
  BY <1>3, ExitStepsInv
<1>4. ASSUME NEW c \in Caller, Waiting(c) PROVE Inv'
  BY <1>4, addInv, WaitForCompletionInv, ReturnInv DEF Waiting
<1>5. ASSUME NEW c \in Caller, NEW o \in Op, NEW m \in Modes, execute(c, o, m) PROVE Inv'
  BY <1>5, executeInv
<1>6. CASE UNCHANGED vars
  BY <1>6, StutterInv
<1>. QED
  BY <1>1, <1>2, <1>3, <1>4, <1>5, <1>6 DEF Next

\* The invariant holds of every VM: any threads, operations, modes and flags.
THEOREM Invariance == Spec => []Inv
<1>. QED
  BY InitInv, NextInv, PTL DEF Spec

\* The state of the VM thread, of its queue and of its callers is well-formed; in
\* particular no ticket count goes below zero or above one.
THEOREM TypeCorrect == Spec => []TypeOK
<1>1. Inv => TypeOK
  BY DEF Inv
<1>. QED
  BY <1>1, Invariance, PTL

\* The VM thread touches no deallocated operation: the caller of loop()'s current
\* operation, and of all those on the queue and on the drain list, still
\* waits in execute(), or the operation is the VM thread's to deallocate.  Without
\* TraceLongCompiles, which reads the name of a completed operation.
THEOREM MemorySafe == Spec => [](~TraceLongCompiles => NoUseAfterFree)
<1>1. Inv => (~TraceLongCompiles => NoUseAfterFree)
  <2>. SUFFICES ASSUME Inv, ~TraceLongCompiles PROVE NoUseAfterFree
    OBVIOUS
  <2>1. \A o : Queued(o) => o \in live
    BY HandedFacts
  <2>2. vm \in Active => cur \in live
    BY HandedFacts
  <2>3. Range(drain_list) = {} \/ Range(drain_list) = Range(safepoint_ops)
    BY EmptyList DEF Inv, LoopInv
  <2>. QED
    BY <2>1, <2>2, <2>3 DEF NoUseAfterFree, Pending, Queued, Active
<1>. QED
  BY <1>1, Invariance, PTL

\* While an operation is evaluated, oops_do() on the queue finds every operation
\* that loop() has taken out of the queue.
THEOREM NothingHidden == Spec => []AllScanned
<1>1. Inv => AllScanned
  BY DEF Inv, LoopInv, AllScanned
<1>. QED
  BY <1>1, Invariance, PTL

\* Operations that ask for a safepoint are evaluated at one, the one being evaluated is
\* not to be evaluated again, and execute() returns only when the VM thread is done
\* with the operation.
THEOREM ReturnsAfterEvaluation == Spec => []EvaluatedOnce
<1>1. Inv => EvaluatedOnce
  <2>. SUFFICES ASSUME Inv PROVE EvaluatedOnce
    OBVIOUS
  <2>1. vm \in {"evaluate", "complete"} /\ evaluate_at_safepoint(cur) => at_safepoint
    BY DEF Inv, LoopInv
  <2>2. ASSUME NEW c \in Caller, pc[c] = "return" PROVE ~Handed(op[c])
    <3>1. /\ op[c] \in Op /\ calling_thread[op[c]] = c
          /\ ~evaluate_concurrently(op[c]) /\ outstanding[c] = 0
      BY <2>2 DEF Inv, TypeOK, CallerInv
    <3>. QED
      BY SMT, <3>1 DEF Inv, HandedInv
  <2>3. vm \in Active => ~Queued(cur)
    BY DEF Inv, ListInv
  <2>4. \A o : o \in ToEvaluate <=> Queued(o)
    BY DEF ToEvaluate, Queued, Pending, Priority
  <2>. QED
    BY <2>1, <2>2, <2>3, <2>4 DEF EvaluatedOnce, Handed, Active
<1>. QED
  BY <1>1, Invariance, PTL

=============================================================================
