-------------------------- MODULE SafepointProofs --------------------------
(***************************************************************************)
(* The safety properties of Safepoint, for any finite set of threads, any  *)
(* size of the store buffers, with fences or with the serialization page.  *)
(***************************************************************************)
EXTENDS Safepoint, FiniteSetTheorems, TLAPS

\* Zenon proves most leaves; those that say so are left to SMT.
USE ZenonT(40)

\* The states of t that memory holds or will hold.
Pending(t) ==
  {thread_state[t]} \cup {buffer[t][i] : i \in 1..Len(buffer[t])}

TransStates == {"new_trans", "in_native_trans", "in_vm_trans", "blocked_trans"}

\* t cannot get to Java or to the VM while _state stops it and the VM thread
\* has the Threads_lock.
Held(t) ==
  \/ pc[t] = "threadsLock"
  \/ pc[t] = "run" /\ thread_state_of(t) \in {"in_native", "blocked"}
  \/ /\ pc[t] \in {"check", "block"}
     /\ thread_state_of(t) \in {"in_native_trans", "blocked_trans"}

\* t is in the VM, and calls back before it gets out.
WillCallBack(t) ==
  \/ pc[t] \in {"run", "start", "callback"} /\ thread_state_of(t) = "in_vm"
  \/ pc[t] \in {"check", "block"} /\ thread_state_of(t) = "in_vm_trans"

\* The transitions there are.
Targets(s, target) ==
  /\ s \in {"new_trans", "blocked_trans"} => target = "in_vm"
  /\ s = "in_native_trans" => target \in {"in_vm", "in_Java"}
  /\ s = "in_vm_trans" => target \in {"in_Java", "in_native", "blocked"}

\* What t knows at each control point.
ControlOf(t) ==
  /\ pc[t] = "none" <=> t \notin threads
  /\ pc[t] \in {"none", "unstarted", "start"} => buffer[t] = <<>>
  /\ pc[t] = "unstarted" => thread_state_of(t) = "new"
  /\ pc[t] = "run" =>
       thread_state_of(t) \in {"new", "in_vm", "in_native", "blocked", "in_Java"}
  /\ pc[t] \in {"start", "callback"} => thread_state_of(t) = "in_vm"
  /\ pc[t] \in {"check", "leave"} => thread_state_of(t) \in TransStates
  /\ pc[t] = "block" => thread_state_of(t) \in TransStates \cup {"in_Java"}
  /\ pc[t] = "callback" => Calls_Back(saved[t])
  /\ pc[t] = "threadsLock" =>
       thread_state_of(t) = "blocked" /\ saved[t] \in TransStates \cup {"in_Java"}
  /\ pc[t] \in {"check", "leave", "block"} => Targets(thread_state_of(t), to[t])
  /\ pc[t] \in {"callback", "threadsLock"} => Targets(saved[t], to[t])

\* A thread that the VM thread has taken for stopped is held; one that it
\* expects to call back has done so, and is in line, or will do so.
TypeOf(t) ==
  /\ type[t] = "running" =>
       /\ vm \notin {"wait", "woken", "at_safepoint", "resume", "restart"}
       /\ ~has_called_back[t]
  /\ type[t] = "at_safepoint" =>
       /\ vm \notin {"out", "initiate", "serialize", "arm"}
       /\ ~has_called_back[t]
       /\ State # "not_synchronized" => Held(t)
  /\ type[t] = "call_back" =>
       /\ vm \notin {"out", "initiate", "serialize", "arm"}
       /\ has_called_back[t] => pc[t] = "threadsLock"
       /\ ~has_called_back[t] => State = "synchronizing" /\ WillCallBack(t)

\* Whatever the VM thread may read of t, now or once a store has drained, tells
\* the truth: by the fences always, by the serialization page from then on.
PendingOf(t) ==
  UseMembar \/ vm \in {"arm", "examine", "wait", "woken", "at_safepoint", "resume"} =>
    /\ "in_native" \in Pending(t) \/ "blocked" \in Pending(t) => Held(t)
    /\ "in_vm" \in Pending(t) => WillCallBack(t)

\* A thread that is to call back is in block() during synchronization only.
BlockOf(t) ==
  /\ pc[t] = "callback" => State = "synchronizing"
  /\ pc[t] = "block" =>
       \/ thread_state_of(t) \in {"in_native_trans", "blocked_trans"}
       \/ State = "synchronizing"

\* Where a thread can be that owns the Threads_lock.
OwnerOf(t) ==
  Threads_lock = t =>
    \/ pc[t] = "run" /\ thread_state_of(t) = "in_vm"
    \/ pc[t] \in {"check", "leave"} /\ thread_state_of(t) = "blocked_trans"

ThreadInv(t) ==
  /\ ControlOf(t) /\ BlockOf(t) /\ OwnerOf(t)
  /\ t \in threads => TypeOf(t) /\ PendingOf(t)

\* The VM thread owns the Threads_lock throughout; _state follows its steps.
VMInv ==
  /\ vm = "out" <=> Threads_lock # VMThread
  /\ vm \in {"out", "initiate", "restart"} <=> State = "not_synchronized"
  /\ vm \in {"at_safepoint", "resume"} <=> State = "synchronized"
  /\ PageArmed => vm \in {"examine", "wait", "woken", "at_safepoint"}
  /\ vm = "woken" => waiting_to_block = 0

\* The threads that the VM thread waits for.
Waited ==
  {t \in threads : \/ type[t] = "running"
                   \/ type[t] = "call_back" /\ ~has_called_back[t]}

CountInv ==
  waiting_to_block = IF State = "synchronizing" THEN Cardinality(Waited) ELSE 0

\* TypeOK, but for the count.
StateTypes ==
  /\ thread_state \in [JavaThread -> JavaThreadState]
  /\ buffer \in [JavaThread -> Seq(JavaThreadState)]
  /\ \A t \in JavaThread : Len(buffer[t]) <= BufferSize

OtherTypes ==
  /\ State \in {"not_synchronized", "synchronizing", "synchronized"}
  /\ counter \in {0, 1} /\ PageArmed \in BOOLEAN
  /\ Threads_lock \in JavaThread \cup {VMThread, NONE}
  /\ threads \subseteq JavaThread
  /\ type \in [JavaThread -> {"running", "at_safepoint", "call_back"}]
  /\ has_called_back \in [JavaThread -> BOOLEAN]
  /\ vm \in {"out", "initiate", "serialize", "arm", "examine", "wait", "woken",
             "at_safepoint", "resume", "restart"}
  /\ pc \in [JavaThread -> {"none", "unstarted", "run", "check", "block",
                            "callback", "threadsLock", "leave", "start"}]
  /\ to \in [JavaThread -> JavaThreadState]
  /\ saved \in [JavaThread -> JavaThreadState]

IInv ==
  /\ StateTypes /\ OtherTypes /\ VMInv /\ CountInv
  /\ \A t \in JavaThread : ThreadInv(t)

----------------------------------------------------------------------------
(* Store buffers: what a store does to a thread's latest and pending       *)
(* states.                                                                 *)

\* Everyone but t sees and has the same states as before.
SameStates(t) ==
  \A u \in JavaThread \ {t} :
    /\ thread_state_of(u)' = thread_state_of(u)
    /\ Pending(u)' = Pending(u)
    /\ buffer'[u] = buffer[u]

\* The latest state is pending, and is a state; an empty buffer holds no other.
LEMMA LatestPending ==
  ASSUME StateTypes, NEW t \in JavaThread
  PROVE  /\ thread_state_of(t) \in JavaThreadState
         /\ buffer[t] = <<>> => Pending(t) = {thread_state_of(t)}
BY SMT DEF StateTypes, thread_state_of, Pending

\* set_thread_state() makes s the latest state and one of the pending ones.
LEMMA StoreEffect ==
  ASSUME StateTypes, NEW t \in JavaThread, NEW s \in JavaThreadState,
         set_thread_state(t, s)
  PROVE  /\ StateTypes' /\ SameStates(t)
         /\ thread_state_of(t)' = s
         /\ Pending(t)' = Pending(t) \cup {s}
<1>0. BufferSize \in Nat
  BY SafepointAssumption
<1>1. /\ buffer[t] \in Seq(JavaThreadState) /\ Len(buffer[t]) \in Nat
      /\ buffer'[t] = Append(buffer[t], s)
      /\ \A u \in JavaThread \ {t} : buffer'[u] = buffer[u]
      /\ thread_state' = thread_state
  BY SMT DEF StateTypes, set_thread_state
<1>2. /\ Len(buffer'[t]) = Len(buffer[t]) + 1
      /\ buffer'[t][Len(buffer[t]) + 1] = s
      /\ \A i \in 1..Len(buffer[t]) : buffer'[t][i] = buffer[t][i]
      /\ buffer'[t] # <<>>
  BY SMT, <1>1
<1>3. StateTypes'
  <2>1. buffer' \in [JavaThread -> Seq(JavaThreadState)]
    BY SMT, <1>1 DEF StateTypes, set_thread_state
  <2>2. \A u \in JavaThread : Len(buffer'[u]) <= BufferSize
    BY SMT, <1>0, <1>1, <1>2 DEF StateTypes, set_thread_state
  <2>. QED
    BY <1>1, <2>1, <2>2 DEF StateTypes
<1>4. thread_state_of(t)' = s
  BY <1>1, <1>2 DEF thread_state_of
<1>5. Pending(t)' = Pending(t) \cup {s}
  BY SMT, <1>1, <1>2 DEF Pending
<1>6. SameStates(t)
  BY <1>1 DEF SameStates, thread_state_of, Pending
<1>. QED
  BY <1>3, <1>4, <1>5, <1>6

\* A store under a lock makes s the only state.
LEMMA LockedStoreEffect ==
  ASSUME StateTypes, NEW t \in JavaThread, NEW s \in JavaThreadState,
         set_thread_state_locked(t, s)
  PROVE  /\ StateTypes' /\ SameStates(t)
         /\ thread_state_of(t)' = s
         /\ Pending(t)' = {s}
<1>1. /\ buffer' = buffer /\ buffer[t] = <<>>
      /\ thread_state'[t] = s
      /\ \A u \in JavaThread \ {t} : thread_state'[u] = thread_state[u]
  BY DEF StateTypes, set_thread_state_locked
<1>2. StateTypes'
  BY DEF StateTypes, set_thread_state_locked
<1>. QED
  BY SMT, <1>1, <1>2 DEF SameStates, thread_state_of, Pending

\* Draining a buffer leaves the latest state, and makes no state pending.
LEMMA DrainEffect ==
  ASSUME StateTypes, NEW t \in JavaThread, Drain(t)
  PROVE  /\ StateTypes' /\ SameStates(t)
         /\ thread_state_of(t)' = thread_state_of(t)
         /\ Pending(t)' \subseteq Pending(t)
<1>0. BufferSize \in Nat
  BY SafepointAssumption
<1>1. /\ buffer[t] \in Seq(JavaThreadState) /\ buffer[t] # <<>>
      /\ buffer'[t] = Tail(buffer[t])
      /\ \A u \in JavaThread \ {t} : buffer'[u] = buffer[u]
      /\ thread_state'[t] = Head(buffer[t])
      /\ \A u \in JavaThread \ {t} : thread_state'[u] = thread_state[u]
  BY DEF StateTypes, Drain
<1>2. /\ Len(buffer[t]) \in Nat \ {0} /\ Head(buffer[t]) = buffer[t][1]
      /\ Len(buffer'[t]) = Len(buffer[t]) - 1
      /\ \A i \in 1..Len(buffer'[t]) : buffer'[t][i] = buffer[t][i + 1]
  BY SMT, <1>1
<1>3. StateTypes'
  <2>1. buffer' \in [JavaThread -> Seq(JavaThreadState)]
    BY SMT, <1>1 DEF StateTypes, Drain
  <2>2. thread_state' \in [JavaThread -> JavaThreadState]
    BY SMT, <1>1, <1>2 DEF StateTypes, Drain
  <2>3. ASSUME NEW u \in JavaThread PROVE Len(buffer'[u]) <= BufferSize
    <3>1. CASE u = t
      <4>1. Len(buffer[t]) <= BufferSize
        BY DEF StateTypes
      <4>. QED
        BY SMT, <1>0, <1>2, <3>1, <4>1
    <3>2. CASE u # t
      BY <1>1, <3>2 DEF StateTypes
    <3>. QED
      BY <3>1, <3>2
  <2>. QED
    BY <2>1, <2>2, <2>3 DEF StateTypes
<1>4. thread_state_of(t)' = thread_state_of(t)
  <2>1. buffer'[t] = <<>> <=> Len(buffer[t]) = 1
    <3>1. buffer'[t] \in Seq(JavaThreadState)
      BY <1>3 DEF StateTypes
    <3>2. buffer'[t] = <<>> <=> Len(buffer'[t]) = 0
      BY SMT, <3>1
    <3>. QED
      BY SMT, <1>2, <3>2
  <2>2. thread_state_of(t) = buffer[t][Len(buffer[t])]
    BY <1>1 DEF thread_state_of
  <2>3. thread_state_of(t)' =
          IF buffer'[t] = <<>> THEN thread_state'[t] ELSE buffer'[t][Len(buffer'[t])]
    BY DEF thread_state_of
  <2>4. CASE Len(buffer[t]) = 1
    BY <1>1, <1>2, <2>1, <2>2, <2>3, <2>4
  <2>5. CASE Len(buffer[t]) # 1
    BY SMT, <1>1, <1>2, <2>1, <2>2, <2>3, <2>5
  <2>. QED
    BY <2>4, <2>5
<1>5. Pending(t)' \subseteq Pending(t)
  BY SMT, <1>1, <1>2 DEF Pending
<1>6. SameStates(t)
  BY ZenonT(30), <1>1 DEF SameStates, thread_state_of, Pending
<1>. QED
  BY <1>3, <1>4, <1>5, <1>6

----------------------------------------------------------------------------
(* Steps of Java threads.                                                  *)

\* Nothing that concerns u changes.
Same(u) ==
  /\ pc'[u] = pc[u] /\ to'[u] = to[u] /\ saved'[u] = saved[u]
  /\ type'[u] = type[u] /\ has_called_back'[u] = has_called_back[u]
  /\ u \in threads' <=> u \in threads
  /\ thread_state_of(u)' = thread_state_of(u)
  /\ Pending(u)' = Pending(u) /\ buffer'[u] = buffer[u]

\* A thread that takes no part in a step keeps its invariant, if _state stays.
LEMMA SameThread ==
  ASSUME NEW u \in JavaThread, ThreadInv(u), Same(u), State' = State,
         Threads_lock' = u => Threads_lock = u,
         vm' = vm \/ (vm \in {"wait", "woken"} /\ vm' \in {"wait", "woken"})
  PROVE  ThreadInv(u)'
<1>2. /\ Held(u)' <=> Held(u)
      /\ WillCallBack(u)' <=> WillCallBack(u)
  BY DEF Same, Held, WillCallBack
<1>3. ControlOf(u)' /\ BlockOf(u)' /\ OwnerOf(u)'
  BY ZenonT(30) DEF Same, ThreadInv, ControlOf, BlockOf, OwnerOf
<1>4. u \in threads' => TypeOf(u)' /\ PendingOf(u)'
  BY <1>2 DEF Same, ThreadInv, TypeOf, PendingOf
<1>. QED
  BY <1>3, <1>4 DEF ThreadInv

\* A step of the threads in A that leaves _state and the VM thread alone: what
\* is to be shown about it concerns A only.
LEMMA Frame ==
  ASSUME IInv, NEW A \in SUBSET JavaThread, UNCHANGED vmVars,
         StateTypes', OtherTypes',
         \A u \in JavaThread \ A : Same(u),
         \/ Threads_lock' = Threads_lock
         \/ Threads_lock # VMThread /\ Threads_lock' \in A \cup {NONE},
         State = "synchronizing" => UNCHANGED <<threads, typeVars>>,
         \A a \in A : ThreadInv(a)'
  PROVE  IInv'
<1>1. VMInv'
  BY SafepointAssumption DEF IInv, VMInv, vmVars
<1>2. CountInv'
  BY DEF IInv, CountInv, Waited, vmVars, typeVars
<1>3. ASSUME NEW u \in JavaThread \ A PROVE ThreadInv(u)'
  <2>1. /\ Same(u) /\ ThreadInv(u)
        /\ State' = State /\ vm' = vm
        /\ Threads_lock' = u => Threads_lock = u
    BY <1>3, SafepointAssumption DEF IInv, vmVars
  <2>. QED
    BY <2>1, SameThread
<1>. QED
  BY <1>1, <1>2, <1>3 DEF IInv

\* The same for a step of one thread that changes no shared variable but the
\* states and perhaps the Threads_lock.
LEMMA OneFrame ==
  ASSUME IInv, NEW t \in JavaThread, UNCHANGED <<vmVars, threads, typeVars>>,
         StateTypes', OtherTypes', SameStates(t),
         \A u \in JavaThread \ {t} :
           pc'[u] = pc[u] /\ to'[u] = to[u] /\ saved'[u] = saved[u],
         \/ Threads_lock' = Threads_lock
         \/ Threads_lock # VMThread /\ Threads_lock' \in {t, NONE},
         ThreadInv(t)'
  PROVE  IInv'
<1>1. \A u \in JavaThread \ {t} : Same(u)
  BY DEF Same, SameStates, typeVars
<1>. QED
  BY <1>1, Frame, {t} \in SUBSET JavaThread

LEMMA TransFacts ==
  /\ Trans["new"] = "new_trans" /\ Trans["in_native"] = "in_native_trans"
  /\ Trans["in_vm"] = "in_vm_trans" /\ Trans["blocked"] = "blocked_trans"
  /\ JavaThreadState = TransStates \cup
       {"in_Java", "new", "in_native", "in_vm", "blocked"}
BY SMT DEF Trans, JavaThreadState, TransStates

\* A thread announces a transition.
LEMMA AnnounceStep ==
  ASSUME IInv, NEW t \in JavaThread,
         NEW from \in {"new", "in_native", "in_vm", "blocked"},
         NEW target \in JavaThreadState, Targets(Trans[from], target),
         Announce(t, from, target),
         \/ Threads_lock # t /\ UNCHANGED Threads_lock
         \/ Threads_lock = NONE /\ Threads_lock' = t /\ from = "blocked"
  PROVE  IInv'
<1>1. Trans[from] \in TransStates /\ Trans[from] \in JavaThreadState
  BY TransFacts DEF TransStates
<1>2. /\ StateTypes' /\ SameStates(t)
      /\ thread_state_of(t)' = Trans[from]
      /\ Pending(t)' = Pending(t) \cup {Trans[from]}
  BY <1>1, StoreEffect DEF IInv, Announce
<1>3. /\ pc[t] = "run" /\ thread_state_of(t) = from
      /\ pc'[t] = "check" /\ to'[t] = target
      /\ \A u \in JavaThread \ {t} : pc'[u] = pc[u] /\ to'[u] = to[u]
      /\ UNCHANGED <<vmVars, threads, typeVars, saved>>
  BY DEF IInv, OtherTypes, Announce, Runs, Goto
<1>4. OtherTypes'
  BY ZenonT(30), SafepointAssumption DEF IInv, OtherTypes, Announce, Goto, vmVars, typeVars
<1>5. ThreadInv(t)'
  <2>0. ThreadInv(t) /\ t \in threads /\ State' = State /\ vm' = vm
    BY <1>3 DEF IInv, ThreadInv, ControlOf, vmVars
  <2>1. ControlOf(t)'
    BY <1>1, <1>2, <1>3, <2>0 DEF ControlOf, Calls_Back
  <2>2. BlockOf(t)' /\ OwnerOf(t)'
    BY <1>2, <1>3, TransFacts, SafepointAssumption DEF BlockOf, OwnerOf
  <2>3. Held(t) => Held(t)'
    BY ZenonT(30), <1>2, <1>3, TransFacts DEF Held
  <2>4. WillCallBack(t) => WillCallBack(t)'
    BY <1>2, <1>3, TransFacts DEF WillCallBack
  <2>5. TypeOf(t)'
    BY <1>3, <2>0, <2>3, <2>4 DEF ThreadInv, TypeOf, typeVars
  <2>6. PendingOf(t)'
    BY <1>1, <1>2, <2>0, <2>3, <2>4 DEF ThreadInv, PendingOf, TransStates
  <2>. QED
    BY <2>1, <2>2, <2>5, <2>6 DEF ThreadInv
<1>. QED
  BY <1>2, <1>3, <1>4, <1>5, OneFrame, SafepointAssumption

\* At a safepoint every thread is held.
LEMMA AllHeld ==
  ASSUME IInv, NEW t \in threads, State = "synchronized"
  PROVE  Held(t)
<1>1. t \in JavaThread /\ TypeOf(t) /\ vm \in {"at_safepoint", "resume"}
  BY DEF IInv, OtherTypes, ThreadInv, VMInv
<1>2. type[t] \in {"running", "at_safepoint", "call_back"}
  BY <1>1 DEF IInv, OtherTypes
<1>. QED
  BY <1>1, <1>2 DEF TypeOf, Held

LEMMA TransitionFromJavaStep ==
  ASSUME IInv, NEW t \in JavaThread, NEW s \in {"in_vm", "in_native"},
         transition_from_java(t, s)
  PROVE  IInv'
<1>1. s \in JavaThreadState
  BY TransFacts
<1>2. /\ StateTypes' /\ SameStates(t)
      /\ thread_state_of(t)' = s
      /\ Pending(t)' = Pending(t) \cup {s}
  BY <1>1, StoreEffect DEF IInv, transition_from_java
<1>3. /\ pc[t] = "run" /\ thread_state_of(t) = "in_Java"
      /\ UNCHANGED <<vmVars, Threads_lock, threads, typeVars, locals>>
      /\ UNCHANGED <<pc, to, saved, type, has_called_back, State, vm>>
  BY DEF transition_from_java, Runs, locals, typeVars, vmVars
<1>4. OtherTypes'
  BY ZenonT(30), <1>3 DEF IInv, OtherTypes, vmVars, typeVars, locals
<1>5. ThreadInv(t)'
  <2>0. ThreadInv(t) /\ t \in threads
    BY <1>3 DEF IInv, ThreadInv, ControlOf
  <2>1. ControlOf(t)' /\ BlockOf(t)' /\ OwnerOf(t)'
    BY <1>2, <1>3, <2>0 DEF ThreadInv, ControlOf, BlockOf, OwnerOf
  <2>2. ~Held(t) /\ ~WillCallBack(t)
    BY <1>3 DEF Held, WillCallBack
  <2>3. /\ s = "in_native" => Held(t)'
        /\ s = "in_vm" => WillCallBack(t)'
    BY <1>2, <1>3 DEF Held, WillCallBack
  <2>4. TypeOf(t)'
    BY <1>3, <2>0, <2>2 DEF ThreadInv, TypeOf
  <2>5. PendingOf(t)'
    BY <1>2, <1>3, <2>0, <2>2, <2>3 DEF ThreadInv, PendingOf
  <2>. QED
    BY <2>1, <2>4, <2>5 DEF ThreadInv
<1>. QED
  BY <1>2, <1>3, <1>4, <1>5, OneFrame

\* A thread looks at _state: it blocks if it has to, and if it does not, a fence
\* has made its announcement the only state that anyone can see.
LEMMA CheckStateStep ==
  ASSUME IInv, NEW t \in JavaThread, CheckState(t)
  PROVE  IInv'
<1>1. /\ pc[t] = "check"
      /\ pc'[t] = IF State # "not_synchronized" THEN "block" ELSE "leave"
      /\ \A u \in JavaThread \ {t} : pc'[u] = pc[u]
      /\ UNCHANGED <<vmVars, Threads_lock, threads, typeVars, stateVars, to, saved>>
      /\ UNCHANGED <<type, has_called_back, State, vm, thread_state, buffer>>
      /\ UseMembar => buffer[t] = <<>>
  BY DEF IInv, OtherTypes, CheckState, Step, Goto, do_call_back, Fenced, typeVars,
         vmVars, stateVars
<1>2. /\ \A u \in JavaThread : /\ thread_state_of(u)' = thread_state_of(u)
                               /\ Pending(u)' = Pending(u)
      /\ StateTypes' /\ SameStates(t)
  BY <1>1 DEF IInv, StateTypes, SameStates, thread_state_of, Pending
<1>3. OtherTypes'
  BY ZenonT(30), <1>1 DEF IInv, OtherTypes, CheckState, Step, Goto, vmVars, typeVars
<1>4. ThreadInv(t)'
  <2>0. /\ ThreadInv(t) /\ t \in threads /\ VMInv
        /\ thread_state_of(t) \in TransStates
    BY <1>1 DEF IInv, ThreadInv, ControlOf
  <2>1. ControlOf(t)'
    BY <1>1, <1>2, <2>0 DEF ThreadInv, ControlOf
  <2>2. State = "synchronized" => Held(t)
    BY <2>0, AllHeld
  <2>3. BlockOf(t)' /\ OwnerOf(t)'
    <3>1. State \in {"not_synchronized", "synchronizing", "synchronized"}
      BY DEF IInv, OtherTypes
    <3>2. Threads_lock = t => State = "not_synchronized"
      BY <2>0, SafepointAssumption DEF VMInv
    <3>. QED
      BY <1>1, <1>2, <2>0, <2>2, <3>1, <3>2 DEF BlockOf, OwnerOf, ThreadInv, Held
  <2>4. State # "not_synchronized" =>
          (Held(t) => Held(t)') /\ (WillCallBack(t) => WillCallBack(t)')
    BY <1>1, <1>2 DEF Held, WillCallBack
  <2>5. TypeOf(t)'
    BY <1>1, <2>0, <2>4 DEF ThreadInv, TypeOf
  <2>6. PendingOf(t)'
    <3>1. CASE State # "not_synchronized"
      BY <1>1, <1>2, <2>0, <2>4, <3>1 DEF ThreadInv, PendingOf
    <3>2. CASE State = "not_synchronized"
      <4>1. vm \in {"out", "initiate", "restart"}
        BY <2>0, <3>2 DEF VMInv
      <4>2. UseMembar => Pending(t) = {thread_state_of(t)}
        BY <1>1, LatestPending DEF IInv
      <4>. QED
        BY SMT, <1>1, <1>2, <2>0, <4>1, <4>2 DEF PendingOf, TransStates
    <3>. QED
      BY <3>1, <3>2
  <2>. QED
    BY <2>1, <2>3, <2>5, <2>6 DEF ThreadInv
<1>. QED
  BY <1>1, <1>2, <1>3, <1>4, OneFrame

LEMMA LeaveStep ==
  ASSUME IInv, NEW t \in JavaThread, Leave(t)
  PROVE  IInv'
<1>0. /\ ThreadInv(t) /\ pc[t] = "leave" /\ t \in threads
      /\ thread_state_of(t) \in TransStates
      /\ to[t] \in {"in_vm", "in_Java", "in_native", "blocked"}
      /\ thread_state_of(t) = "blocked_trans" => to[t] = "in_vm"
      /\ to[t] \in JavaThreadState
  BY DEF IInv, OtherTypes, ThreadInv, ControlOf, Targets, TransStates, Leave, Step
<1>1. /\ StateTypes' /\ SameStates(t)
      /\ thread_state_of(t)' = to[t]
      /\ Pending(t)' = Pending(t) \cup {to[t]}
  BY <1>0, StoreEffect DEF IInv, Leave
<1>2. /\ pc'[t] = "run"
      /\ \A u \in JavaThread \ {t} : pc'[u] = pc[u] /\ to'[u] = to[u]
      /\ UNCHANGED <<vmVars, Threads_lock, threads, typeVars, saved>>
      /\ UNCHANGED <<type, has_called_back, State, vm>>
  BY DEF IInv, OtherTypes, Leave, Step, Goto, vmVars, typeVars
<1>3. OtherTypes'
  BY SMT, TransFacts, <1>2 DEF IInv, OtherTypes, Leave, Step, Goto, vmVars, typeVars
<1>4. ThreadInv(t)'
  <2>1. ControlOf(t)' /\ BlockOf(t)' /\ OwnerOf(t)'
    BY <1>0, <1>1, <1>2 DEF ThreadInv, ControlOf, BlockOf, OwnerOf
  <2>2. ~Held(t) /\ ~WillCallBack(t)
    BY <1>0 DEF Held, WillCallBack
  <2>3. /\ to[t] \in {"in_native", "blocked"} => Held(t)'
        /\ to[t] = "in_vm" => WillCallBack(t)'
    BY <1>1, <1>2 DEF Held, WillCallBack
  <2>4. TypeOf(t)'
    BY <1>0, <1>2, <2>2 DEF ThreadInv, TypeOf
  <2>5. PendingOf(t)'
    BY <1>0, <1>1, <1>2, <2>2, <2>3 DEF ThreadInv, PendingOf
  <2>. QED
    BY <2>1, <2>4, <2>5 DEF ThreadInv
<1>. QED
  BY <1>1, <1>2, <1>3, <1>4, OneFrame

LEMMA PollStep ==
  ASSUME IInv, NEW t \in JavaThread, Poll(t)
  PROVE  IInv'
<1>1. /\ pc[t] = "run" /\ thread_state_of(t) = "in_Java" /\ PageArmed
      /\ pc'[t] = "block"
      /\ \A u \in JavaThread \ {t} : pc'[u] = pc[u]
      /\ UNCHANGED <<vmVars, Threads_lock, threads, typeVars, stateVars, to, saved>>
      /\ UNCHANGED <<type, has_called_back, State, vm, thread_state, buffer>>
  BY DEF IInv, OtherTypes, Poll, Runs, Goto, typeVars, vmVars, stateVars
<1>2. /\ \A u \in JavaThread : /\ thread_state_of(u)' = thread_state_of(u)
                               /\ Pending(u)' = Pending(u)
      /\ StateTypes' /\ SameStates(t)
  BY <1>1 DEF IInv, StateTypes, SameStates, thread_state_of, Pending
<1>3. OtherTypes'
  BY ZenonT(30), <1>1 DEF IInv, OtherTypes, Poll, Goto, vmVars, typeVars
<1>4. ThreadInv(t)'
  <2>0. ThreadInv(t) /\ t \in threads
    BY <1>1 DEF IInv, ThreadInv, ControlOf
  <2>1. ~Held(t) /\ ~WillCallBack(t)
    BY <1>1 DEF Held, WillCallBack
  <2>2. State = "synchronizing"
    BY <1>1, <2>0, <2>1, AllHeld DEF IInv, OtherTypes, VMInv
  <2>3. ControlOf(t)' /\ BlockOf(t)' /\ OwnerOf(t)'
    BY <1>1, <1>2, <2>0, <2>2 DEF ThreadInv, ControlOf, BlockOf, OwnerOf, Targets
  <2>4. TypeOf(t)'
    BY <1>1, <2>0, <2>1, <2>2 DEF ThreadInv, TypeOf
  <2>5. PendingOf(t)'
    BY <1>1, <1>2, <2>0, <2>1 DEF ThreadInv, PendingOf
  <2>. QED
    BY <2>3, <2>4, <2>5 DEF ThreadInv
<1>. QED
  BY <1>1, <1>2, <1>3, <1>4, OneFrame

LEMMA BlockStep ==
  ASSUME IInv, NEW t \in JavaThread, block(t)
  PROVE  IInv'
<1> DEFINE s == thread_state_of(t)
           n == IF Calls_Back(s) THEN "in_vm" ELSE "blocked"
<1>0. /\ ThreadInv(t) /\ pc[t] = "block" /\ t \in threads
      /\ s \in TransStates \cup {"in_Java"} /\ s \in JavaThreadState
      /\ n \in JavaThreadState
  BY TransFacts DEF IInv, ThreadInv, ControlOf, block, Step
<1>1. /\ StateTypes' /\ SameStates(t)
      /\ thread_state_of(t)' = n
      /\ Pending(t)' = Pending(t) \cup {n}
  BY <1>0, StoreEffect DEF IInv, block
<1>2. /\ pc'[t] = IF Calls_Back(s) THEN "callback" ELSE "threadsLock"
      /\ saved'[t] = s
      /\ \A u \in JavaThread \ {t} : pc'[u] = pc[u] /\ saved'[u] = saved[u]
      /\ UNCHANGED <<vmVars, Threads_lock, threads, typeVars, to>>
      /\ UNCHANGED <<type, has_called_back, State, vm>>
  BY DEF IInv, OtherTypes, block, Step, Goto, vmVars, typeVars
<1>3. OtherTypes'
  BY ZenonT(30), <1>0, <1>2 DEF IInv, OtherTypes, block, Step, Goto, vmVars, typeVars
<1> HIDE DEF s, n
<1>4. ThreadInv(t)'
  <2>1. s = thread_state_of(t) /\ n = IF Calls_Back(s) THEN "in_vm" ELSE "blocked"
    BY DEF s, n
  <2>2. ControlOf(t)' /\ BlockOf(t)' /\ OwnerOf(t)'
    BY <1>0, <1>1, <1>2, <2>1
    DEF ThreadInv, ControlOf, BlockOf, OwnerOf, Calls_Back
  <2>3. /\ Calls_Back(s) => WillCallBack(t)' /\ ~Held(t)
        /\ ~Calls_Back(s) => Held(t)' /\ ~WillCallBack(t)
    BY <1>0, <1>1, <1>2, <2>1 DEF Held, WillCallBack, Calls_Back
  <2>4. TypeOf(t)'
    BY <1>0, <1>2, <2>3 DEF ThreadInv, TypeOf
  <2>5. PendingOf(t)'
    BY <1>0, <1>1, <1>2, <2>1, <2>3 DEF ThreadInv, PendingOf
  <2>. QED
    BY <2>2, <2>4, <2>5 DEF ThreadInv
<1>. QED
  BY <1>1, <1>2, <1>3, <1>4, OneFrame

LEMMA ResumeStep ==
  ASSUME IInv, NEW t \in JavaThread, Resume(t)
  PROVE  IInv'
<1>0. /\ ThreadInv(t) /\ pc[t] = "threadsLock" /\ t \in threads
      /\ saved[t] \in TransStates \cup {"in_Java"}
      /\ saved[t] \in JavaThreadState /\ Targets(saved[t], to[t])
      /\ Threads_lock = NONE /\ vm = "out"
  BY SafepointAssumption
  DEF IInv, OtherTypes, ThreadInv, ControlOf, VMInv, Resume, Step
<1>1. /\ StateTypes' /\ SameStates(t)
      /\ thread_state_of(t)' = saved[t]
      /\ Pending(t)' = {saved[t]}
  BY <1>0, LockedStoreEffect DEF IInv, Resume
<1>2. /\ pc'[t] = IF saved[t] = "in_Java" THEN "run" ELSE "leave"
      /\ \A u \in JavaThread \ {t} : pc'[u] = pc[u] /\ saved'[u] = saved[u]
      /\ UNCHANGED <<vmVars, Threads_lock, threads, typeVars, to>>
      /\ UNCHANGED <<type, has_called_back, State, vm>>
  BY DEF IInv, OtherTypes, Resume, Step, Goto, vmVars, typeVars
<1>3. OtherTypes'
  BY SMT, TransFacts, <1>2 DEF IInv, OtherTypes, Resume, Step, Goto, vmVars, typeVars
<1>4. ThreadInv(t)'
  <2>1. ControlOf(t)' /\ BlockOf(t)' /\ OwnerOf(t)'
    BY <1>0, <1>1, <1>2, SafepointAssumption
    DEF ThreadInv, ControlOf, BlockOf, OwnerOf
  <2>2. TypeOf(t)' /\ PendingOf(t)'
    BY <1>0, <1>1, <1>2 DEF ThreadInv, TypeOf, PendingOf, TransStates
  <2>. QED
    BY <2>1, <2>2 DEF ThreadInv
<1>. QED
  BY <1>1, <1>2, <1>3, <1>4, OneFrame

LEMMA DrainStep ==
  ASSUME IInv, NEW t \in JavaThread, Drain(t)
  PROVE  IInv'
<1>1. /\ StateTypes' /\ SameStates(t)
      /\ thread_state_of(t)' = thread_state_of(t)
      /\ Pending(t)' \subseteq Pending(t)
  BY DrainEffect DEF IInv
<1>2. /\ buffer[t] # <<>>
      /\ UNCHANGED <<vmVars, Threads_lock, threads, typeVars>>
      /\ UNCHANGED <<type, has_called_back, State, vm, pc, to, saved>>
  BY DEF Drain, vmVars, typeVars, locals
<1>3. OtherTypes'
  BY <1>2 DEF IInv, OtherTypes, vmVars, typeVars
<1>4. ThreadInv(t)'
  <2>0. ThreadInv(t)
    BY DEF IInv
  <2>1. ControlOf(t)' /\ BlockOf(t)' /\ OwnerOf(t)'
    BY <1>1, <1>2, <2>0 DEF ThreadInv, ControlOf, BlockOf, OwnerOf
  <2>2. (Held(t)' <=> Held(t)) /\ (WillCallBack(t)' <=> WillCallBack(t))
    BY <1>1, <1>2 DEF Held, WillCallBack
  <2>3. t \in threads' => TypeOf(t)' /\ PendingOf(t)'
    BY <1>1, <1>2, <2>0, <2>2 DEF ThreadInv, TypeOf, PendingOf
  <2>. QED
    BY <2>1, <2>3 DEF ThreadInv
<1>. QED
  BY <1>1, <1>2, <1>3, <1>4, OneFrame

LEMMA LockThreadsStep ==
  ASSUME IInv, NEW t \in JavaThread, LockThreads(t)
  PROVE  IInv'
<1>1. /\ Threads_lock = NONE /\ Threads_lock' = t
      /\ pc[t] = "run" /\ thread_state_of(t) = "in_vm"
      /\ UNCHANGED <<vmVars, threads, typeVars>>
      /\ UNCHANGED <<type, has_called_back, State, vm, pc, to, saved, thread_state,
                     buffer>>
  BY DEF LockThreads, Runs, vmVars, typeVars, locals, stateVars
<1>2. /\ \A u \in JavaThread : /\ thread_state_of(u)' = thread_state_of(u)
                               /\ Pending(u)' = Pending(u)
      /\ StateTypes' /\ SameStates(t)
  BY <1>1 DEF IInv, StateTypes, SameStates, thread_state_of, Pending
<1>3. OtherTypes'
  BY <1>1 DEF IInv, OtherTypes, vmVars, typeVars
<1>4. ThreadInv(t)'
  <2>0. ThreadInv(t)
    BY DEF IInv
  <2>1. ControlOf(t)' /\ BlockOf(t)' /\ OwnerOf(t)'
    BY <1>1, <1>2, <2>0 DEF ThreadInv, ControlOf, BlockOf, OwnerOf
  <2>2. (Held(t)' <=> Held(t)) /\ (WillCallBack(t)' <=> WillCallBack(t))
    BY <1>1, <1>2 DEF Held, WillCallBack
  <2>3. t \in threads' => TypeOf(t)' /\ PendingOf(t)'
    BY <1>1, <1>2, <2>0, <2>2 DEF ThreadInv, TypeOf, PendingOf
  <2>. QED
    BY <2>1, <2>3 DEF ThreadInv
<1>. QED
  BY <1>1, <1>2, <1>3, <1>4, OneFrame, SafepointAssumption

LEMMA WaitedFinite ==
  ASSUME OtherTypes
  PROVE  /\ IsFiniteSet(threads) /\ Cardinality(threads) \in Nat
         /\ IsFiniteSet(Waited) /\ Cardinality(Waited) \in Nat
         /\ Cardinality(Waited) <= Cardinality(JavaThread)
<1>1. threads \in SUBSET JavaThread /\ Waited \in SUBSET JavaThread
  BY DEF OtherTypes, Waited
<1>2. IsFiniteSet(JavaThread)
  BY SafepointAssumption
<1>. QED
  BY <1>1, <1>2, FS_Subset, FS_CardinalityType

\* A thread calls back: the VM thread waits, has examined it, and expects it.
LEMMA CallBackStep ==
  ASSUME IInv, NEW t \in JavaThread, CallBack(t)
  PROVE  IInv'
<1>0. /\ ThreadInv(t) /\ pc[t] = "callback" /\ t \in threads
      /\ State = "synchronizing" /\ vm \in {"wait", "woken"}
      /\ Calls_Back(saved[t]) /\ Targets(saved[t], to[t])
  BY DEF IInv, OtherTypes, ThreadInv, ControlOf, BlockOf, VMInv, CallBack, Step,
         Safepoint_locked
<1>1. type[t] = "call_back" /\ ~has_called_back[t]
  BY <1>0 DEF IInv, OtherTypes, ThreadInv, TypeOf, Held
<1>2. /\ StateTypes' /\ SameStates(t)
      /\ thread_state_of(t)' = "blocked"
      /\ Pending(t)' = {"blocked"}
  BY TransFacts, LockedStoreEffect DEF IInv, CallBack
<1>3. /\ pc'[t] = "threadsLock" /\ has_called_back'[t]
      /\ \A u \in JavaThread \ {t} :
           pc'[u] = pc[u] /\ has_called_back'[u] = has_called_back[u]
      /\ waiting_to_block' = waiting_to_block - 1
      /\ vm' = IF waiting_to_block' = 0 /\ vm = "wait" THEN "woken" ELSE vm
      /\ UNCHANGED <<State, counter, PageArmed, Threads_lock, threads, type, to, saved>>
  BY <1>0 DEF IInv, OtherTypes, CallBack, Step, Goto, notify_all
<1>4. OtherTypes'
  BY ZenonT(30), <1>0, <1>3 DEF IInv, OtherTypes, CallBack, Step, Goto
<1>5. CountInv' /\ vm = "wait" /\ waiting_to_block \in Nat
  <2>1. t \in Waited /\ Waited' = Waited \ {t}
    BY <1>0, <1>1, <1>3 DEF Waited, IInv, OtherTypes
  <2>2. /\ IsFiniteSet(Waited) /\ Cardinality(Waited) \in Nat
        /\ waiting_to_block = Cardinality(Waited)
    BY <1>0, WaitedFinite DEF IInv, CountInv
  <2>3. Cardinality(Waited \ {t}) = Cardinality(Waited) - 1
    BY <2>1, <2>2, FS_RemoveElement
  <2>4. waiting_to_block # 0
    BY <2>1, <2>2, FS_EmptySet
  <2>. QED
    BY <1>0, <1>3, <2>1, <2>2, <2>3, <2>4 DEF CountInv, IInv, VMInv
<1>6. VMInv'
  BY <1>0, <1>3, <1>5 DEF IInv, VMInv
<1>7. ThreadInv(t)'
  <2>1. ControlOf(t)' /\ BlockOf(t)' /\ OwnerOf(t)'
    BY <1>0, <1>2, <1>3
    DEF ThreadInv, ControlOf, BlockOf, OwnerOf, Calls_Back, TransStates
  <2>2. Held(t)'
    BY <1>3 DEF Held
  <2>3. TypeOf(t)' /\ PendingOf(t)'
    BY <1>0, <1>1, <1>2, <1>3, <2>2 DEF TypeOf, PendingOf
  <2>. QED
    BY <2>1, <2>3 DEF ThreadInv
<1>8. ASSUME NEW u \in JavaThread \ {t} PROVE ThreadInv(u)'
  <2>1. Same(u)
    BY <1>2, <1>3 DEF Same, SameStates
  <2>2. ThreadInv(u) /\ State' = State /\ Threads_lock' = Threads_lock
        /\ vm' \in {"wait", "woken"}
    BY <1>0, <1>3 DEF IInv
  <2>. QED
    BY <1>0, <2>1, <2>2, SameThread
<1>. QED
  BY <1>2, <1>4, <1>5, <1>6, <1>7, <1>8 DEF IInv

\* The owner of the Threads_lock works while no safepoint is under way.
LEMMA OwnerFacts ==
  ASSUME IInv, NEW t \in JavaThread, Owns(t)
  PROVE  /\ ThreadInv(t) /\ t \in threads /\ Threads_lock = t
         /\ vm = "out" /\ State = "not_synchronized"
         /\ pc[t] = "run" /\ thread_state_of(t) = "in_vm"
         /\ buffer[t] = <<>> /\ Pending(t) = {"in_vm"}
<1>1. /\ ThreadInv(t) /\ Threads_lock = t /\ vm = "out"
      /\ State = "not_synchronized" /\ pc[t] = "run"
      /\ thread_state_of(t) = "in_vm" /\ buffer[t] = <<>>
  BY SafepointAssumption DEF IInv, VMInv, Owns, Runs
<1>2. t \in threads
  BY <1>1 DEF ThreadInv, ControlOf
<1>3. Pending(t) = {"in_vm"}
  BY <1>1, LatestPending DEF IInv
<1>. QED
  BY <1>1, <1>2, <1>3

LEMMA AddStep ==
  ASSUME IInv, NEW t \in JavaThread, NEW u \in JavaThread, add(t, u)
  PROVE  IInv'
<1>0. /\ ThreadInv(t) /\ t \in threads /\ Threads_lock = t
      /\ vm = "out" /\ State = "not_synchronized"
      /\ pc[t] = "run" /\ thread_state_of(t) = "in_vm"
      /\ buffer[t] = <<>> /\ Pending(t) = {"in_vm"}
  BY OwnerFacts DEF add
<1>1. /\ ThreadInv(u) /\ u \notin threads /\ pc[u] = "none" /\ t # u
      /\ buffer[u] = <<>>
  BY <1>0 DEF IInv, ThreadInv, ControlOf, add
<1>2. /\ threads' = threads \cup {u} /\ Threads_lock' = NONE
      /\ UNCHANGED <<vmVars, buffer, to, saved>> /\ UNCHANGED <<vm, State>>
      /\ pc'[t] = "start" /\ pc'[u] = "unstarted"
      /\ type'[u] = "running" /\ ~has_called_back'[u]
      /\ type'[t] = type[t] /\ has_called_back'[t] = has_called_back[t]
      /\ thread_state'[u] = "new" /\ thread_state'[t] = thread_state[t]
      /\ \A v \in JavaThread \ {t, u} :
           /\ pc'[v] = pc[v] /\ type'[v] = type[v]
           /\ has_called_back'[v] = has_called_back[v]
           /\ thread_state'[v] = thread_state[v]
  BY <1>1 DEF IInv, StateTypes, OtherTypes, add, vmVars
<1>3. /\ thread_state_of(u)' = "new" /\ Pending(u)' = {"new"}
      /\ thread_state_of(t)' = "in_vm" /\ Pending(t)' = {"in_vm"}
  BY SMT, <1>0, <1>1, <1>2 DEF thread_state_of, Pending
<1>4. \A v \in JavaThread \ {t, u} : Same(v)
  BY SMT, <1>2 DEF Same, thread_state_of, Pending
<1>5. StateTypes'
  BY <1>2, TransFacts DEF IInv, StateTypes, add
<1>6. OtherTypes'
  BY ZenonT(30), <1>2 DEF IInv, OtherTypes, add, vmVars
<1>7. ThreadInv(t)'
  <2>1. ControlOf(t)' /\ BlockOf(t)' /\ OwnerOf(t)'
    BY <1>0, <1>1, <1>2, <1>3, SafepointAssumption
    DEF ThreadInv, ControlOf, BlockOf, OwnerOf
  <2>2. WillCallBack(t)'
    BY <1>2, <1>3 DEF WillCallBack
  <2>3. TypeOf(t)' /\ PendingOf(t)'
    BY <1>0, <1>2, <1>3, <2>2 DEF ThreadInv, TypeOf, PendingOf
  <2>. QED
    BY <2>1, <2>3 DEF ThreadInv
<1>8. ThreadInv(u)'
  <2>1. ControlOf(u)' /\ BlockOf(u)' /\ OwnerOf(u)'
    BY <1>0, <1>1, <1>2, <1>3, SafepointAssumption
    DEF ThreadInv, ControlOf, BlockOf, OwnerOf
  <2>2. TypeOf(u)' /\ PendingOf(u)'
    BY <1>0, <1>2, <1>3 DEF TypeOf, PendingOf
  <2>. QED
    BY <2>1, <2>2 DEF ThreadInv
<1>9. Threads_lock # VMThread /\ {t, u} \in SUBSET JavaThread
  BY <1>0, SafepointAssumption
<1>. QED
  BY <1>0, <1>2, <1>4, <1>5, <1>6, <1>7, <1>8, <1>9, Frame

LEMMA StartStep ==
  ASSUME IInv, NEW t \in JavaThread, NEW u \in JavaThread, Start(t, u)
  PROVE  IInv'
<1>1. /\ pc[t] = "start" /\ pc[u] = "unstarted" /\ t # u
      /\ pc'[t] = "run" /\ pc'[u] = "run"
      /\ \A v \in JavaThread \ {t, u} : pc'[v] = pc[v]
      /\ UNCHANGED <<vmVars, Threads_lock, threads, typeVars, stateVars, to, saved>>
      /\ UNCHANGED <<type, has_called_back, State, vm, thread_state, buffer>>
  BY DEF IInv, OtherTypes, Start, typeVars, vmVars, stateVars
<1>2. \A v \in JavaThread : /\ thread_state_of(v)' = thread_state_of(v)
                            /\ Pending(v)' = Pending(v)
  BY <1>1 DEF thread_state_of, Pending
<1>3. StateTypes' /\ OtherTypes'
  BY ZenonT(30), <1>1 DEF IInv, StateTypes, OtherTypes, Start, vmVars, typeVars
<1>4. \A v \in JavaThread \ {t, u} : Same(v)
  BY <1>1, <1>2 DEF Same
<1>5. ThreadInv(t)'
  <2>0. ThreadInv(t) /\ t \in threads /\ thread_state_of(t) = "in_vm"
    BY <1>1 DEF IInv, ThreadInv, ControlOf
  <2>1. ControlOf(t)' /\ BlockOf(t)' /\ OwnerOf(t)'
    BY <1>1, <1>2, <2>0 DEF ThreadInv, ControlOf, BlockOf, OwnerOf
  <2>2. WillCallBack(t)' /\ WillCallBack(t) /\ ~Held(t)
    BY <1>1, <1>2, <2>0 DEF Held, WillCallBack
  <2>3. TypeOf(t)' /\ PendingOf(t)'
    BY <1>1, <1>2, <2>0, <2>2 DEF ThreadInv, TypeOf, PendingOf
  <2>. QED
    BY <2>1, <2>3 DEF ThreadInv
<1>6. ThreadInv(u)'
  <2>0. ThreadInv(u) /\ u \in threads /\ thread_state_of(u) = "new"
    BY <1>1 DEF IInv, ThreadInv, ControlOf
  <2>1. ControlOf(u)' /\ BlockOf(u)' /\ OwnerOf(u)'
    BY <1>1, <1>2, <2>0 DEF ThreadInv, ControlOf, BlockOf, OwnerOf
  <2>2. ~Held(u) /\ ~WillCallBack(u)
    BY <1>1 DEF Held, WillCallBack
  <2>3. TypeOf(u)' /\ PendingOf(u)'
    BY <1>1, <1>2, <2>0, <2>2 DEF ThreadInv, TypeOf, PendingOf
  <2>. QED
    BY <2>1, <2>3 DEF ThreadInv
<1>. QED
  BY <1>1, <1>3, <1>4, <1>5, <1>6, Frame, {t, u} \in SUBSET JavaThread

LEMMA RemoveStep ==
  ASSUME IInv, NEW t \in JavaThread, remove(t)
  PROVE  IInv'
<1>0. /\ ThreadInv(t) /\ Threads_lock = t /\ State = "not_synchronized"
      /\ buffer[t] = <<>>
  BY OwnerFacts DEF remove
<1>1. /\ pc'[t] = "none" /\ threads' = threads \ {t} /\ Threads_lock' = NONE
      /\ \A u \in JavaThread \ {t} : pc'[u] = pc[u]
      /\ UNCHANGED <<vmVars, typeVars, stateVars, to, saved>>
      /\ UNCHANGED <<type, has_called_back, State, vm, thread_state, buffer>>
  BY DEF IInv, OtherTypes, remove, Goto, typeVars, vmVars, stateVars
<1>2. \A u \in JavaThread : /\ thread_state_of(u)' = thread_state_of(u)
                            /\ Pending(u)' = Pending(u)
  BY <1>1 DEF thread_state_of, Pending
<1>3. StateTypes' /\ OtherTypes'
  BY <1>1 DEF IInv, StateTypes, OtherTypes, remove, Goto, vmVars, typeVars
<1>4. \A u \in JavaThread \ {t} : Same(u)
  BY <1>1, <1>2 DEF Same
<1>5. ThreadInv(t)'
  BY <1>0, <1>1, <1>2, SafepointAssumption
  DEF ThreadInv, ControlOf, BlockOf, OwnerOf
<1>6. Threads_lock # VMThread /\ {t} \in SUBSET JavaThread
  BY <1>0, SafepointAssumption
<1>. QED
  BY <1>0, <1>1, <1>3, <1>4, <1>5, <1>6, Frame

----------------------------------------------------------------------------
(* Steps of the VM thread.                                                 *)

\* They leave what Java threads have and do alone, but for a flush of all store
\* buffers.
JavaSame ==
  /\ UNCHANGED <<threads, pc, to, saved, thread_state, buffer>>
  /\ \A u \in JavaThread : /\ thread_state_of(u)' = thread_state_of(u)
                           /\ Pending(u)' = Pending(u)
                           /\ Held(u)' <=> Held(u)
                           /\ WillCallBack(u)' <=> WillCallBack(u)

LEMMA JavaUnchanged ==
  ASSUME UNCHANGED <<threads, stateVars, locals>>
  PROVE  JavaSame
<1>1. UNCHANGED <<threads, pc, to, saved, thread_state, buffer>>
  BY DEF stateVars, locals
<1>2. \A u \in JavaThread : /\ thread_state_of(u)' = thread_state_of(u)
                            /\ Pending(u)' = Pending(u)
  BY <1>1 DEF thread_state_of, Pending
<1>. QED
  BY <1>1, <1>2 DEF JavaSame, Held, WillCallBack

\* Such a step, without the flush: control is as it was.
LEMMA VMFrame ==
  ASSUME IInv, JavaSame, NEW u \in JavaThread,
         Threads_lock' \notin JavaThread
  PROVE  ThreadInv(u) /\ ControlOf(u)' /\ OwnerOf(u)'
BY DEF IInv, ThreadInv, JavaSame, ControlOf, OwnerOf

LEMMA TakeThreadsLockStep ==
  ASSUME IInv, TakeThreadsLock
  PROVE  IInv'
<1>1. /\ vm = "out" /\ vm' = "initiate" /\ Threads_lock' = VMThread
      /\ UNCHANGED <<State, waiting_to_block, counter, PageArmed, type,
                     has_called_back, threads, thread_state, buffer, pc, to, saved>>
      /\ JavaSame
  BY JavaUnchanged
  DEF TakeThreadsLock, VMStep, Threads_lock_lock, typeVars, stateVars, locals
<1>2. StateTypes' /\ OtherTypes' /\ CountInv'
  BY <1>1 DEF IInv, StateTypes, OtherTypes, CountInv, Waited
<1>3. VMInv'
  BY <1>1 DEF IInv, VMInv
<1>4. ASSUME NEW u \in JavaThread PROVE ThreadInv(u)'
  <2>1. ThreadInv(u) /\ ControlOf(u)' /\ OwnerOf(u)'
    BY <1>1, VMFrame, SafepointAssumption
  <2>2. BlockOf(u)' /\ (u \in threads' => TypeOf(u)' /\ PendingOf(u)')
    BY <1>1, <2>1 DEF ThreadInv, BlockOf, TypeOf, PendingOf, JavaSame
  <2>. QED
    BY <2>1, <2>2 DEF ThreadInv
<1>. QED
  BY <1>2, <1>3, <1>4 DEF IInv

LEMMA InitiateStep ==
  ASSUME IInv, Initiate
  PROVE  IInv'
<1>1. /\ vm = "initiate" /\ vm' = "serialize" /\ State' = "synchronizing"
      /\ waiting_to_block' = Cardinality(threads)
      /\ UNCHANGED <<counter, PageArmed, Threads_lock, type, has_called_back, threads,
                     thread_state, buffer, pc, to, saved>>
      /\ JavaSame
  BY JavaUnchanged
  DEF Initiate, VMStep, number_of_threads, typeVars, stateVars, locals
<1>2. StateTypes' /\ OtherTypes'
  BY <1>1 DEF IInv, StateTypes, OtherTypes
<1>3. VMInv' /\ Threads_lock = VMThread /\ State = "not_synchronized"
  BY <1>1 DEF IInv, VMInv
<1>4. CountInv'
  <2>1. ASSUME NEW u \in threads PROVE type[u] = "running"
    BY <1>1 DEF IInv, OtherTypes, ThreadInv, TypeOf
  <2>2. Waited' = threads
    BY <1>1, <2>1 DEF Waited
  <2>. QED
    BY <1>1, <2>2 DEF CountInv
<1>5. ASSUME NEW u \in JavaThread PROVE ThreadInv(u)'
  <2>1. ThreadInv(u) /\ ControlOf(u)' /\ OwnerOf(u)'
    BY <1>1, <1>3, VMFrame, SafepointAssumption
  <2>2. BlockOf(u)'
    BY <1>1 DEF BlockOf
  <2>3. u \in threads' => TypeOf(u)' /\ PendingOf(u)'
    BY <1>1, <2>1 DEF ThreadInv, TypeOf, PendingOf, JavaSame
  <2>. QED
    BY <2>1, <2>2, <2>3 DEF ThreadInv
<1>. QED
  BY <1>2, <1>3, <1>4, <1>5 DEF IInv

\* The flush: from now on the memory holds every thread's latest state, and the
\* control point of the thread says what that means.
LEMMA SerializeStep ==
  ASSUME IInv, Serialize
  PROVE  IInv'
<1>1. /\ vm = "serialize" /\ vm' = "arm"
      /\ UNCHANGED <<State, waiting_to_block, counter, PageArmed, Threads_lock, type,
                     has_called_back, threads, pc, to, saved>>
      /\ UseMembar => UNCHANGED <<thread_state, buffer>>
      /\ ~UseMembar =>
           /\ thread_state' = [t \in JavaThread |-> thread_state_of(t)]
           /\ buffer' = [t \in JavaThread |-> <<>>]
  BY DEF Serialize, VMStep, serialize_thread_states, typeVars, stateVars, locals
<1>2. /\ StateTypes'
      /\ \A u \in JavaThread :
           /\ thread_state_of(u)' = thread_state_of(u)
           /\ Pending(u)' = IF UseMembar THEN Pending(u) ELSE {thread_state_of(u)}
           /\ buffer[u] = <<>> => buffer'[u] = <<>>
  <2>1. CASE UseMembar
    BY SMT, <1>1, <2>1 DEF IInv, StateTypes, thread_state_of, Pending
  <2>2. CASE ~UseMembar
    <3>1. StateTypes'
      <4>1. \A u \in JavaThread : thread_state_of(u) \in JavaThreadState
        BY LatestPending DEF IInv
      <4>2. thread_state' \in [JavaThread -> JavaThreadState]
        BY <1>1, <2>2, <4>1
      <4>3. <<>> \in Seq(JavaThreadState) /\ Len(<<>>) <= BufferSize
        BY SMT, SafepointAssumption
      <4>. QED
        BY <1>1, <2>2, <4>2, <4>3 DEF StateTypes
    <3>2. ASSUME NEW u \in JavaThread
          PROVE  thread_state'[u] = thread_state_of(u) /\ buffer'[u] = <<>>
      BY <1>1, <2>2
    <3>3. ASSUME NEW u \in JavaThread
          PROVE  /\ thread_state_of(u)' = thread_state_of(u)
                 /\ Pending(u)' = {thread_state_of(u)}
      <4>1. thread_state_of(u)' = thread_state'[u]
        BY <3>2 DEF thread_state_of
      <4>2. Pending(u)' = {thread_state'[u]}
        BY SMT, <3>2 DEF Pending
      <4>. QED
        BY <3>2, <4>1, <4>2
    <3>. QED
      BY <2>2, <3>1, <3>2, <3>3
  <2>. QED
    BY <2>1, <2>2
<1>3. OtherTypes' /\ CountInv'
  BY <1>1 DEF IInv, OtherTypes, CountInv, Waited
<1>4. VMInv'
  BY <1>1 DEF IInv, VMInv
<1>5. ASSUME NEW u \in JavaThread PROVE ThreadInv(u)'
  <2>0. ThreadInv(u)
    BY DEF IInv
  <2>1. ControlOf(u)' /\ BlockOf(u)' /\ OwnerOf(u)'
    BY ZenonT(30), <1>1, <1>2, <2>0 DEF ThreadInv, ControlOf, BlockOf, OwnerOf
  <2>2. (Held(u)' <=> Held(u)) /\ (WillCallBack(u)' <=> WillCallBack(u))
    BY <1>1, <1>2 DEF Held, WillCallBack
  <2>3. u \in threads' => TypeOf(u)'
    BY <1>1, <2>0, <2>2 DEF ThreadInv, TypeOf
  <2>4. ASSUME u \in threads' PROVE PendingOf(u)'
    <3>1. CASE UseMembar
      BY <1>1, <1>2, <2>0, <2>2, <2>4, <3>1 DEF ThreadInv, PendingOf
    <3>2. CASE ~UseMembar
      <4>1. pc[u] \in {"unstarted", "run", "check", "block", "callback",
                       "threadsLock", "leave", "start"}
        BY <1>1, <2>0, <2>4 DEF IInv, OtherTypes, ThreadInv, ControlOf
      <4>2. /\ thread_state_of(u) \in {"in_native", "blocked"} => Held(u)
            /\ thread_state_of(u) = "in_vm" => WillCallBack(u)
        BY <2>0, <4>1 DEF ThreadInv, ControlOf, Held, WillCallBack, TransStates
      <4>. QED
        BY <1>2, <2>2, <3>2, <4>2 DEF PendingOf
    <3>. QED
      BY <3>1, <3>2
  <2>. QED
    BY <2>1, <2>3, <2>4 DEF ThreadInv
<1>. QED
  BY <1>2, <1>3, <1>4, <1>5 DEF IInv

LEMMA ArmStep ==
  ASSUME IInv, Arm
  PROVE  IInv'
<1>1. /\ vm = "arm" /\ vm' = "examine"
      /\ UNCHANGED <<State, waiting_to_block, counter, Threads_lock, type,
                     has_called_back, threads, thread_state, buffer, pc, to, saved>>
      /\ PageArmed' = TRUE /\ JavaSame
  BY JavaUnchanged DEF Arm, VMStep, typeVars, stateVars, locals
<1>2. StateTypes' /\ OtherTypes' /\ CountInv'
  BY <1>1 DEF IInv, StateTypes, OtherTypes, CountInv, Waited
<1>3. VMInv' /\ Threads_lock = VMThread
  BY <1>1 DEF IInv, VMInv
<1>4. ASSUME NEW u \in JavaThread PROVE ThreadInv(u)'
  <2>1. ThreadInv(u) /\ ControlOf(u)' /\ OwnerOf(u)'
    BY <1>1, <1>3, VMFrame, SafepointAssumption
  <2>2. BlockOf(u)' /\ (u \in threads' => TypeOf(u)' /\ PendingOf(u)')
    BY <1>1, <2>1 DEF ThreadInv, BlockOf, TypeOf, PendingOf, JavaSame
  <2>. QED
    BY <2>1, <2>2 DEF ThreadInv
<1>. QED
  BY <1>2, <1>3, <1>4 DEF IInv

\* What the VM thread reads of a thread is pending, hence true of the thread.
LEMMA ExamineStep ==
  ASSUME IInv, NEW t \in threads, examine_state_of_thread(t)
  PROVE  IInv'
<1> DEFINE safe == safepoint_safe(thread_state[t])
<1>1. /\ t \in JavaThread /\ vm = "examine" /\ type[t] = "running"
      /\ type'[t] = IF safe THEN "at_safepoint" ELSE "call_back"
      /\ ~has_called_back[t] /\ ~has_called_back'[t]
      /\ waiting_to_block' =
           IF safe THEN waiting_to_block - 1 ELSE waiting_to_block
      /\ safe \/ thread_state[t] = "in_vm"
      /\ UNCHANGED <<State, counter, PageArmed, vm, Threads_lock, threads,
                     thread_state, buffer, pc, to, saved>>
      /\ \A u \in JavaThread \ {t} :
           type'[u] = type[u] /\ has_called_back'[u] = has_called_back[u]
      /\ JavaSame
  BY JavaUnchanged
  DEF examine_state_of_thread, signal_thread_at_safepoint, stateVars, locals, IInv,
      OtherTypes, ThreadInv, TypeOf
<1>2. /\ State = "synchronizing" /\ Threads_lock = VMThread
      /\ safe => Held(t)
      /\ ~safe => WillCallBack(t)
  <2>1. thread_state[t] \in Pending(t)
    BY DEF Pending
  <2>2. PendingOf(t)
    BY <1>1 DEF IInv, ThreadInv
  <2>. QED
    BY <1>1, <2>1, <2>2 DEF IInv, OtherTypes, VMInv, PendingOf, safepoint_safe
<1>3. StateTypes' /\ OtherTypes'
  <2>1. StateTypes'
    BY <1>1 DEF IInv, StateTypes
  <2>2. /\ type' \in [JavaThread -> {"running", "at_safepoint", "call_back"}]
        /\ has_called_back' \in [JavaThread -> BOOLEAN]
    BY <1>1 DEF IInv, OtherTypes, examine_state_of_thread, safepoint_safe
  <2>. QED
    BY <1>1, <2>1, <2>2 DEF IInv, OtherTypes
<1>4. CountInv'
  <2>1. /\ IsFiniteSet(Waited) /\ Cardinality(Waited) \in Nat /\ t \in Waited
        /\ waiting_to_block = Cardinality(Waited)
    BY <1>1, <1>2, WaitedFinite DEF IInv, CountInv, Waited
  <2>2. Waited' = IF safe THEN Waited \ {t} ELSE Waited
    BY <1>1 DEF Waited, IInv, OtherTypes
  <2>3. Cardinality(Waited \ {t}) = Cardinality(Waited) - 1
    BY <2>1, FS_RemoveElement
  <2>. QED
    BY <1>1, <1>2, <2>1, <2>2, <2>3 DEF CountInv
<1>5. VMInv'
  BY <1>1 DEF IInv, VMInv
<1>6. ASSUME NEW u \in JavaThread PROVE ThreadInv(u)'
  <2>1. ThreadInv(u) /\ ControlOf(u)' /\ OwnerOf(u)'
    BY <1>1, <1>2, VMFrame, SafepointAssumption
  <2>2. BlockOf(u)' /\ (u \in threads' => PendingOf(u)')
    BY <1>1, <2>1 DEF ThreadInv, BlockOf, PendingOf, JavaSame
  <2>3. u \in threads' => TypeOf(u)'
    <3>1. CASE u = t
      BY <1>1, <1>2, <3>1 DEF TypeOf, JavaSame
    <3>2. CASE u # t
      BY <1>1, <2>1, <3>2 DEF ThreadInv, TypeOf, JavaSame
    <3>. QED
      BY <3>1, <3>2
  <2>. QED
    BY <2>1, <2>2, <2>3 DEF ThreadInv
<1>. QED
  BY <1>3, <1>4, <1>5, <1>6 DEF IInv

LEMMA EndSpinStep ==
  ASSUME IInv, EndSpin
  PROVE  IInv'
<1>1. /\ vm = "examine" /\ vm' = "wait"
      /\ \A u \in threads : type[u] # "running"
      /\ UNCHANGED <<State, waiting_to_block, counter, PageArmed, Threads_lock, type,
                     has_called_back, threads, thread_state, buffer, pc, to, saved>>
      /\ JavaSame
  BY JavaUnchanged DEF EndSpin, StillRunning, typeVars, stateVars, locals
<1>2. StateTypes' /\ OtherTypes' /\ CountInv'
  BY <1>1 DEF IInv, StateTypes, OtherTypes, CountInv, Waited
<1>3. VMInv' /\ Threads_lock = VMThread
  BY <1>1 DEF IInv, VMInv
<1>4. ASSUME NEW u \in JavaThread PROVE ThreadInv(u)'
  <2>1. ThreadInv(u) /\ ControlOf(u)' /\ OwnerOf(u)'
    BY <1>1, <1>3, VMFrame, SafepointAssumption
  <2>2. BlockOf(u)' /\ (u \in threads' => TypeOf(u)' /\ PendingOf(u)')
    BY <1>1, <2>1 DEF ThreadInv, BlockOf, TypeOf, PendingOf, JavaSame
  <2>. QED
    BY <2>1, <2>2 DEF ThreadInv
<1>. QED
  BY <1>2, <1>3, <1>4 DEF IInv

\* The count is zero, so nobody is left that runs or has to call back.
LEMMA BegunStep ==
  ASSUME IInv, Begun
  PROVE  IInv'
<1>1. /\ vm \in {"examine", "woken"} /\ vm' = "at_safepoint"
      /\ State' = "synchronized" /\ waiting_to_block = 0 /\ counter' = 1 - counter
      /\ UNCHANGED <<waiting_to_block, PageArmed, Threads_lock, type,
                     has_called_back, threads, thread_state, buffer, pc, to, saved>>
      /\ JavaSame
  BY JavaUnchanged DEF Begun, Synchronized, typeVars, stateVars, locals
<1>2. State = "synchronizing" /\ Threads_lock = VMThread /\ VMInv'
  BY <1>1 DEF IInv, OtherTypes, VMInv
<1>3. StateTypes' /\ OtherTypes' /\ CountInv'
  <2>1. StateTypes' /\ CountInv'
    BY <1>1 DEF IInv, StateTypes, CountInv
  <2>2. counter' \in {0, 1}
    BY SMT, <1>1 DEF IInv, OtherTypes
  <2>. QED
    BY <1>1, <2>1, <2>2 DEF IInv, OtherTypes
<1>4. Waited = {}
  BY <1>1, <1>2, WaitedFinite, FS_EmptySet DEF IInv, CountInv
<1>5. ASSUME NEW u \in threads
      PROVE  /\ type[u] # "running"
             /\ type[u] = "at_safepoint" => Held(u)
             /\ type[u] = "call_back" => has_called_back[u] /\ pc[u] = "threadsLock"
             /\ Held(u)
  <2>1. u \in JavaThread /\ TypeOf(u) /\ has_called_back[u] \in BOOLEAN
        /\ type[u] \in {"running", "at_safepoint", "call_back"}
    BY DEF IInv, OtherTypes, ThreadInv
  <2>. QED
    BY <1>2, <1>4, <2>1 DEF Waited, TypeOf, Held
<1>6. ASSUME NEW u \in JavaThread PROVE ThreadInv(u)'
  <2>1. ThreadInv(u) /\ ControlOf(u)' /\ OwnerOf(u)'
    BY <1>1, <1>2, VMFrame, SafepointAssumption
  <2>2. u \in threads' => TypeOf(u)'
    BY <1>1, <1>5, <2>1 DEF ThreadInv, TypeOf, JavaSame
  <2>3. u \in threads' => PendingOf(u)'
    BY <1>1, <2>1 DEF ThreadInv, PendingOf, JavaSame
  <2>4. BlockOf(u)'
    <3>1. pc[u] \in {"callback", "block"} => u \in threads
      BY <2>1 DEF ThreadInv, ControlOf
    <3>. QED
      BY <1>1, <1>5, <3>1 DEF BlockOf, Held, JavaSame
  <2>. QED
    BY <2>1, <2>2, <2>3, <2>4 DEF ThreadInv
<1>. QED
  BY <1>2, <1>3, <1>6 DEF IInv

LEMMA DisarmStep ==
  ASSUME IInv, Disarm
  PROVE  IInv'
<1>1. /\ vm = "at_safepoint" /\ vm' = "resume" /\ counter' = 1 - counter
      /\ PageArmed' = FALSE
      /\ UNCHANGED <<State, waiting_to_block, Threads_lock, type, has_called_back,
                     threads, thread_state, buffer, pc, to, saved>>
      /\ JavaSame
  BY JavaUnchanged DEF Disarm, VMStep, typeVars, stateVars, locals
<1>2. StateTypes' /\ OtherTypes'
  <2>1. StateTypes'
    BY <1>1 DEF IInv, StateTypes
  <2>2. counter' \in {0, 1}
    BY SMT, <1>1 DEF IInv, OtherTypes
  <2>3. PageArmed' \in BOOLEAN
    BY <1>1
  <2>. QED
    BY <1>1, <2>1, <2>2, <2>3 DEF IInv, OtherTypes
<1>3. VMInv' /\ Threads_lock = VMThread /\ State = "synchronized"
  BY <1>1 DEF IInv, VMInv
<1>4. CountInv'
  BY <1>1, <1>3 DEF IInv, CountInv
<1>5. ASSUME NEW u \in JavaThread PROVE ThreadInv(u)'
  <2>1. ThreadInv(u) /\ ControlOf(u)' /\ OwnerOf(u)'
    BY <1>1, <1>3, VMFrame, SafepointAssumption
  <2>2. BlockOf(u)' /\ (u \in threads' => TypeOf(u)' /\ PendingOf(u)')
    BY <1>1, <2>1 DEF ThreadInv, BlockOf, TypeOf, PendingOf, JavaSame
  <2>. QED
    BY <2>1, <2>2 DEF ThreadInv
<1>. QED
  BY <1>2, <1>3, <1>4, <1>5 DEF IInv

LEMMA NotSynchronizedStep ==
  ASSUME IInv, NotSynchronized
  PROVE  IInv'
<1>1. /\ vm = "resume" /\ vm' = "restart" /\ State' = "not_synchronized"
      /\ UNCHANGED <<waiting_to_block, counter, PageArmed, Threads_lock, type,
                     has_called_back, threads, thread_state, buffer, pc, to, saved>>
      /\ JavaSame
  BY JavaUnchanged DEF NotSynchronized, VMStep, typeVars, stateVars, locals
<1>2. VMInv' /\ Threads_lock = VMThread /\ State = "synchronized"
  BY <1>1 DEF IInv, VMInv
<1>3. StateTypes' /\ OtherTypes' /\ CountInv'
  BY <1>1, <1>2 DEF IInv, StateTypes, OtherTypes, CountInv
<1>4. ASSUME NEW u \in JavaThread PROVE ThreadInv(u)'
  <2>1. ThreadInv(u) /\ ControlOf(u)' /\ OwnerOf(u)'
    BY <1>1, <1>2, VMFrame, SafepointAssumption
  <2>2. BlockOf(u)' /\ (u \in threads' => TypeOf(u)' /\ PendingOf(u)')
    BY <1>1, <1>2, <2>1 DEF ThreadInv, BlockOf, TypeOf, PendingOf, JavaSame
  <2>. QED
    BY <2>1, <2>2 DEF ThreadInv
<1>. QED
  BY <1>2, <1>3, <1>4 DEF IInv

LEMMA RestartStep ==
  ASSUME IInv, Restart
  PROVE  IInv'
<1>1. /\ vm = "restart" /\ vm' = "out" /\ Threads_lock' = NONE
      /\ \A u \in threads : type'[u] = "running" /\ ~has_called_back'[u]
      /\ UNCHANGED <<State, waiting_to_block, counter, PageArmed, threads,
                     thread_state, buffer, pc, to, saved>>
      /\ JavaSame
  BY JavaUnchanged
  DEF Restart, VMStep, Threads_lock_unlock, stateVars, locals, IInv, OtherTypes
<1>2. VMInv' /\ State = "not_synchronized"
  BY <1>1, SafepointAssumption DEF IInv, VMInv
<1>3. StateTypes' /\ CountInv'
  BY <1>1, <1>2 DEF IInv, StateTypes, CountInv
<1>4. OtherTypes'
  <2>1. /\ type' \in [JavaThread -> {"running", "at_safepoint", "call_back"}]
        /\ has_called_back' \in [JavaThread -> BOOLEAN]
    BY DEF IInv, OtherTypes, Restart
  <2>. QED
    BY <1>1, <2>1 DEF IInv, OtherTypes
<1>5. ASSUME NEW u \in JavaThread PROVE ThreadInv(u)'
  <2>1. ThreadInv(u) /\ ControlOf(u)' /\ OwnerOf(u)'
    BY <1>1, VMFrame, SafepointAssumption
  <2>2. BlockOf(u)' /\ (u \in threads' => TypeOf(u)' /\ PendingOf(u)')
    BY <1>1, <1>2, <2>1 DEF ThreadInv, BlockOf, TypeOf, PendingOf, JavaSame
  <2>. QED
    BY <2>1, <2>2 DEF ThreadInv
<1>. QED
  BY <1>2, <1>3, <1>4, <1>5 DEF IInv

----------------------------------------------------------------------------
(* The invariant, and what follows from it.                                *)

LEMMA InitInv ==
  ASSUME Init
  PROVE  IInv
<1>1. \A t \in JavaThread :
        /\ thread_state_of(t) = IF t \in Initial THEN "in_vm" ELSE "new"
        /\ Pending(t) = {thread_state_of(t)}
        /\ buffer[t] = <<>>
        /\ pc[t] = IF t \in Initial THEN "run" ELSE "none"
        /\ type[t] = "running" /\ has_called_back[t] = FALSE
  BY SMT DEF Init, thread_state_of, Pending
<1>2. StateTypes
  <2>1. <<>> \in Seq(JavaThreadState) /\ Len(<<>>) <= BufferSize
    BY SMT, SafepointAssumption
  <2>. QED
    BY <2>1, TransFacts DEF Init, StateTypes
<1>3. OtherTypes
  BY TransFacts, SafepointAssumption DEF Init, OtherTypes
<1>4. VMInv /\ CountInv
  BY SafepointAssumption DEF Init, VMInv, CountInv
<1>5. ASSUME NEW t \in JavaThread PROVE ThreadInv(t)
  <2>1. /\ Threads_lock # t /\ State = "not_synchronized" /\ vm = "out"
        /\ threads = Initial
    BY SafepointAssumption DEF Init
  <2>2. t \in Initial => WillCallBack(t)
    BY <1>1 DEF WillCallBack
  <2>3. ControlOf(t) /\ BlockOf(t) /\ OwnerOf(t)
    BY <1>1, <2>1 DEF ControlOf, BlockOf, OwnerOf
  <2>4. t \in threads => TypeOf(t)
    BY <1>1, <2>1 DEF TypeOf
  <2>5. t \in threads => PendingOf(t)
    BY SMT, <1>1, <2>1, <2>2 DEF PendingOf
  <2>. QED
    BY <2>3, <2>4, <2>5 DEF ThreadInv
<1>. QED
  BY <1>2, <1>3, <1>4, <1>5 DEF IInv

LEMMA JavaStep ==
  ASSUME IInv, NEW t \in JavaThread, Java(t)
  PROVE  IInv'
<1>1. CASE CheckState(t)  BY <1>1, CheckStateStep
<1>2. CASE Leave(t)  BY <1>2, LeaveStep
<1>3. CASE block(t)  BY <1>3, BlockStep
<1>4. CASE Poll(t)  BY <1>4, PollStep
<1>5. CASE Manage(t)
  BY <1>5, RemoveStep, AddStep, StartStep DEF Manage
<1>6. ASSUME NEW from \in {"new", "in_native", "in_vm", "blocked"},
             NEW target \in {"in_vm", "in_Java", "in_native", "blocked"},
             Targets(Trans[from], target), transition(t, from, target)
      PROVE  IInv'
  BY <1>6, AnnounceStep, TransFacts DEF transition
<1>7. CASE LeaveVM(t)
  <2>1. PICK target \in {"in_Java", "in_native", "blocked"} :
          transition(t, "in_vm", target)
    BY <1>7 DEF LeaveVM
  <2>2. Targets(Trans["in_vm"], target)
    BY TransFacts DEF Targets
  <2>. QED
    BY <1>6, <2>1, <2>2
<1>8. /\ Targets(Trans["new"], "in_vm") /\ Targets(Trans["blocked"], "in_vm")
      /\ Targets(Trans["in_native"], "in_vm")
      /\ Targets(Trans["in_native"], "in_Java")
  BY TransFacts DEF Targets
<1>9. CASE \/ transition(t, "new", "in_vm") \/ transition(t, "blocked", "in_vm")
           \/ transition(t, "in_native", "in_vm")
           \/ transition(t, "in_native", "in_Java")
  BY <1>6, <1>8, <1>9
<1>10. CASE CallBack(t)  BY <1>10, CallBackStep
<1>11. CASE Resume(t)  BY <1>11, ResumeStep
<1>12. CASE Drain(t)  BY <1>12, DrainStep
<1>13. CASE transition_from_java(t, "in_vm") \/ transition_from_java(t, "in_native")
  BY <1>13, TransitionFromJavaStep
<1>14. CASE LockThreads(t)  BY <1>14, LockThreadsStep
<1>15. CASE LockThreadsBlocked(t)
  BY <1>8, <1>15, AnnounceStep, TransFacts DEF LockThreadsBlocked
<1>. QED
  BY <1>1, <1>2, <1>3, <1>4, <1>5, <1>7, <1>9, <1>10, <1>11, <1>12, <1>13, <1>14,
     <1>15
  DEF Java, Oblige

LEMMA StutterStep ==
  ASSUME IInv, UNCHANGED vars
  PROVE  IInv'
<1>1. UNCHANGED <<vmVars, Threads_lock, threads, typeVars, stateVars, locals>>
  BY DEF vars
<1>2. JavaSame
  BY <1>1, JavaUnchanged
<1>3. StateTypes' /\ OtherTypes'
  BY <1>1 DEF IInv, StateTypes, OtherTypes, vmVars, typeVars, stateVars, locals
<1>4. \A u \in JavaThread : Same(u)
  BY <1>1, <1>2 DEF Same, JavaSame, typeVars
<1>. QED
  BY <1>1, <1>3, <1>4, Frame, {} \in SUBSET JavaThread

\* The invariant holds in every reachable state.
THEOREM Invariance == Spec => []IInv
<1>1. Init => IInv
  BY InitInv
<1>2. ASSUME IInv, [Next]_vars PROVE IInv'
  <2>1. CASE TakeThreadsLock  BY <1>2, <2>1, TakeThreadsLockStep
  <2>2. CASE VM
    BY <1>2, <2>2, InitiateStep, SerializeStep, ArmStep, EndSpinStep, BegunStep,
       DisarmStep, NotSynchronizedStep, RestartStep, ExamineStep
    DEF VM
  <2>3. CASE \E t \in JavaThread : Java(t)  BY <1>2, <2>3, JavaStep
  <2>4. CASE UNCHANGED vars  BY <1>2, <2>4, StutterStep
  <2>. QED
    BY <1>2, <2>1, <2>2, <2>3, <2>4 DEF Next
<1>. QED
  BY <1>1, <1>2, PTL DEF Spec

\* Types: in particular _waiting_to_block is never negative, though the VM thread
\* and the threads count it down independently.
THEOREM SafepointTypes == Spec => []TypeOK
<1>1. ASSUME IInv PROVE TypeOK
  <2>1. waiting_to_block \in 0..Cardinality(JavaThread)
    <3>1. /\ Cardinality(Waited) \in Nat /\ Cardinality(JavaThread) \in Nat
          /\ Cardinality(Waited) <= Cardinality(JavaThread)
      BY <1>1, WaitedFinite, FS_CardinalityType, SafepointAssumption DEF IInv
    <3>2. waiting_to_block = Cardinality(Waited) \/ waiting_to_block = 0
      BY <1>1 DEF IInv, CountInv
    <3>. QED
      BY SMT, <3>1, <3>2
  <2>. QED
    BY <1>1, <2>1 DEF IInv, StateTypes, OtherTypes, TypeOK
<1>. QED
  BY <1>1, Invariance, PTL

\* While _state is synchronized no thread runs in Java or in the VM, whether
\* transitions fence or the VM thread uses the serialization page.
THEOREM SafepointStops == Spec => []Stopped
<1>1. ASSUME IInv PROVE Stopped
  <2>1. ASSUME State = "synchronized", NEW t \in threads PROVE Held(t)
    BY <1>1, <2>1, AllHeld
  <2>. QED
    BY <2>1 DEF Stopped, Held, Runs
<1>. QED
  BY <1>1, Invariance, PTL

\* _waiting_to_block counts exactly the threads that begin() has to wait for.
THEOREM SafepointCounts == Spec => []CountsAgree
<1>1. ASSUME IInv PROVE CountsAgree
  BY <1>1 DEF IInv, CountInv, Waited, CountsAgree
<1>. QED
  BY <1>1, Invariance, PTL

\* The assertions of block() and of the polling page's handler hold.
THEOREM SafepointAssertions == Spec => []BlockAssertions
<1>1. ASSUME IInv PROVE BlockAssertions
  <2>1. ASSUME NEW t \in threads
        PROVE  /\ pc[t] = "callback" => State = "synchronizing" /\ ~has_called_back[t]
               /\ pc[t] = "block" =>
                    IF thread_state_of(t) = "in_Java"
                    THEN State = "synchronizing" /\ type[t] = "running"
                    ELSE thread_state_of(t) # "in_vm_trans" => type[t] # "call_back"
    <3>1. /\ t \in JavaThread /\ TypeOf(t) /\ BlockOf(t)
          /\ type[t] \in {"running", "at_safepoint", "call_back"}
      BY <1>1 DEF IInv, OtherTypes, ThreadInv
    <3>2. pc[t] = "callback" => ~Held(t)
      BY DEF Held
    <3>3. pc[t] = "block" /\ thread_state_of(t) = "in_Java" =>
            ~Held(t) /\ ~WillCallBack(t)
      BY DEF Held, WillCallBack
    <3>4. pc[t] = "block" /\ thread_state_of(t) # "in_vm_trans" => ~WillCallBack(t)
      BY DEF WillCallBack
    <3>. QED
      BY <3>1, <3>2, <3>3, <3>4 DEF TypeOf, BlockOf
  <2>. QED
    BY <2>1 DEF BlockAssertions
<1>. QED
  BY <1>1, Invariance, PTL

\* Nobody waits in block() for the Threads_lock that they own.
THEOREM SafepointNoSelfDeadlock == Spec => []NoSelfDeadlock
<1>1. ASSUME IInv PROVE NoSelfDeadlock
  BY <1>1 DEF IInv, ThreadInv, OwnerOf, NoSelfDeadlock
<1>. QED
  BY <1>1, Invariance, PTL

============================================================================
