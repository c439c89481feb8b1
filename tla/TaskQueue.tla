------------------------------ MODULE TaskQueue ------------------------------
(***************************************************************************)
(* GenericTaskQueue, GenericTaskQueueSet and ParallelTaskTerminator        *)
(* (utilities/taskqueue.hpp, .cpp), driven by the workers of a parallel    *)
(* young collection: ParEvacuateFollowersClosure::do_void() and the        *)
(* overflow list (parNewGeneration.cpp).                                   *)
(*                                                                         *)
(* A worker pushes and pops at the bottom of its own queue without a lock; *)
(* the others steal at the top with a CAS of _age, the pair of top and     *)
(* tag.  A task is a number in the order of discovery; scanning one finds  *)
(* others until MaxTasks are known.  The stores of a worker become visible *)
(* in order, and the one to _bottom in pop_local() before the reads that   *)
(* follow its fence.  Whom a thief tries depends on sampled sizes, which   *)
(* are only hints: here it is anybody.                                     *)
(***************************************************************************)
EXTENDS Integers, Sequences, Functions, FiniteSets

CONSTANTS
  NWorkers,       \* how many workers, each with a queue: _n, _n_threads
  N,              \* n(), the size of a queue (2^14)
  TagSize,        \* the values of Age::_tag (2^16)
  Start,          \* the indices at which queues start
  MaxTasks,       \* bound: how many tasks there are
  MaxSteals,      \* bound: after so many steals steal() tries no more
  MaxTries,       \* how often steal() tries (2 * _n)
  ParGCDesiredObjsFromOverflowList

ASSUME TaskQueueAssumption ==
  /\ NWorkers \in Nat \ {0, 1} /\ N \in Nat /\ N > 3
  /\ TagSize \in Nat \ {0, 1} /\ MaxTasks \in Nat /\ MaxTries \in Nat \ {0}
  /\ MaxSteals \in Nat /\ Start \subseteq 0 .. N - 1
  /\ ParGCDesiredObjsFromOverflowList \in Nat \ {0}

Worker == 0 .. NWorkers - 1
Task == 1 .. MaxTasks
NoTask == 0

VARIABLES
  elems, bottom, age,   \* _elems, _bottom and _age of the queues
  overflow,             \* ParNewGeneration::_overflow_list
  offered,              \* _offered_termination
  pc,
  hold,                 \* the task that a worker scans, or is about to push
  found,                \* the task that its scan has found
  prefix,               \* what take_from_overflow_list() took
  loc,                  \* locals: localBot, oldAge, the element t, the queue k
                        \* that it looks at, and the loop counter i of steal()
  created, scanned,     \* history: the tasks found, and those that are done
  steals                \* history: how many were stolen

queueVars == <<elems, bottom, age>>
workVars == <<hold, found, prefix, created, scanned>>
vars == <<queueVars, overflow, offered, pc, loc, workVars, steals>>

Age == [top : 0 .. N - 1, tag : 0 .. TagSize - 1]
NoAge == [top |-> 0, tag |-> 0]
Locals == [localBot : 0 .. N - 1, oldAge : Age, t : Task \cup {NoTask},
           k : Worker, i : 0 .. MaxTries]
NoLocals == [localBot |-> 0, oldAge |-> NoAge, t |-> NoTask, k |-> 0, i |-> 0]

TypeOK ==
  /\ elems \in [Worker -> [0 .. N - 1 -> Task \cup {NoTask}]]
  /\ bottom \in [Worker -> 0 .. N - 1] /\ age \in [Worker -> Age]
  /\ overflow \in Seq(Task) /\ offered \in 0 .. NWorkers
  /\ pc \in [Worker -> {"scan", "trim", "pop", "dec", "readTop", "getAge", "cas",
                        "setAge", "push", "pushElem", "pushBottom", "overflow",
                        "steal", "stealBottom", "stealElem", "stealCas",
                        "take", "reattach", "offer", "offered", "peekBottom",
                        "peekTop", "withdraw", "done"}]
  /\ hold \in [Worker -> Task \cup {NoTask}]
  /\ found \in [Worker -> Task \cup {NoTask}]
  /\ prefix \in [Worker -> Seq(Task)]
  /\ loc \in [Worker -> Locals]
  /\ created \in 0 .. MaxTasks /\ scanned \subseteq Task
  /\ steals \in 0 .. MaxSteals + NWorkers

\* The queues are empty, wherever earlier collections have left their ends, and
\* the workers begin by scanning the roots.
Init ==
  /\ elems = [w \in Worker |-> [i \in 0 .. N - 1 |-> NoTask]]
  /\ bottom \in [Worker -> Start]
  /\ age = [w \in Worker |-> [top |-> bottom[w], tag |-> 0]]
  /\ overflow = <<>> /\ offered = 0
  /\ pc = [w \in Worker |-> "scan"]
  /\ hold = [w \in Worker |-> NoTask] /\ found = [w \in Worker |-> NoTask]
  /\ prefix = [w \in Worker |-> <<>>]
  /\ loc = [w \in Worker |-> NoLocals]
  /\ created = 0 /\ scanned = {} /\ steals = 0

Step(w, l, m) == pc[w] = l /\ pc' = [pc EXCEPT ![w] = m]

----------------------------------------------------------------------------
(* Indices and sizes.                                                      *)

increment_index(i) == (i + 1) % N
decrement_index(i) == (i - 1) % N
dirty_size(bot, top) == (bot - top) % N

\* N - 1 stands for 0: a pop_local() and a pop_global() met.
size(bot, top) == IF dirty_size(bot, top) = N - 1 THEN 0 ELSE dirty_size(bot, top)

max_elems == N - 2

----------------------------------------------------------------------------
(* push().                                                                 *)

\* Scanning an object finds another, which somebody has to scan.  A large array is
\* scanned in chunks: what is left of it after a chunk is found like any other task,
\* and first of all.
Discover(w) ==
  /\ Step(w, "scan", "push") /\ created < MaxTasks
  /\ created' = created + 1 /\ found' = [found EXCEPT ![w] = created + 1]
  /\ UNCHANGED <<queueVars, overflow, offered, loc, hold, prefix, scanned, steals>>

\* What push() puts on the queue: a found object, what came from the overflow
\* list, or what was stolen.
ToPush(w) ==
  IF found[w] # NoTask THEN found[w]
  ELSE IF prefix[w] # <<>> THEN Head(prefix[w]) ELSE hold[w]

\* Room for one more?  push_slow() takes N - 1 for an empty queue.
HasRoom(bot, top) == dirty_size(bot, top) < max_elems \/ dirty_size(bot, top) = N - 1

\* After the push of a task: on with the scan, the prefix, or the queue.
Pushed(w) ==
  \/ /\ found[w] # NoTask /\ found' = [found EXCEPT ![w] = NoTask]
     /\ pc' = [pc EXCEPT ![w] = "scan"] /\ UNCHANGED <<hold, prefix>>
  \/ /\ found[w] = NoTask /\ prefix[w] # <<>>
     /\ prefix' = [prefix EXCEPT ![w] = Tail(@)]
     /\ pc' = [pc EXCEPT ![w] = IF Len(prefix[w]) > 1 THEN "push" ELSE "trim"]
     /\ UNCHANGED <<hold, found>>
  \/ /\ found[w] = NoTask /\ prefix[w] = <<>>
     /\ hold' = [hold EXCEPT ![w] = NoTask]
     /\ pc' = [pc EXCEPT ![w] = "trim"] /\ UNCHANGED <<found, prefix>>

\* Only the scan looks at the result of push(); whoever pushes what was stolen or
\* taken from the overflow list goes on, with or without it.
push(w) ==
  /\ pc[w] = "push"
  /\ pc' = [pc EXCEPT ![w] =
              IF HasRoom(bottom[w], age[w].top) THEN "pushElem"
              ELSE IF found[w] # NoTask THEN "overflow" ELSE "trim"]
  /\ UNCHANGED <<queueVars, overflow, offered, loc, workVars, steals>>

PushElem(w) ==
  /\ Step(w, "pushElem", "pushBottom")
  /\ elems' = [elems EXCEPT ![w][bottom[w]] = ToPush(w)]
  /\ UNCHANGED <<bottom, age, overflow, offered, loc, workVars, steals>>

PushBottom(w) ==
  /\ pc[w] = "pushBottom" /\ Pushed(w)
  /\ bottom' = [bottom EXCEPT ![w] = increment_index(@)]
  /\ UNCHANGED <<elems, age, overflow, offered, loc, created, scanned, steals>>

\* The queue is full: the object goes to the front of the overflow list.
push_on_overflow_list(w) ==
  /\ Step(w, "overflow", "scan")
  /\ overflow' = <<found[w]>> \o overflow
  /\ found' = [found EXCEPT ![w] = NoTask]
  /\ UNCHANGED <<queueVars, offered, loc, hold, prefix, created, scanned, steals>>

Scanned(w) ==
  /\ Step(w, "scan", "trim")
  /\ hold' = [hold EXCEPT ![w] = NoTask]
  /\ scanned' = scanned \cup ({hold[w]} \ {NoTask})
  /\ UNCHANGED <<queueVars, overflow, offered, loc, found, prefix, created, steals>>

----------------------------------------------------------------------------
(* trim_queues() and pop_local().                                          *)

trim_queues(w) ==
  /\ pc[w] = "trim"
  /\ pc' = [pc EXCEPT ![w] =
              IF size(bottom[w], age[w].top) > 0 THEN "pop" ELSE "steal"]
  /\ UNCHANGED <<queueVars, overflow, offered, loc, workVars, steals>>

pop_local(w) ==
  /\ pc[w] = "pop"
  /\ pc' = [pc EXCEPT ![w] =
              IF dirty_size(bottom[w], age[w].top) = 0 THEN "trim" ELSE "dec"]
  /\ UNCHANGED <<queueVars, overflow, offered, loc, workVars, steals>>

DecrementBottom(w) ==
  /\ Step(w, "dec", "readTop")
  /\ bottom' = [bottom EXCEPT ![w] = decrement_index(@)]
  /\ UNCHANGED <<elems, age, overflow, offered, loc, workVars, steals>>

Claim(w, task) == hold' = [hold EXCEPT ![w] = task]

\* If more elements are left, no thief can take this one.
Uncontested(w) == size(bottom[w], age[w].top) > 0

ReadTop(w) ==
  /\ pc[w] = "readTop"
  /\ IF Uncontested(w)
       THEN /\ Claim(w, elems[w][bottom[w]]) /\ pc' = [pc EXCEPT ![w] = "scan"]
            /\ UNCHANGED loc
       ELSE /\ loc' = [loc EXCEPT ![w].t = elems[w][bottom[w]]]
            /\ pc' = [pc EXCEPT ![w] = "getAge"] /\ UNCHANGED hold
  /\ UNCHANGED <<queueVars, overflow, offered, found, prefix, created, scanned, steals>>

GetAge(w) ==
  /\ Step(w, "getAge", "cas")
  /\ loc' = [loc EXCEPT ![w].oldAge = age[w]]
  /\ UNCHANGED <<queueVars, overflow, offered, workVars, steals>>

\* The age of an empty queue at bot; a tag that was not used before.
EmptyAge_SameTag(bot, a) == [top |-> bot, tag |-> a.tag]
EmptyAge(bot, a) == [top |-> bot, tag |-> (a.tag + 1) % TagSize]

set_age_Not(w) == UNCHANGED age
set_age(w) ==
  age' = [age EXCEPT ![w] = EmptyAge(bottom[w], loc[w].oldAge)]

\* pop_local_slow(): one element, and perhaps a thief.
pop_local_slow(w) ==
  /\ pc[w] = "cas"
  /\ \/ /\ bottom[w] = loc[w].oldAge.top /\ age[w] = loc[w].oldAge
        /\ set_age(w) /\ Claim(w, loc[w].t)
        /\ loc' = [loc EXCEPT ![w] = NoLocals]
        /\ pc' = [pc EXCEPT ![w] = "scan"]
     \/ /\ bottom[w] = loc[w].oldAge.top /\ age[w] # loc[w].oldAge
        /\ pc' = [pc EXCEPT ![w] = "setAge"] /\ UNCHANGED <<age, hold, loc>>
     \/ /\ bottom[w] # loc[w].oldAge.top
        /\ set_age(w) /\ loc' = [loc EXCEPT ![w] = NoLocals]
        /\ pc' = [pc EXCEPT ![w] = "trim"] /\ UNCHANGED hold
  /\ UNCHANGED <<elems, bottom, overflow, offered, found, prefix, created, scanned, steals>>

SetAge(w) ==
  /\ Step(w, "setAge", "trim")
  /\ set_age(w) /\ loc' = [loc EXCEPT ![w] = NoLocals]
  /\ UNCHANGED <<elems, bottom, overflow, offered, workVars, steals>>

----------------------------------------------------------------------------
(* steal() and pop_global().                                               *)

pop_global(w) ==
  /\ Step(w, "steal", "stealBottom") /\ steals < MaxSteals
  /\ \E k \in Worker \ {w} :
       loc' = [loc EXCEPT ![w].k = k, ![w].oldAge = age[k]]
  /\ UNCHANGED <<queueVars, overflow, offered, workVars, steals>>

GiveUp(w) ==
  /\ Step(w, "steal", "take") /\ steals >= MaxSteals
  /\ loc' = [loc EXCEPT ![w] = NoLocals]
  /\ UNCHANGED <<queueVars, overflow, offered, workVars, steals>>

\* An attempt that failed: the next one, or the overflow list.
NextTry(w) ==
  IF loc[w].i + 1 < MaxTries
    THEN /\ loc' = [loc EXCEPT ![w] = [NoLocals EXCEPT !.i = loc[w].i + 1]]
         /\ pc' = [pc EXCEPT ![w] = "steal"]
    ELSE /\ loc' = [loc EXCEPT ![w] = NoLocals]
         /\ pc' = [pc EXCEPT ![w] = "take"]

StealBottom(w) ==
  /\ pc[w] = "stealBottom"
  /\ IF size(bottom[loc[w].k], loc[w].oldAge.top) = 0 THEN NextTry(w)
     ELSE pc' = [pc EXCEPT ![w] = "stealElem"] /\ UNCHANGED loc
  /\ UNCHANGED <<queueVars, overflow, offered, workVars, steals>>

StealElem(w) ==
  /\ Step(w, "stealElem", "stealCas")
  /\ loc' = [loc EXCEPT ![w].t = elems[loc[w].k][loc[w].oldAge.top]]
  /\ UNCHANGED <<queueVars, overflow, offered, workVars, steals>>

\* The age without the oldest element; a new tag whenever top wraps around.
Stolen(a) ==
  LET top == increment_index(a.top)
  IN  [top |-> top, tag |-> IF top = 0 THEN (a.tag + 1) % TagSize ELSE a.tag]

\* The CAS; what was stolen goes to the thief's own queue.
Unchanged(a, b) == a = b

StealCas(w) ==
  LET k == loc[w].k IN
  /\ pc[w] = "stealCas"
  /\ \/ /\ Unchanged(age[k], loc[w].oldAge)
        /\ age' = [age EXCEPT ![k] = Stolen(@)] /\ Claim(w, loc[w].t)
        /\ loc' = [loc EXCEPT ![w] = NoLocals] /\ steals' = steals + 1
        /\ pc' = [pc EXCEPT ![w] = "push"]
     \/ /\ ~Unchanged(age[k], loc[w].oldAge)
        /\ NextTry(w) /\ UNCHANGED <<age, hold, steals>>
  /\ UNCHANGED <<elems, bottom, overflow, offered, found, prefix, created, scanned>>

----------------------------------------------------------------------------
(* take_from_overflow_list().                                              *)

Max1(n) == IF n > 1 THEN n ELSE 1
objsFromOverflow ==
  IF max_elems \div 4 < ParGCDesiredObjsFromOverflowList
  THEN max_elems \div 4 ELSE ParGCDesiredObjsFromOverflowList

\* The whole list is taken with an exchange; at least one object is kept.
take_from_overflow_list(w) ==
  /\ pc[w] = "take"
  /\ \/ /\ overflow = <<>> /\ pc' = [pc EXCEPT ![w] = "offer"]
        /\ UNCHANGED <<overflow, prefix>>
     \/ /\ overflow # <<>> /\ overflow' = <<>>
        /\ prefix' = [prefix EXCEPT ![w] = overflow]
        /\ pc' = [pc EXCEPT ![w] = IF Len(overflow) > Max1(objsFromOverflow)
                                  THEN "reattach" ELSE "push"]
  /\ UNCHANGED <<queueVars, offered, loc, hold, found, created, scanned, steals>>

\* The rest goes back in front of what others have put there meanwhile.
Rejoined(suffix) == suffix \o overflow

Reattach(w) ==
  LET n == Max1(objsFromOverflow) IN
  /\ Step(w, "reattach", "push")
  /\ overflow' = Rejoined(SubSeq(prefix[w], n + 1, Len(prefix[w])))
  /\ prefix' = [prefix EXCEPT ![w] = SubSeq(@, 1, n)]
  /\ UNCHANGED <<queueVars, offered, loc, hold, found, created, scanned, steals>>

----------------------------------------------------------------------------
(* ParallelTaskTerminator.                                                 *)

\* An atomic increment.
Offered_Lost == offered
Offered == offered + 1

offer_termination(w) ==
  /\ Step(w, "offer", "offered") /\ offered' = Offered
  /\ UNCHANGED <<queueVars, overflow, loc, workVars, steals>>

\* All have offered; or look at the queues, one after the other.
AllOffered_OneLess == offered >= NWorkers - 1
AllOffered == offered = NWorkers

TestOffered(w) ==
  /\ pc[w] = "offered"
  /\ pc' = [pc EXCEPT ![w] = IF AllOffered THEN "done" ELSE "peekBottom"]
  /\ UNCHANGED <<queueVars, overflow, offered, loc, workVars, steals>>

peek(w) ==
  /\ Step(w, "peekBottom", "peekTop")
  /\ loc' = [loc EXCEPT ![w].localBot = bottom[loc[w].k]]
  /\ UNCHANGED <<queueVars, overflow, offered, workVars, steals>>

PeekTop(w) ==
  /\ pc[w] = "peekTop"
  /\ \/ /\ loc[w].localBot # age[loc[w].k].top
        /\ pc' = [pc EXCEPT ![w] = "withdraw"]
        /\ loc' = [loc EXCEPT ![w] = NoLocals]
     \/ /\ loc[w].localBot = age[loc[w].k].top /\ loc[w].k < NWorkers - 1
        /\ pc' = [pc EXCEPT ![w] = "peekBottom"]
        /\ loc' = [loc EXCEPT ![w] = [NoLocals EXCEPT !.k = loc[w].k + 1]]
     \/ /\ loc[w].localBot = age[loc[w].k].top /\ loc[w].k = NWorkers - 1
        /\ pc' = [pc EXCEPT ![w] = "offered"]
        /\ loc' = [loc EXCEPT ![w] = NoLocals]
  /\ UNCHANGED <<queueVars, overflow, offered, workVars, steals>>

\* Somebody has work: back to it.
Withdrawn == offered - 1

Withdraw(w) ==
  /\ Step(w, "withdraw", "trim") /\ offered' = Withdrawn
  /\ UNCHANGED <<queueVars, overflow, loc, workVars, steals>>

AllDone == \A w \in Worker : pc[w] = "done"

\* After the workers have been joined.
reset_for_reuse ==
  /\ AllDone /\ offered # 0 /\ offered' = 0
  /\ UNCHANGED <<queueVars, overflow, pc, loc, workVars, steals>>

----------------------------------------------------------------------------

WorkerNext(w) ==
  \/ Discover(w) \/ Scanned(w) \/ push(w) \/ PushElem(w) \/ PushBottom(w)
  \/ push_on_overflow_list(w) \/ trim_queues(w) \/ pop_local(w)
  \/ DecrementBottom(w) \/ ReadTop(w) \/ GetAge(w) \/ pop_local_slow(w)
  \/ SetAge(w) \/ pop_global(w) \/ GiveUp(w) \/ StealBottom(w) \/ StealElem(w) \/ StealCas(w)
  \/ take_from_overflow_list(w) \/ Reattach(w) \/ offer_termination(w)
  \/ TestOffered(w) \/ peek(w) \/ PeekTop(w) \/ Withdraw(w)

Next == reset_for_reuse \/ \E w \in Worker : WorkerNext(w)

Spec == Init /\ [][Next]_vars

\* The workers run; nothing that they do waits for another one.
FairSpec ==
  /\ Spec /\ WF_vars(reset_for_reuse)
  /\ \A w \in Worker : WF_vars(WorkerNext(w))

----------------------------------------------------------------------------
(* Properties.                                                             *)

\* The tasks in a queue, with the one that the owner is about to pop unless a
\* thief got it.
Popping(w) == pc[w] \in {"readTop", "getAge", "cas", "setAge"}
Contents(w) ==
  LET bot == IF Popping(w) THEN increment_index(bottom[w]) ELSE bottom[w]
      n == dirty_size(bot, age[w].top)
  IN  {elems[w][(age[w].top + i) % N] : i \in 0 .. n - 1}

InHand(w) == ({hold[w], found[w]} \ {NoTask}) \cup Range(prefix[w])

\* The queues, the overflow list and the terminator are a pool of tasks: what is
\* found is taken by one worker at a time and done once, though a pop_local() and
\* several pop_global() may all have read the same element, and nothing is lost
\* between the lists.
Pool == INSTANCE WorkPool WITH
  pool <- Range(overflow) \cup UNION {Contents(w) : w \in Worker},
  hand <- [w \in Worker |-> InHand(w)],
  finished <- scanned,
  over <- [w \in Worker |-> pc[w] = "done"]

ImplementsPool == Pool!Spec

\* offer_termination() returns true to nobody while there is anything to do
\* ("If returns "true", all threads are terminated").
NoEarlyTermination ==
  (\E w \in Worker : pc[w] = "done") => scanned = 1 .. created

\* What the code asserts.  The owner finds the ends of its queue past each other
\* nowhere but inside pop_local() ("Shouldn't be possible..."); whoever pushes
\* without looking at the result has room: for a stolen task ("Empty queue should
\* have room for a push."), and for what is left of an array that it pops ("just
\* popped, push must be okay"); when all have returned, all offers stand
\* ("Terminator may still be in use").
Assertions ==
  /\ \A w \in Worker :
       /\ dirty_size(bottom[w], age[w].top) = N - 1 => Popping(w)
       /\ Popping(w) \/ (pc[w] = "push" /\ found[w] = NoTask) =>
            HasRoom(bottom[w], age[w].top)
  /\ AllDone => offered \in {0, NWorkers}

\* Every collection ends, with a terminator that can be used again, if tasks are stolen
\* no more than MaxSteals times and a few.  The code has no such bound: a thief pushes
\* what it stole onto its own queue, where others can steal it before it is popped,
\* and only chance ends that.
Terminates == <>(AllDone /\ offered = 0)

=============================================================================
