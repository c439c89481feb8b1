------------------------- MODULE ObjectSynchronizer -------------------------
(***************************************************************************)
(* The mark word of an object as lock and as place of the identity hash    *)
(* code (class ObjectSynchronizer, runtime/synchronizer.cpp): stack        *)
(* locking, inflation of the lock to an ObjectMonitor, deflation at        *)
(* safepoints, the free lists of monitors, and FastHashCode().             *)
(*                                                                         *)
(* The header with the hash code is in the mark word, in the BasicLock of  *)
(* the thread that has the object stack-locked, or in the monitor; it      *)
(* moves between them by CAS and stores, without a lock.  Every access to  *)
(* the mark word, to another thread's BasicLock or to the header of a      *)
(* published monitor is a step.  Biased locking is off.                    *)
(*                                                                         *)
(* Of the ObjectMonitor there is what ObjectMonitor.tla shows of it: an    *)
(* owner, the depth, and is_busy() as long as a thread will come back to   *)
(* it.  A thread stops for a safepoint while it runs Java code, and while  *)
(* it is blocked in a monitor, nowhere else.                               *)
(***************************************************************************)
EXTENDS Integers, Sequences

CONSTANTS
  Thread,
  Monitor,    \* bound: the monitors that can be allocated
  Hash,       \* the values of get_next_hash(), which are not 0
  NULL,
  Ops,        \* what each thread may do: "enter", "wait", "hash", "die"
  MaxDepth,   \* bound: how deep a thread enters
  MaxCalls    \* bound: how many calls, exits not counted, each thread starts

\* The owner of a monitor that was inflated over the stack lock of t.
BasicLock(t) == <<"BasicLock", t>>

ASSUME ConstantsAssumption ==
  /\ NULL \notin Thread /\ NULL \notin Monitor
  /\ \A t \in Thread : BasicLock(t) \notin Thread \cup {NULL}
  /\ 0 \notin Hash
  /\ Ops \in [Thread -> SUBSET {"enter", "wait", "hash", "die"}]
  /\ MaxDepth \in Nat /\ MaxCalls \in [Thread -> Nat]

VARIABLES
  mark,        \* the mark word
  box,         \* the displaced header in each thread's outermost BasicLock
  inner,       \* those in its other BasicLocks, the innermost last
  header,      \* ObjectMonitor::_header
  object,      \* the monitors whose _object is the object, and not NULL
  owner,       \* ObjectMonitor::_owner: a thread, its BasicLock or NULL
  recursions,  \* ObjectMonitor::_recursions
  contenders,  \* the threads that make is_busy() true, by _count or _waiters
  omFreeList,  \* Thread::omFreeList
  gFreeList,   \* ObjectSynchronizer::gFreeList
  extant,      \* the monitors of the blocks on gBlockList
  pc,          \* where each thread is
  ret,         \* local: why the thread inflates
  seen,        \* local: the mark that was read
  mon,         \* local: the monitor in hand
  hash,        \* local of FastHashCode(): the hash code to install
  save,        \* local of wait(): the recursions given up
  returned,    \* history: the hash codes FastHashCode() has returned
  calls        \* what is left of MaxCalls

stackVars == <<box, inner>>
monVars   == <<owner, recursions, contenders>>
poolVars  == <<omFreeList, gFreeList, extant>>
vars      == <<mark, stackVars, header, object, monVars, poolVars, pc, ret, seen,
               mon, hash, save, returned, calls>>

\* The states of the mark word.
Neutral(h)  == <<"neutral", h>>
Locked(t)   == <<"locked", t>>
INFLATING   == <<"INFLATING", NULL>>
Inflated(m) == <<"monitor", m>>

is_neutral(w)  == w[1] = "neutral"
has_locker(w)  == w[1] = "locked"
has_monitor(w) == w[1] = "monitor"

Header == {Neutral(h) : h \in Hash \cup {0}}
Mark   == Header \cup {Locked(t) : t \in Thread} \cup {INFLATING}
            \cup {Inflated(m) : m \in Monitor}

\* A displaced header of a BasicLock that no mark word points to, and of a
\* recursive stack lock.
unused_mark == <<"unused", NULL>>
recursive   == <<"recursive", NULL>>
None        == <<"none", NULL>>

Label == { "run", "enterCas", "exitCas", "inflate", "alloc", "casLocked", "copy",
           "publish", "casNeutral", "enter", "blocked", "exit", "wait", "waiting",
           "hashCas", "hashMonitor", "hash", "headerCas", "exiting", "dead" }

TypeOK ==
  /\ mark \in Mark
  /\ box \in [Thread -> Header \cup {unused_mark, None}]
  /\ inner \in [Thread -> Seq(Header \cup {unused_mark, recursive})]
  /\ header \in [Monitor -> Header] /\ object \subseteq Monitor
  /\ owner \in [Monitor -> Thread \cup {NULL} \cup {BasicLock(t) : t \in Thread}]
  /\ recursions \in [Monitor -> Nat] /\ contenders \in [Monitor -> SUBSET Thread]
  /\ omFreeList \in [Thread -> SUBSET Monitor]
  /\ gFreeList \subseteq Monitor /\ extant \subseteq Monitor
  /\ pc \in [Thread -> Label] /\ ret \in [Thread -> {"enter", "exit", "wait", "hash"}]
  /\ seen \in [Thread -> Mark] /\ mon \in [Thread -> Monitor \cup {NULL}]
  /\ hash \in [Thread -> Hash \cup {0}] /\ save \in [Thread -> Nat]
  /\ returned \subseteq Hash \cup {0} /\ calls \in [Thread -> Nat]

\* A new object, which nobody has locked or hashed.
Init ==
  /\ mark = Neutral(0)
  /\ box = [t \in Thread |-> None] /\ inner = [t \in Thread |-> <<>>]
  /\ header = [m \in Monitor |-> Neutral(0)]
  /\ object = {}
  /\ owner = [m \in Monitor |-> NULL] /\ recursions = [m \in Monitor |-> 0]
  /\ contenders = [m \in Monitor |-> {}]
  /\ omFreeList = [t \in Thread |-> {}] /\ gFreeList = {} /\ extant = {}
  /\ pc = [t \in Thread |-> "run"] /\ ret = [t \in Thread |-> "enter"]
  /\ seen = [t \in Thread |-> Neutral(0)] /\ mon = [t \in Thread |-> NULL]
  /\ hash = [t \in Thread |-> 0] /\ save = [t \in Thread |-> 0]
  /\ returned = {} /\ calls = MaxCalls

At(t, l)      == pc[t] = l
Goto(t, l)    == pc' = [pc EXCEPT ![t] = l]
Step(t, l, m) == At(t, l) /\ Goto(t, m)

\* A call that the thread starts from Java code.
Start(t, o) ==
  /\ At(t, "run") /\ o \in Ops[t] /\ calls[t] > 0
  /\ calls' = [calls EXCEPT ![t] = @ - 1]

\* Locals: what a thread forgets when it leaves the synchronizer.
Forget(t) ==
  /\ seen' = [seen EXCEPT ![t] = Neutral(0)] /\ mon' = [mon EXCEPT ![t] = NULL]
  /\ hash' = [hash EXCEPT ![t] = 0] /\ save' = [save EXCEPT ![t] = 0]

----------------------------------------------------------------------------
(* The tests and updates the operations are made of.  The definitions      *)
(* named X_... are plausible errors in X: none is used here, each shows    *)
(* that a property depends on X.                                           *)

\* As in SequencesExt.
Last(s)  == s[Len(s)]
Front(s) == SubSeq(s, 1, Len(s) - 1)

\* The BasicLocks of t on its stack, the innermost one and all of them.
displaced_header(t) == IF inner[t] = <<>> THEN box[t] ELSE Last(inner[t])

Entries(t) == IF box[t] = None THEN 0 ELSE 1 + Len(inner[t])

\* A BasicLock more, and the innermost one changed, or gone.
Push(t, d) ==
  IF box[t] = None
    THEN box' = [box EXCEPT ![t] = d] /\ UNCHANGED inner
    ELSE inner' = [inner EXCEPT ![t] = Append(@, d)] /\ UNCHANGED box
set_displaced_header(t, d) ==
  IF inner[t] = <<>>
    THEN box' = [box EXCEPT ![t] = d] /\ UNCHANGED inner
    ELSE inner' = [inner EXCEPT ![t] = Append(Front(@), d)] /\ UNCHANGED box
Pop(t) ==
  IF inner[t] = <<>>
    THEN box' = [box EXCEPT ![t] = None] /\ UNCHANGED inner
    ELSE inner' = [inner EXCEPT ![t] = Front(@)] /\ UNCHANGED box

\* A CAS on the mark word succeeds: the word is still the one read.
Unchanged_Blindly(t) == TRUE
Unchanged(t) == mark = seen[t]

\* inflate() fetches the header from the stack of the locker.
displaced_mark_helper_Stale(t) == Neutral(0)
displaced_mark_helper(t) == box[seen[t][2]]

\* The mark with the monitor that t has prepared.
Published_Not(t) == mark
Published(t) == Inflated(mon[t])

\* ObjectMonitor::is_busy()
is_busy_OwnerOnly(m) == owner[m] # NULL
is_busy(m) == owner[m] # NULL \/ contenders[m] # {}

\* omRelease()
Released_Leaked(t) == omFreeList
Released(t) == [omFreeList EXCEPT ![t] = @ \cup {mon[t]}]

\* exit() of a monitor that was entered more than once.
Nested(m) == recursions[m] # 0

\* The monitor goes to an owner; t is its owner.
Given(m, o) == owner' = [owner EXCEPT ![m] = o]
is_entered(t, m) == owner[m] \in {t, BasicLock(t)}

----------------------------------------------------------------------------
(* inflate(): at "inflate", with the caller's purpose in ret.              *)

inflate(t, purpose) ==
  /\ Goto(t, "inflate") /\ ret' = [ret EXCEPT ![t] = purpose]

\* The mark is read until it is not INFLATING (ReadStableMark).
ReadMark(t) ==
  /\ At(t, "inflate") /\ mark # INFLATING
  /\ seen' = [seen EXCEPT ![t] = mark]
  /\ IF has_monitor(mark)
       THEN mon' = [mon EXCEPT ![t] = mark[2]] /\ Goto(t, ret[t])
       ELSE UNCHANGED mon /\ Goto(t, "alloc")
  /\ UNCHANGED <<mark, stackVars, header, object, monVars, poolVars, ret, hash,
                 save, returned, calls>>

\* A new block, of one monitor; which one makes no difference.
Fresh == CHOOSE m \in Monitor \ extant : TRUE

\* omAlloc(): refill the thread's own list, from the global one or from a new
\* block, until there is a monitor on it.
Reprovision(t) ==
  /\ At(t, "alloc") /\ omFreeList[t] = {}
  /\ IF gFreeList # {}
       THEN /\ \E taken \in SUBSET gFreeList :
                 /\ taken # {}
                 /\ gFreeList' = gFreeList \ taken
                 /\ omFreeList' = [omFreeList EXCEPT ![t] = taken]
            /\ UNCHANGED extant
       ELSE /\ extant # Monitor
            /\ gFreeList' = {Fresh} /\ extant' = extant \cup {Fresh}
            /\ UNCHANGED omFreeList
  /\ UNCHANGED <<mark, stackVars, header, object, monVars, pc, ret, seen, mon,
                 hash, save, returned, calls>>

\* The monitor is prepared: Recycle(), set_header() and set_object() for a
\* neutral mark, before the CAS; for a stack lock after it.
omAlloc(t) ==
  /\ At(t, "alloc")
  /\ \E m \in omFreeList[t] :
       /\ omFreeList' = [omFreeList EXCEPT ![t] = @ \ {m}]
       /\ mon' = [mon EXCEPT ![t] = m]
       /\ recursions' = [recursions EXCEPT ![m] = 0]
       /\ IF has_locker(seen[t])
            THEN Goto(t, "casLocked") /\ UNCHANGED <<header, object, owner>>
            ELSE /\ header' = [header EXCEPT ![m] = seen[t]]
                 /\ object' = object \cup {m}
                 /\ Given(m, NULL)
                 /\ Goto(t, "casNeutral")
  /\ UNCHANGED <<mark, stackVars, contenders, gFreeList, extant, ret, seen, hash,
                 save, returned, calls>>

\* Over a stack lock: INFLATING stalls the locker while its header is copied ...
CasLocked(t) ==
  /\ At(t, "casLocked")
  /\ IF Unchanged(t)
       THEN mark' = INFLATING /\ Goto(t, "copy") /\ UNCHANGED <<omFreeList, mon>>
       ELSE /\ omFreeList' = Released(t) /\ mon' = [mon EXCEPT ![t] = NULL]
            /\ Goto(t, "inflate") /\ UNCHANGED mark
  /\ UNCHANGED <<stackVars, header, object, monVars, gFreeList, extant, ret, seen,
                 hash, save, returned, calls>>

Copy(t) ==
  /\ Step(t, "copy", "publish")
  /\ header' = [header EXCEPT ![mon[t]] = displaced_mark_helper(t)]
  /\ Given(mon[t], BasicLock(seen[t][2]))
  /\ object' = object \cup {mon[t]}
  /\ UNCHANGED <<mark, stackVars, recursions, contenders, poolVars, ret, seen, mon,
                 hash, save, returned, calls>>

\* ... and the monitor replaces it.
Publish(t) ==
  /\ Step(t, "publish", ret[t])
  /\ mark' = Published(t)
  /\ UNCHANGED <<stackVars, header, object, monVars, poolVars, ret, seen, mon, hash,
                 save, returned, calls>>

\* Over a neutral mark: one CAS.
CasNeutral(t) ==
  /\ At(t, "casNeutral")
  /\ IF Unchanged(t)
       THEN /\ mark' = Published(t) /\ Goto(t, ret[t])
            /\ UNCHANGED <<object, omFreeList, mon>>
       ELSE /\ object' = object \ {mon[t]}
            /\ omFreeList' = Released(t) /\ mon' = [mon EXCEPT ![t] = NULL]
            /\ Goto(t, "inflate") /\ UNCHANGED mark
  /\ UNCHANGED <<stackVars, header, monVars, gFreeList, extant, ret, seen, hash,
                 save, returned, calls>>

InflateSteps(t) ==
  \/ ReadMark(t) \/ Reprovision(t) \/ omAlloc(t) \/ CasLocked(t) \/ Copy(t)
  \/ Publish(t) \/ CasNeutral(t)

----------------------------------------------------------------------------
(* fast_enter() and slow_enter(), fast_exit() and slow_exit().             *)

\* A neutral mark is moved to the BasicLock and replaced by a CAS; a thread that
\* has the object stack-locked has it again; all others inflate.
fast_enter(t) ==
  /\ Start(t, "enter") /\ Entries(t) < MaxDepth
  /\ CASE is_neutral(mark) ->
            /\ Push(t, mark) /\ seen' = [seen EXCEPT ![t] = mark]
            /\ Goto(t, "enterCas") /\ UNCHANGED ret
       [] mark = Locked(t) -> Push(t, recursive) /\ UNCHANGED <<seen, pc, ret>>
       [] OTHER -> Push(t, unused_mark) /\ inflate(t, "enter") /\ UNCHANGED seen
  /\ UNCHANGED <<mark, header, object, monVars, poolVars, mon, hash, save, returned>>

EnterCas(t) ==
  /\ At(t, "enterCas")
  /\ IF Unchanged(t)
       THEN /\ mark' = Locked(t) /\ Goto(t, "run")
            /\ seen' = [seen EXCEPT ![t] = Neutral(0)]
            /\ UNCHANGED <<stackVars, ret>>
       ELSE /\ set_displaced_header(t, unused_mark) /\ inflate(t, "enter")
            /\ UNCHANGED <<mark, seen>>
  /\ UNCHANGED <<header, object, monVars, poolVars, mon, hash, save, returned, calls>>

\* A recursive stack lock is just forgotten; the outermost one is undone by a
\* CAS, if the mark still points to it; all others inflate, and stall while the
\* mark is INFLATING.
fast_exit(t) ==
  /\ At(t, "run") /\ Entries(t) > 0
  /\ CASE displaced_header(t) = recursive -> Pop(t) /\ UNCHANGED <<pc, ret>>
       [] displaced_header(t) # recursive /\ mark = Locked(t) ->
            Goto(t, "exitCas") /\ UNCHANGED <<stackVars, ret>>
       [] OTHER -> inflate(t, "exit") /\ UNCHANGED stackVars
  /\ UNCHANGED <<mark, header, object, monVars, poolVars, seen, mon, hash, save,
                 returned, calls>>

ExitCas(t) ==
  /\ At(t, "exitCas")
  /\ IF mark = Locked(t)
       THEN mark' = displaced_header(t) /\ Pop(t) /\ Goto(t, "run") /\ UNCHANGED ret
       ELSE inflate(t, "exit") /\ UNCHANGED <<mark, stackVars>>
  /\ UNCHANGED <<header, object, monVars, poolVars, seen, mon, hash, save, returned,
                 calls>>

----------------------------------------------------------------------------
(* The monitor: enter(), exit() and wait() as their callers see them.      *)

enter(t) ==
  LET m == mon[t] IN
  /\ At(t, "enter")
  /\ CASE owner[m] = NULL -> Given(m, t) /\ UNCHANGED <<recursions, contenders>>
       [] is_entered(t, m) ->
            /\ Given(m, t) /\ UNCHANGED contenders
            /\ recursions' = [recursions EXCEPT ![m] = @ + 1]
       [] OTHER -> /\ contenders' = [contenders EXCEPT ![m] = @ \cup {t}]
                   /\ UNCHANGED <<owner, recursions>>
  /\ IF owner[m] = NULL \/ is_entered(t, m)
       THEN Goto(t, "run") /\ Forget(t)
       ELSE Goto(t, "blocked") /\ UNCHANGED <<seen, mon, hash, save>>
  /\ UNCHANGED <<mark, stackVars, header, object, poolVars, ret, returned, calls>>

\* A blocked thread gets the monitor; after wait() it has all its recursions.
Acquire(t) ==
  LET m == mon[t] IN
  /\ At(t, "blocked") \/ At(t, "waiting")
  /\ owner[m] = NULL /\ Given(m, t)
  /\ contenders' = [contenders EXCEPT ![m] = @ \ {t}]
  /\ recursions' = [recursions EXCEPT ![m] = save[t]]
  /\ Goto(t, "run") /\ Forget(t)
  /\ UNCHANGED <<mark, stackVars, header, object, poolVars, ret, returned, calls>>

exit(t) ==
  LET m == mon[t] IN
  /\ Step(t, "exit", "run")
  /\ IF Nested(m)
       THEN Given(m, t) /\ recursions' = [recursions EXCEPT ![m] = @ - 1]
       ELSE Given(m, NULL) /\ UNCHANGED recursions
  /\ Pop(t) /\ Forget(t)
  /\ UNCHANGED <<mark, header, object, contenders, poolVars, ret, returned, calls>>

\* ObjectSynchronizer::wait() inflates, whatever the lock is.
wait(t) ==
  /\ Start(t, "wait") /\ Entries(t) > 0
  /\ inflate(t, "wait")
  /\ UNCHANGED <<mark, stackVars, header, object, monVars, poolVars, seen, mon, hash,
                 save, returned>>

Wait(t) ==
  LET m == mon[t] IN
  /\ Step(t, "wait", "waiting")
  /\ save' = [save EXCEPT ![t] = recursions[m]]
  /\ recursions' = [recursions EXCEPT ![m] = 0]
  /\ contenders' = [contenders EXCEPT ![m] = @ \cup {t}]
  /\ Given(m, NULL)
  /\ UNCHANGED <<mark, stackVars, header, object, poolVars, ret, seen, mon, hash,
                 returned, calls>>

LockSteps(t) ==
  \/ EnterCas(t) \/ fast_exit(t) \/ ExitCas(t) \/ enter(t) \/ Acquire(t) \/ exit(t)
  \/ Wait(t)

----------------------------------------------------------------------------
(* FastHashCode().                                                         *)

Return(t, h) == returned' = returned \cup {h} /\ Goto(t, "run") /\ Forget(t)

\* The header is in the mark, in the monitor, or in a BasicLock of the caller.
FastHashCode(t) ==
  /\ Start(t, "hash") /\ mark # INFLATING
  /\ CASE is_neutral(mark) /\ mark # Neutral(0) -> Return(t, mark[2]) /\ UNCHANGED ret
       [] mark = Neutral(0) ->
            /\ \E h \in Hash : hash' = [hash EXCEPT ![t] = h]
            /\ seen' = [seen EXCEPT ![t] = mark] /\ Goto(t, "hashCas")
            /\ UNCHANGED <<returned, ret, mon, save>>
       [] has_monitor(mark) ->
            /\ mon' = [mon EXCEPT ![t] = mark[2]] /\ Goto(t, "hashMonitor")
            /\ UNCHANGED <<returned, ret, seen, hash, save>>
       [] mark = Locked(t) /\ box[t] # Neutral(0) -> Return(t, box[t][2]) /\ UNCHANGED ret
       [] OTHER -> inflate(t, "hash") /\ UNCHANGED <<returned, seen, mon, hash, save>>
  /\ UNCHANGED <<mark, stackVars, header, object, monVars, poolVars>>

HashCas(t) ==
  /\ At(t, "hashCas")
  /\ IF Unchanged(t)
       THEN mark' = Neutral(hash[t]) /\ Return(t, hash[t]) /\ UNCHANGED ret
       ELSE inflate(t, "hash") /\ UNCHANGED <<mark, returned, seen, mon, hash, save>>
  /\ UNCHANGED <<stackVars, header, object, monVars, poolVars, calls>>

\* A header with a hash code is final; one without asks for inflate(), which
\* finds the same monitor.
HashMonitor(t) ==
  /\ At(t, "hashMonitor")
  /\ IF header[mon[t]] # Neutral(0)
       THEN Return(t, header[mon[t]][2]) /\ UNCHANGED ret
       ELSE inflate(t, "hash") /\ UNCHANGED <<returned, seen, mon, hash, save>>
  /\ UNCHANGED <<mark, stackVars, header, object, monVars, poolVars, calls>>

HashInflated(t) ==
  /\ At(t, "hash")
  /\ IF header[mon[t]] # Neutral(0)
       THEN Return(t, header[mon[t]][2])
       ELSE /\ \E h \in Hash : hash' = [hash EXCEPT ![t] = h]
            /\ Goto(t, "headerCas") /\ UNCHANGED <<returned, seen, mon, save>>
  /\ UNCHANGED <<mark, stackVars, header, object, monVars, poolVars, ret, calls>>

\* The CAS on the monitor's header; the loser takes the winner's hash code.
HeaderCas(t) ==
  /\ At(t, "headerCas")
  /\ IF header[mon[t]] = Neutral(0)
       THEN /\ header' = [header EXCEPT ![mon[t]] = Neutral(hash[t])]
            /\ Return(t, hash[t])
       ELSE UNCHANGED header /\ Return(t, header[mon[t]][2])
  /\ UNCHANGED <<mark, stackVars, object, monVars, poolVars, ret, calls>>

HashSteps(t) == HashCas(t) \/ HashMonitor(t) \/ HashInflated(t) \/ HeaderCas(t)

----------------------------------------------------------------------------
(* Safepoints, and the end of a thread.                                    *)

\* The safepoint that a thread does not hold up.
AtSafepoint(t) == pc[t] \in {"run", "blocked", "waiting", "exiting", "dead"}

\* deflate_idle_monitors(), with all threads stopped: one monitor at most belongs
\* to the object then.  clear() sets the header of the monitor to NULL; nobody reads
\* the header of a free monitor, and it keeps its value here.
deflate_idle_monitors ==
  /\ \A t \in Thread : AtSafepoint(t)
  /\ \E m \in extant \cap object :
       /\ ~is_busy(m)
       /\ mark' = header[m]
       /\ object' = object \ {m}
       /\ gFreeList' = gFreeList \cup {m}
  /\ UNCHANGED <<stackVars, header, monVars, omFreeList, extant, pc, ret, seen, mon,
                 hash, save, returned, calls>>

\* Threads::remove(): a thread that dies leaves the thread list; no safepoint waits
\* for it from now on.
remove(t) ==
  /\ Start(t, "die") /\ Entries(t) = 0
  /\ Goto(t, "exiting")
  /\ UNCHANGED <<mark, stackVars, header, object, monVars, poolVars, ret, seen, mon,
                 hash, save, returned>>

\* Its destructor, which may run during a safepoint, gives its monitors back to the
\* global list.
omFlush(t) ==
  /\ Step(t, "exiting", "dead")
  /\ gFreeList' = gFreeList \cup omFreeList[t]
  /\ omFreeList' = [omFreeList EXCEPT ![t] = {}]
  /\ UNCHANGED <<mark, stackVars, header, object, monVars, extant, ret, seen, mon,
                 hash, save, returned, calls>>

Run(t) == InflateSteps(t) \/ LockSteps(t) \/ HashSteps(t) \/ omFlush(t)

Next ==
  \/ \E t \in Thread : \/ Run(t) \/ fast_enter(t) \/ wait(t) \/ FastHashCode(t)
                       \/ remove(t)
  \/ deflate_idle_monitors

Spec == Init /\ [][Next]_vars

\* A thread keeps running, leaves the monitor in the end, and takes one that stays
\* free.
FairSpec == Spec /\ \A t \in Thread : WF_vars(Run(t))

----------------------------------------------------------------------------
(* Properties.                                                             *)

\* The identity hash code of an object never changes: whatever FastHashCode()
\* returns, to whichever thread, while the header moves from the mark word to
\* BasicLocks and monitors and back, is the same number.
HashStable == \A a, b \in returned : a = b /\ a # 0

\* The monitor that a thread prepares and has not published.
Preparing(t, m) == mon[t] = m /\ pc[t] \in {"casLocked", "copy", "publish", "casNeutral"}

\* Every monitor that was allocated is in one place: on one free list, in the
\* hands of one thread that inflates, or in the mark word.
Accounted ==
  \A m \in extant :
    /\ \/ m \in gFreeList \/ mark = Inflated(m)
       \/ \E t \in Thread : m \in omFreeList[t] \/ Preparing(t, m)
    /\ m \in gFreeList =>
         /\ mark # Inflated(m)
         /\ \A t \in Thread : m \notin omFreeList[t] /\ ~Preparing(t, m)
    /\ \A t \in Thread : m \in omFreeList[t] =>
         /\ mark # Inflated(m)
         /\ \A u \in Thread : ~Preparing(u, m) /\ (u # t => m \notin omFreeList[u])
    /\ \A t \in Thread : Preparing(t, m) =>
         /\ mark # Inflated(m)
         /\ \A u \in Thread \ {t} : ~Preparing(u, m)

\* The guarantees of omAlloc(), omFlush() and deflate_idle_monitors(): a free
\* monitor belongs to no object and is not busy, and at a safepoint one that
\* belongs to an object is in its mark word.  A thread that holds a monitor in
\* its hands, or is blocked in one, holds the one in the mark word.
Guarantees ==
  /\ \A m \in extant :
       m \in gFreeList \cup UNION {omFreeList[t] : t \in Thread} =>
         m \notin object /\ ~is_busy(m)
  /\ (\A t \in Thread : AtSafepoint(t)) =>
       \A m \in extant \cap object : mark = Inflated(m)
  /\ \A t \in Thread :
       pc[t] \in {"enter", "blocked", "exit", "wait", "waiting", "hashMonitor", "hash",
                  "headerCas"} => mark = Inflated(mon[t])

\* An entry that is not complete.
Pending(t) ==
  \/ pc[t] = "enterCas"
  \/ /\ ret[t] = "enter"
     /\ pc[t] \in {"inflate", "alloc", "casLocked", "copy", "publish", "casNeutral",
                   "enter", "blocked"}

\* How often t has entered the object; it owns it; the thread that does.
Depth(t) == IF Pending(t) THEN Entries(t) - 1 ELSE Entries(t)
HasIt(t) == Depth(t) > 0 /\ pc[t] # "waiting"
Holder   == IF \E t \in Thread : HasIt(t) THEN CHOOSE t \in Thread : HasIt(t) ELSE NULL

Abs == INSTANCE JavaMonitor WITH
         holder <- Holder, depth <- [t \in Thread |-> Depth(t)], waiting <- {}

\* The object is locked like the monitor of the Java language, by one thread to
\* some depth, though the lock is in the mark word of a stack-locked object, in
\* the monitor, or on the way from one to the other.
ImplementsMonitor == Abs!Spec

\* No thread waits for ever for an inflation to end or for the lock, which the others
\* take MaxCalls times at most: in the end all calls have returned, and the threads
\* that died are gone.
EveryoneServed == <>[](\A t \in Thread : pc[t] \in {"run", "dead"} /\ Entries(t) = 0)

=============================================================================
