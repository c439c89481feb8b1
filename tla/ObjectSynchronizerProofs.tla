---------------------- MODULE ObjectSynchronizerProofs ----------------------
(***************************************************************************)
(* Proofs about ObjectSynchronizer, for any threads, monitors, hash codes  *)
(* and depths: the inductive invariant, with it the properties that        *)
(* os_mark checks on a small instance, and that every step of a thread is  *)
(* one step of JavaMonitor or none.                                        *)
(*                                                                         *)
(* Where the lock, the header and the monitors are is told from the places *)
(* of the threads: OwnInv says who owns the object, ShapeInv how often it  *)
(* is entered, PoolInv and PrepInv where every monitor is, HashInv which   *)
(* header is in charge.  An action is proved in two halves: a frame lemma  *)
(* (QuietStep, OffStep, PublishStep, PlainStep, OnMarkStep) carries over   *)
(* what the kind of step leaves alone, the action's lemma proves the rest. *)
(***************************************************************************)
EXTENDS ObjectSynchronizer, TLAPS

\* Zenon proves most leaves; those that say so are left to SMT.
USE ZenonT(40)

\* Where a thread is: inside inflate(); with a monitor it prepares; between the
\* CAS to INFLATING and the publication; blocked in the monitor; with the monitor of
\* the mark word in its hands.
Infl     == {"inflate", "alloc", "casLocked", "copy", "publish", "casNeutral"}
Prep     == {"casLocked", "copy", "publish", "casNeutral"}
Stalling == {"copy", "publish"}
Blocked  == {"blocked", "waiting"}
Users    == {"enter", "blocked", "exit", "wait", "waiting", "hashMonitor", "hash",
             "headerCas"}

\* t owns the object: it has a BasicLock, its entry is complete or not its first,
\* and it does not wait.
Owning(t) ==
  box[t] # None /\ pc[t] # "waiting" /\ ~(Pending(t) /\ inner[t] = <<>>)

\* The mark word, the inflation that is on the way or the monitor names t.
LockOwner(t) ==
  \/ mark = Locked(t)
  \/ \E i \in Thread : pc[i] \in Stalling /\ seen[i] = Locked(t)
  \/ \E m \in Monitor : mark = Inflated(m) /\ is_entered(t, m)

\* The two agree.  This is mutual exclusion: the right-hand side names one thread.
OwnInv(t) == Owning(t) <=> LockOwner(t)

\* The innermost n of the inner BasicLocks were entered through the monitor.
Counted(s, n) ==
  /\ n <= Len(s)
  /\ \A i \in 1..Len(s) : s[i] = IF i <= Len(s) - n THEN recursive ELSE unused_mark

\* How often the monitor is entered beyond the first time.
Recursions == IF has_monitor(mark) THEN recursions[mark[2]] ELSE 0

\* recursions of the monitor (or those that wait() saved) is the number of entries
\* that went through the monitor, so exit() never takes it below 0.
ShapeInv(t) ==
  /\ pc[t] = "waiting" => Counted(inner[t], save[t])
  /\ Owning(t) => Counted(inner[t], IF Pending(t) THEN Recursions + 1 ELSE Recursions)

\* The monitor in hand is the one in the mark word: it is not deflated meanwhile.
UserInv(t) == pc[t] \in Users => mark = Inflated(mon[t]) /\ mon[t] \in Monitor

\* What each thread has in its locals and BasicLocks, by its place.
PlaceInv(t) ==
  /\ box[t] = None => inner[t] = <<>>
  /\ pc[t] \in {"enter", "blocked"} => ret[t] = "enter"
  /\ pc[t] = "exit" => ret[t] = "exit"
  /\ pc[t] = "wait" => ret[t] = "wait"
  /\ pc[t] = "alloc" => seen[t] \in Header \cup {Locked(o) : o \in Thread}
  /\ pc[t] \in {"casLocked", "copy", "publish"} => seen[t] \in {Locked(o) : o \in Thread}
  /\ pc[t] = "casNeutral" => seen[t] \in Header
  /\ pc[t] = "enterCas" => box[t] = seen[t] /\ seen[t] \in Header /\ inner[t] = <<>>
  /\ pc[t] = "blocked" => inner[t] = <<>>
  /\ pc[t] = "hashCas" => seen[t] = Neutral(0) /\ hash[t] \in Hash
  /\ pc[t] = "headerCas" => hash[t] \in Hash
  /\ (pc[t] = "exitCas" \/ (pc[t] \in Infl \cup {"exit"} /\ ret[t] = "exit")) =>
       box[t] # None /\ displaced_header(t) # recursive
  /\ (\/ pc[t] \in Blocked
      \/ pc[t] \in Infl \cup {"wait", "enter"} /\ ret[t] \in {"wait", "enter"}) =>
       box[t] # None
  /\ pc[t] \in {"exiting", "dead"} => box[t] = None
  /\ save[t] # 0 => pc[t] = "waiting"

\* The mark word is INFLATING while one thread copies the header, no longer.
StallInv ==
  /\ mark = INFLATING <=> \E i \in Thread : pc[i] \in Stalling
  /\ \A i, j \in Thread : pc[i] \in Stalling /\ pc[j] \in Stalling => i = j

\* m is on a free list.
Free(m) == m \in gFreeList \/ \E t \in Thread : m \in omFreeList[t]

\* Every monitor is in one place.
PoolInv ==
  /\ \A m \in Monitor : Free(m) =>
       m \in extant /\ mark # Inflated(m) /\ \A t \in Thread : ~Preparing(t, m)
  /\ \A t \in Thread : omFreeList[t] \cap gFreeList = {}
  /\ \A t, u \in Thread : t # u => omFreeList[t] \cap omFreeList[u] = {}
  /\ \A t \in Thread : pc[t] \in Prep => mon[t] \in extant /\ mark # Inflated(mon[t])
  /\ \A t, u \in Thread :
       pc[t] \in Prep /\ pc[u] \in Prep /\ mon[t] = mon[u] => t = u
  /\ \A m \in Monitor : mark = Inflated(m) => m \in extant
  /\ \A m \in extant :
       Free(m) \/ mark = Inflated(m) \/ \E t \in Thread : Preparing(t, m)

\* The monitor that t prepares.
PrepInv(t) ==
  LET m == mon[t] IN
  /\ pc[t] \in Prep => recursions[m] = 0
  /\ pc[t] \in {"casLocked", "copy"} => m \notin object /\ owner[m] = NULL
  /\ pc[t] = "publish" => owner[m] = BasicLock(seen[t][2]) /\ header[m] = box[seen[t][2]]
  /\ pc[t] = "casNeutral" => owner[m] = NULL /\ header[m] = seen[t]
  /\ pc[t] \in {"publish", "casNeutral"} => m \in object

\* The monitor in the mark word belongs to the object; one that is neither there nor
\* in preparation is clean.
MonitorInv ==
  /\ \A m \in Monitor : mark # Inflated(m) => contenders[m] = {}
  /\ \A m \in Monitor : mark = Inflated(m) =>
       /\ m \in object
       /\ owner[m] = NULL => recursions[m] = 0
       /\ contenders[m] = {t \in Thread : pc[t] \in Blocked}
  /\ \A m \in Monitor : mark # Inflated(m) /\ (\A t \in Thread : ~Preparing(t, m)) =>
       m \notin object /\ owner[m] = NULL

\* The BasicLock the mark word points to, or pointed to, has the header.
HeaderInv ==
  /\ \A t \in Thread : mark = Locked(t) => box[t] \in Header
  /\ \A i \in Thread : pc[i] \in Stalling => box[seen[i][2]] \in Header

\* The header in charge, wherever it is, has the hash code a.
Current(a) ==
  /\ is_neutral(mark) => mark = Neutral(a)
  /\ \A t \in Thread : mark = Locked(t) => box[t] = Neutral(a)
  /\ \A i \in Thread : pc[i] \in Stalling => box[seen[i][2]] = Neutral(a)
  /\ \A m \in Monitor : mark = Inflated(m) => header[m] = Neutral(a)

\* It has every hash code that FastHashCode() has returned.
HashInv == \A a \in returned : a \in Hash /\ Current(a)

\* The inductive invariant.
ThreadInv(t) == PlaceInv(t) /\ UserInv(t) /\ OwnInv(t) /\ ShapeInv(t) /\ PrepInv(t)

Inv ==
  /\ TypeOK
  /\ \A t \in Thread : ThreadInv(t)
  /\ StallInv /\ PoolInv /\ MonitorInv /\ HeaderInv /\ HashInv

----------------------------------------------------------------------------

\* The words a mark word or a BasicLock can hold are different ones.
LEMMA MarkFacts ==
  /\ \A a, b : /\ Neutral(a) = Neutral(b) => a = b
               /\ Locked(a) = Locked(b) => a = b
               /\ Inflated(a) = Inflated(b) => a = b
               /\ Neutral(a) # Locked(b) /\ Neutral(a) # Inflated(b)
               /\ Locked(a) # Inflated(b)
               /\ BasicLock(a) = BasicLock(b) => a = b
  /\ \A a : /\ Neutral(a) # INFLATING /\ Locked(a) # INFLATING /\ Inflated(a) # INFLATING
            /\ Neutral(a) # None /\ Neutral(a) # unused_mark /\ Neutral(a) # recursive
            /\ Neutral(a)[2] = a /\ Locked(a)[2] = a /\ Inflated(a)[2] = a
            /\ is_neutral(Neutral(a)) /\ ~is_neutral(Locked(a)) /\ ~is_neutral(Inflated(a))
            /\ has_locker(Locked(a)) /\ ~has_locker(Neutral(a)) /\ ~has_locker(Inflated(a))
            /\ has_monitor(Inflated(a)) /\ ~has_monitor(Neutral(a)) /\ ~has_monitor(Locked(a))
  /\ ~is_neutral(INFLATING) /\ ~has_locker(INFLATING) /\ ~has_monitor(INFLATING)
  /\ None # unused_mark /\ None # recursive /\ unused_mark # recursive
BY DEF Neutral, Locked, INFLATING, Inflated, is_neutral, has_locker, has_monitor,
       unused_mark, recursive, None, BasicLock

\* A thread, its BasicLock and NULL are different owners.
LEMMA OwnerNames ==
  \A t, u \in Thread : /\ t # NULL /\ BasicLock(t) # NULL /\ BasicLock(t) # u
                       /\ BasicLock(t) = BasicLock(u) => t = u
BY ConstantsAssumption DEF BasicLock

\* A header is a neutral mark word.
LEMMA HeaderFacts ==
  ASSUME NEW w \in Header
  PROVE  /\ w = Neutral(w[2]) /\ w[2] \in Hash \cup {0}
         /\ w # None /\ w # unused_mark /\ w # recursive /\ w # INFLATING
         /\ is_neutral(w) /\ ~has_locker(w) /\ ~has_monitor(w)
         /\ w \in Mark
BY MarkFacts DEF Header, Mark

\* What a mark word can be.
LEMMA MarkCases ==
  ASSUME NEW w \in Mark
  PROVE  /\ is_neutral(w) <=> w \in Header
         /\ has_locker(w) <=> \E t \in Thread : w = Locked(t)
         /\ has_monitor(w) <=> \E m \in Monitor : w = Inflated(m)
         /\ is_neutral(w) \/ has_locker(w) \/ has_monitor(w) \/ w = INFLATING
BY MarkFacts DEF Header, Mark

\* What a step of t leaves alone of another thread.
Same(u) ==
  /\ pc'[u] = pc[u] /\ ret'[u] = ret[u] /\ seen'[u] = seen[u] /\ mon'[u] = mon[u]
  /\ box'[u] = box[u] /\ inner'[u] = inner[u] /\ hash'[u] = hash[u]
  /\ save'[u] = save[u]

\* A step of t leaves all other threads alone.
Others(t) == \A u \in Thread : u # t => Same(u)

\* Such a step keeps the parts of the invariant about the other threads: their
\* places,
LEMMA OthersPlace ==
  ASSUME Inv, NEW t \in Thread, Others(t), PlaceInv(t)'
  PROVE  \A u \in Thread : PlaceInv(u)'
<1>. SUFFICES ASSUME NEW u \in Thread, u # t PROVE PlaceInv(u)'
  OBVIOUS
<1>1. Same(u) /\ PlaceInv(u)
  BY DEF Others, Inv, ThreadInv
<1>. QED
  BY SMT, <1>1 DEF Same, PlaceInv, displaced_header

\* the monitors in their hands,
LEMMA OthersUser ==
  ASSUME Inv, NEW t \in Thread, Others(t), UNCHANGED mark, UserInv(t)'
  PROVE  \A u \in Thread : UserInv(u)'
BY DEF Inv, ThreadInv, UserInv, Others, Same

\* and the monitors they prepare.
LEMMA OthersPrep ==
  ASSUME Inv, NEW t \in Thread, Others(t), PrepInv(t)',
         UNCHANGED <<header, object, owner, recursions, box>>
  PROVE  \A u \in Thread : PrepInv(u)'
<1>. SUFFICES ASSUME NEW u \in Thread, u # t PROVE PrepInv(u)'
  OBVIOUS
<1>1. Same(u) /\ PrepInv(u)
  BY DEF Others, Inv, ThreadInv
<1>. QED
  BY <1>1 DEF Same, PrepInv

\* A step of t that leaves the lock, the monitors and their preparation alone.
Quiet(t) ==
  /\ Others(t)
  /\ UNCHANGED <<mark, header, object, owner, recursions, contenders>>
  /\ pc[t] \notin Prep \cup Blocked /\ pc'[t] \notin Prep \cup Blocked
  /\ Owning(t)' <=> Owning(t)
  /\ Owning(t) => box'[t] = box[t]

\* In every state the threads that have the object stack-locked own it.
LEMMA LockersOwn ==
  ASSUME Inv
  PROVE  /\ \A t \in Thread : mark = Locked(t) => Owning(t)
         /\ \A i, t \in Thread : pc[i] \in Stalling /\ seen[i] = Locked(t) => Owning(t)
         /\ \A i \in Thread : pc[i] \in Stalling =>
              seen[i][2] \in Thread /\ seen[i] = Locked(seen[i][2]) /\ Owning(seen[i][2])
<1>1. \A t \in Thread : OwnInv(t) /\ PlaceInv(t)
  BY DEF Inv, ThreadInv
<1>2. \A i \in Thread : pc[i] \in Stalling => seen[i] \in {Locked(o) : o \in Thread}
  BY <1>1 DEF PlaceInv, Stalling
<1>. QED
  BY SMT, <1>1, <1>2, MarkFacts DEF OwnInv, LockOwner

\* A quiet step keeps every part of the invariant: the inflations on the way,
LEMMA QuietStall ==
  ASSUME Inv, NEW t \in Thread, Quiet(t)
  PROVE  StallInv' /\ (\A u \in Thread : pc'[u] \in Stalling <=> pc[u] \in Stalling)
<1>1. \A u \in Thread : pc'[u] \in Stalling <=> pc[u] \in Stalling
  BY DEF Quiet, Others, Same, Prep, Stalling
<1>. QED
  BY <1>1 DEF Quiet, StallInv, Inv

\* the owner,
LEMMA QuietOwn ==
  ASSUME Inv, NEW t \in Thread, Quiet(t)
  PROVE  \A u \in Thread : OwnInv(u)'
<1>. SUFFICES ASSUME NEW u \in Thread PROVE OwnInv(u)'
  OBVIOUS
<1>1. Owning(u)' <=> Owning(u)
  BY ZenonT(30) DEF Quiet, Others, Same, Owning, Pending
<1>2. \A i \in Thread : (pc'[i] \in Stalling /\ seen'[i] = Locked(u))
                          <=> (pc[i] \in Stalling /\ seen[i] = Locked(u))
  BY DEF Quiet, Others, Same, Prep, Stalling
<1>3. LockOwner(u)' <=> LockOwner(u)
  BY <1>2 DEF Quiet, LockOwner, is_entered
<1>. QED
  BY <1>1, <1>3 DEF Inv, ThreadInv, OwnInv

\* the depth,
LEMMA QuietShape ==
  ASSUME Inv, NEW t \in Thread, Quiet(t), ShapeInv(t)'
  PROVE  \A u \in Thread : ShapeInv(u)'
<1>. SUFFICES ASSUME NEW u \in Thread, u # t PROVE ShapeInv(u)'
  OBVIOUS
<1>1. Same(u) /\ ShapeInv(u) /\ Recursions' = Recursions
  BY DEF Quiet, Others, Inv, ThreadInv, Recursions
<1>2. (Owning(u)' <=> Owning(u)) /\ (Pending(u)' <=> Pending(u))
  BY <1>1 DEF Same, Owning, Pending
<1>. QED
  BY <1>1, <1>2 DEF Same, ShapeInv

\* the monitors and the headers,
LEMMA QuietMonitors ==
  ASSUME Inv, NEW t \in Thread, Quiet(t)
  PROVE  MonitorInv' /\ (\A u \in Thread : PrepInv(u)') /\ HeaderInv'
<1>1. \A u \in Thread, m \in Monitor : Preparing(u, m)' <=> Preparing(u, m)
  BY DEF Quiet, Others, Same, Preparing, Prep
<1>2. {u \in Thread : pc'[u] \in Blocked} = {u \in Thread : pc[u] \in Blocked}
  BY DEF Quiet, Others, Same
<1>3. MonitorInv'
  BY <1>1, <1>2 DEF Quiet, MonitorInv, Inv
<1>4. \A i \in Thread : pc'[i] \in Stalling =>
        pc[i] \in Stalling /\ seen'[i] = seen[i] /\ box'[seen[i][2]] = box[seen[i][2]]
  BY LockersOwn DEF Quiet, Others, Same, Prep, Stalling
<1>5. \A u \in Thread : PrepInv(u)'
  <2>. SUFFICES ASSUME NEW u \in Thread, pc'[u] \in Prep PROVE PrepInv(u)'
    BY DEF PrepInv, Prep
  <2>1. u # t /\ Same(u) /\ PrepInv(u)
    BY DEF Quiet, Others, Inv, ThreadInv
  <2>. QED
    BY <2>1, <1>4 DEF PrepInv, Same, Quiet, Stalling
<1>6. HeaderInv'
  <2>1. \A u \in Thread : mark = Locked(u) => box'[u] = box[u]
    BY LockersOwn DEF Quiet, Others, Same
  <2>. QED
    BY <2>1, <1>4 DEF HeaderInv, Inv, Quiet
<1>. QED
  BY <1>3, <1>5, <1>6

\* the free lists,
LEMMA QuietPool ==
  ASSUME Inv, NEW t \in Thread, Quiet(t), UNCHANGED poolVars
  PROVE  PoolInv'
<1>1. \A u \in Thread, m \in Monitor : Preparing(u, m)' <=> Preparing(u, m)
  BY DEF Quiet, Others, Same, Preparing, Prep
<1>2. \A u \in Thread : pc'[u] \in Prep => pc[u] \in Prep /\ mon'[u] = mon[u]
  BY DEF Quiet, Others, Same
<1>3. \A m \in Monitor : Free(m)' <=> Free(m)
  BY DEF Free, poolVars
<1>. QED
  BY <1>1, <1>2, <1>3 DEF PoolInv, Inv, Quiet, poolVars, TypeOK

\* the header in charge,
LEMMA QuietCurrent ==
  ASSUME Inv, NEW t \in Thread, Quiet(t), NEW a, Current(a)
  PROVE  Current(a)'
<1>1. \A i \in Thread : pc'[i] \in Stalling =>
        pc[i] \in Stalling /\ seen'[i] = seen[i] /\ box'[seen[i][2]] = box[seen[i][2]]
  BY LockersOwn DEF Quiet, Others, Same, Prep, Stalling
<1>2. \A u \in Thread : mark = Locked(u) => box'[u] = box[u]
  BY LockersOwn DEF Quiet, Others, Same
<1>. QED
  BY <1>1, <1>2 DEF Current, Quiet

\* the hash code,
LEMMA QuietHash ==
  ASSUME Inv, NEW t \in Thread, Quiet(t),
         \/ UNCHANGED returned
         \/ \E a \in Hash : Current(a) /\ returned' = returned \cup {a}
  PROVE  HashInv'
BY QuietCurrent DEF HashInv, Inv

\* and so all of it, if the parts about t and the free lists are kept,
LEMMA QuietStepPool ==
  ASSUME Inv, NEW t \in Thread, Quiet(t), TypeOK', PlaceInv(t)', UserInv(t)', ShapeInv(t)',
         HashInv', PoolInv'
  PROVE  Inv'
<1>1. Others(t) /\ UNCHANGED mark
  BY DEF Quiet
<1>. QED
  BY <1>1, OthersPlace, OthersUser, QuietStall, QuietOwn, QuietShape, QuietMonitors
     DEF Inv, ThreadInv

\* or if no free list changes.
LEMMA QuietStep ==
  ASSUME Inv, NEW t \in Thread, Quiet(t), UNCHANGED poolVars, TypeOK', PlaceInv(t)',
         UserInv(t)', ShapeInv(t)', HashInv'
  PROVE  Inv'
BY QuietPool, QuietStepPool

----------------------------------------------------------------------------

\* inflate() reads the mark word and finds a monitor, or goes on to allocate one.
LEMMA ReadMarkInv ==
  ASSUME Inv, NEW t \in Thread, ReadMark(t)
  PROVE  Inv'
<1>1. PlaceInv(t) /\ UserInv(t) /\ ShapeInv(t) /\ TypeOK
  BY DEF Inv, ThreadInv
<1>2. /\ Others(t)
      /\ pc[t] = "inflate" /\ seen'[t] = mark /\ mark # INFLATING
      /\ IF has_monitor(mark) THEN mon'[t] = mark[2] /\ pc'[t] = ret[t]
         ELSE mon'[t] = mon[t] /\ pc'[t] = "alloc"
      /\ UNCHANGED <<mark, box, inner, header, object, owner, recursions, contenders,
                     poolVars, ret, hash, save, returned, calls>>
  BY SMT, <1>1 DEF ReadMark, TypeOK, Others, Same, At, Goto, stackVars, monVars, poolVars
<1>3. TypeOK'
  <2>1. has_monitor(mark) => mark[2] \in Monitor
    BY SMT, <1>1, MarkCases, MarkFacts DEF TypeOK
  <2>2. pc' \in [Thread -> Label]
    <3>1. pc \in [Thread -> Label] /\ ret[t] \in Label /\ "alloc" \in Label
      BY <1>1 DEF TypeOK, Label
    <3>2. pc' = [pc EXCEPT ![t] = ret[t]] \/ pc' = [pc EXCEPT ![t] = "alloc"]
      BY DEF ReadMark, Goto
    <3>. QED
      BY <3>1, <3>2
  <2>3. mon' \in [Thread -> Monitor \cup {NULL}] /\ seen' \in [Thread -> Mark]
    BY <1>1, <2>1 DEF TypeOK, ReadMark
  <2>. QED
    BY <1>1, <1>2, <2>2, <2>3 DEF TypeOK, poolVars
<1>4. (Pending(t)' <=> Pending(t)) /\ (Owning(t)' <=> Owning(t))
  BY <1>1, <1>2 DEF Pending, Owning, TypeOK
<1>5. Quiet(t)
  BY <1>1, <1>2, <1>4 DEF Quiet, Prep, Blocked, TypeOK
<1>6. PlaceInv(t)'
  <2>1. ~has_monitor(mark) => mark \in Header \cup {Locked(o) : o \in Thread}
    BY <1>1, <1>2, MarkCases DEF TypeOK
  <2>2. displaced_header(t)' = displaced_header(t)
    BY <1>2 DEF displaced_header
  <2>. QED
    BY ZenonT(30), <1>1, <1>2, <2>1, <2>2 DEF PlaceInv, TypeOK, Infl, Blocked
<1>7. UserInv(t)'
  BY SMT, <1>1, <1>2, MarkCases, MarkFacts DEF UserInv, Users, TypeOK
<1>8. ShapeInv(t)'
  <2>1. Recursions' = Recursions /\ pc'[t] # "waiting"
    BY <1>1, <1>2 DEF Recursions, TypeOK
  <2>. QED
    BY <1>1, <1>2, <1>4, <2>1 DEF ShapeInv
<1>. QED
  BY <1>2, <1>3, <1>5, <1>6, <1>7, <1>8, QuietHash, QuietStep

\* A prefix of a sequence, and a sequence without its last element.
LEMMA PrefixFacts ==
  ASSUME NEW S, NEW s \in Seq(S), NEW k \in 0..Len(s)
  PROVE  /\ Len(SubSeq(s, 1, k)) = k /\ SubSeq(s, 1, k) \in Seq(S)
         /\ \A i \in 1..k : SubSeq(s, 1, k)[i] = s[i]
BY SMT

LEMMA FrontFacts ==
  ASSUME NEW S, NEW s \in Seq(S), s # <<>>
  PROVE  /\ Len(s) > 0 /\ Last(s) = s[Len(s)]
         /\ Front(s) \in Seq(S) /\ Len(Front(s)) = Len(s) - 1
         /\ \A i \in 1..(Len(s) - 1) : Front(s)[i] = s[i]
<1>1. Len(s) \in Nat \ {0}
  BY SMT
<1>2. Len(s) - 1 \in 0..Len(s)
  BY SMT, <1>1
<1>3. Front(s) = SubSeq(s, 1, Len(s) - 1) /\ Last(s) = s[Len(s)]
  BY DEF Front, Last
<1>4. /\ Len(SubSeq(s, 1, Len(s) - 1)) = Len(s) - 1 /\ SubSeq(s, 1, Len(s) - 1) \in Seq(S)
      /\ \A i \in 1..(Len(s) - 1) : SubSeq(s, 1, Len(s) - 1)[i] = s[i]
  BY <1>2, PrefixFacts, Zenon
<1>. QED
  BY SMT, <1>1, <1>3, <1>4

\* The entries through the monitor, counted while BasicLocks come and go.
LEMMA CountedFacts ==
  ASSUME NEW s \in Seq(Header \cup {unused_mark, recursive}), NEW n \in Nat, Counted(s, n)
  PROVE  /\ Append(s, unused_mark) # <<>> /\ Append(s, recursive) # <<>>
         /\ Counted(Append(s, unused_mark), n + 1)
         /\ n = 0 => Counted(Append(s, recursive), 0)
         /\ s = <<>> => n = 0
         /\ s # <<>> /\ Last(s) = recursive => n = 0 /\ Counted(Front(s), 0)
         /\ s # <<>> /\ Last(s) # recursive => n > 0 /\ Counted(Front(s), n - 1)
<1>. DEFINE L == Len(s)
             S == Header \cup {unused_mark, recursive}
<1>1. L \in Nat /\ n <= L /\ \A i \in 1..L : s[i] = IF i <= L - n THEN recursive ELSE unused_mark
  BY SMT DEF Counted
<1>2. \A x \in S : /\ Len(Append(s, x)) = L + 1
                   /\ \A i \in 1..L : Append(s, x)[i] = s[i]
                   /\ Append(s, x)[L + 1] = x
  BY SMT
<1>3. Counted(Append(s, unused_mark), n + 1)
  BY SMT, <1>1, <1>2 DEF Counted
<1>4. n = 0 => Counted(Append(s, recursive), 0)
  BY SMT, <1>1, <1>2 DEF Counted
<1>5. s = <<>> => n = 0
  BY SMT, <1>1
<1>6. ASSUME s # <<>> PROVE /\ L > 0 /\ Last(s) = s[L]
                            /\ Len(Front(s)) = L - 1
                            /\ \A i \in 1..(L - 1) : Front(s)[i] = s[i]
  BY <1>6, FrontFacts
<1>7. ASSUME s # <<>>, Last(s) = recursive PROVE n = 0 /\ Counted(Front(s), 0)
  <2>1. n = 0
    BY SMT, <1>1, <1>6, <1>7, MarkFacts
  <2>. QED
    BY SMT, <1>1, <1>6, <1>7, <2>1 DEF Counted
<1>8. ASSUME s # <<>>, Last(s) # recursive PROVE n > 0 /\ Counted(Front(s), n - 1)
  <2>1. n > 0
    BY SMT, <1>1, <1>6, <1>8
  <2>2. n - 1 <= L - 1 /\ \A i \in 1..(L - 1) :
          Front(s)[i] = IF i <= (L - 1) - (n - 1) THEN recursive ELSE unused_mark
    BY SMT, <1>1, <1>6, <1>8, <2>1
  <2>. QED
    BY <1>6, <1>8, <2>1, <2>2 DEF Counted
<1>9. Append(s, unused_mark) # <<>> /\ Append(s, recursive) # <<>>
  <2>1. Len(Append(s, unused_mark)) # 0 /\ Len(Append(s, recursive)) # 0
    BY SMT, <1>1, <1>2
  <2>2. Len(<<>>) = 0
    OBVIOUS
  <2>. QED
    BY <2>1, <2>2
<1>. QED
  BY <1>3, <1>4, <1>5, <1>7, <1>8, <1>9

\* A BasicLock more.
LEMMA PushType ==
  ASSUME TypeOK, NEW t \in Thread, NEW d \in {unused_mark, recursive}
  PROVE  [inner EXCEPT ![t] = Append(@, d)]
           \in [Thread -> Seq(Header \cup {unused_mark, recursive})]
<1>1. Append(inner[t], d) \in Seq(Header \cup {unused_mark, recursive})
  BY SMT DEF TypeOK
<1>. QED
  BY <1>1 DEF TypeOK

\* Without inner BasicLocks no entry is counted.
LEMMA CountedNone == Counted(<<>>, 0)
BY SMT DEF Counted

\* recursions is a natural number.
LEMMA RecursionsType ==
  ASSUME TypeOK
  PROVE  Recursions \in Nat
BY SMT, MarkCases, MarkFacts DEF TypeOK, Recursions

\* A thread that runs Java code and has the object locked owns it.
LEMMA RunOwns ==
  ASSUME Inv, NEW t \in Thread, pc[t] \notin Infl \cup {"enter", "enterCas", "blocked", "waiting"}
  PROVE  /\ ~Pending(t) /\ (Owning(t) <=> box[t] # None)
         /\ Owning(t) => ~is_neutral(mark)
         /\ mark = Locked(t) => Owning(t)
<1>1. ~Pending(t) /\ (Owning(t) <=> box[t] # None)
  BY DEF Pending, Owning, Infl
<1>2. OwnInv(t) /\ StallInv /\ TypeOK
  BY DEF Inv, ThreadInv
<1>3. LockOwner(t) => ~is_neutral(mark)
  BY ZenonT(30), <1>2, MarkFacts DEF LockOwner, StallInv
<1>. QED
  BY <1>1, <1>2, <1>3 DEF OwnInv, LockOwner

\* fast_enter() up to its CAS.
LEMMA fast_enterInv ==
  ASSUME Inv, NEW t \in Thread, fast_enter(t)
  PROVE  Inv'
<1>1. PlaceInv(t) /\ UserInv(t) /\ ShapeInv(t) /\ TypeOK /\ pc[t] = "run"
  BY DEF Inv, ThreadInv, fast_enter, Start, At
<1>2. /\ Others(t)
      /\ UNCHANGED <<mark, header, object, owner, recursions, contenders, poolVars, mon,
                     hash, save, returned>>
      /\ calls' \in [Thread -> Nat]
  BY SMT, <1>1 DEF fast_enter, Start, At, TypeOK, Others, Same, Goto, Push, inflate,
              stackVars, monVars, poolVars
<1>3. ~Pending(t) /\ (Owning(t) <=> box[t] # None)
  BY <1>1, RunOwns DEF Infl
<1>4. Recursions' = Recursions /\ Recursions \in Nat
  BY <1>1, <1>2, RecursionsType DEF Recursions
<1>5. Owning(t) => Counted(inner[t], Recursions)
  BY <1>1, <1>3 DEF ShapeInv
<1>6. CASE is_neutral(mark)
  <2>1. mark \in Header /\ mark # None
    BY <1>1, <1>6, MarkCases, HeaderFacts DEF TypeOK
  <2>2. box[t] = None /\ inner[t] = <<>> /\ ~Owning(t)
    BY <1>1, <1>3, <1>6, RunOwns DEF Infl, PlaceInv
  <2>3. /\ box' = [box EXCEPT ![t] = mark] /\ UNCHANGED <<inner, ret>>
        /\ seen' = [seen EXCEPT ![t] = mark] /\ pc' = [pc EXCEPT ![t] = "enterCas"]
    BY <1>6, <2>2, MarkFacts DEF fast_enter, Push, Goto
  <2>4. box'[t] = mark /\ inner'[t] = <<>> /\ seen'[t] = mark /\ pc'[t] = "enterCas"
    BY <1>1, <2>2, <2>3 DEF TypeOK
  <2>5. TypeOK'
    BY <1>1, <1>2, <2>1, <2>3 DEF TypeOK, Label, poolVars
  <2>6. Pending(t)' /\ ~Owning(t)'
    BY <2>4 DEF Pending, Owning
  <2>7. Quiet(t)
    BY <1>1, <1>2, <2>2, <2>4, <2>6 DEF Quiet, Prep, Blocked
  <2>8. PlaceInv(t)' /\ UserInv(t)' /\ ShapeInv(t)'
    BY <1>1, <1>2, <2>1, <2>4, <2>6 DEF PlaceInv, UserInv, ShapeInv, Users, Infl, Blocked
  <2>. QED
    BY <1>2, <2>5, <2>7, <2>8, QuietHash, QuietStep
<1>7. CASE mark = Locked(t)
  <2>1. ~is_neutral(mark) /\ ~has_monitor(mark) /\ Owning(t) /\ box[t] # None
    BY <1>1, <1>3, <1>7, RunOwns, MarkFacts DEF Infl
  <2>2. /\ inner' = [inner EXCEPT ![t] = Append(@, recursive)]
        /\ UNCHANGED <<box, seen, pc, ret>>
    BY <1>7, <2>1 DEF fast_enter, Push
  <2>3. TypeOK'
    BY <1>1, <1>2, <2>2, PushType DEF TypeOK, poolVars
  <2>4. inner'[t] = Append(inner[t], recursive)
    BY <1>1, <2>2 DEF TypeOK
  <2>5. Owning(t)' /\ ~Pending(t)'
    BY <1>1, <2>1, <2>2 DEF Owning, Pending
  <2>6. Quiet(t)
    BY <1>1, <1>2, <2>1, <2>2, <2>5 DEF Quiet, Prep, Blocked
  <2>7. ShapeInv(t)'
    <3>1. Recursions = 0
      BY <2>1 DEF Recursions
    <3>2. Counted(inner'[t], 0)
      <4>1. inner[t] \in Seq(Header \cup {unused_mark, recursive})
        BY <1>1 DEF TypeOK
      <4>. QED
        BY <1>5, <2>1, <2>4, <3>1, <4>1, CountedFacts
    <3>. QED
      BY <1>1, <1>4, <2>2, <2>5, <3>1, <3>2 DEF ShapeInv
  <2>8. PlaceInv(t)' /\ UserInv(t)'
    BY <1>1, <1>2, <2>1, <2>2 DEF PlaceInv, UserInv, Users, Infl, Blocked
  <2>. QED
    BY <1>2, <2>3, <2>6, <2>7, <2>8, QuietHash, QuietStep
<1>8. CASE ~is_neutral(mark) /\ mark # Locked(t)
  <2>1. /\ Push(t, unused_mark) /\ UNCHANGED seen
        /\ pc' = [pc EXCEPT ![t] = "inflate"] /\ ret' = [ret EXCEPT ![t] = "enter"]
    BY <1>8 DEF fast_enter, inflate, Goto
  <2>2. TypeOK'
    <3>1. /\ box' \in [Thread -> Header \cup {unused_mark, None}]
          /\ inner' \in [Thread -> Seq(Header \cup {unused_mark, recursive})]
      BY ZenonT(30), <1>1, <2>1, PushType DEF TypeOK, Push
    <3>. QED
      BY <1>1, <1>2, <2>1, <3>1 DEF TypeOK, Label, poolVars
  <2>3. pc'[t] = "inflate" /\ ret'[t] = "enter" /\ Pending(t)'
    BY <1>1, <2>1 DEF TypeOK, Pending
  <2>4. box'[t] # None
    BY <1>1, <2>1, MarkFacts DEF Push, TypeOK
  <2>5. /\ box[t] = None => inner'[t] = <<>> /\ inner[t] = <<>>
        /\ box[t] # None => inner'[t] = Append(inner[t], unused_mark) /\ box'[t] = box[t]
    BY <1>1, <2>1 DEF Push, TypeOK, PlaceInv
  <2>6. Owning(t)' <=> Owning(t)
    <3>1. box[t] # None => inner'[t] # <<>>
      <4>1. inner[t] \in Seq(Header \cup {unused_mark, recursive})
        BY <1>1 DEF TypeOK
      <4>. QED
        BY <1>3, <1>4, <1>5, <2>5, <4>1, CountedFacts
    <3>. QED
      BY <1>3, <2>3, <2>4, <2>5, <3>1 DEF Owning
  <2>7. Quiet(t)
    BY <1>1, <1>2, <1>3, <2>3, <2>5, <2>6 DEF Quiet, Prep, Blocked
  <2>8. ShapeInv(t)'
    <3>1. Owning(t) => Counted(inner'[t], Recursions + 1)
      <4>1. inner[t] \in Seq(Header \cup {unused_mark, recursive})
        BY <1>1 DEF TypeOK
      <4>. QED
        BY <1>3, <1>4, <1>5, <2>5, <4>1, CountedFacts
    <3>. QED
      BY <1>4, <2>3, <2>6, <3>1 DEF ShapeInv
  <2>9. PlaceInv(t)' /\ UserInv(t)'
    BY <1>1, <1>2, <2>1, <2>3, <2>4 DEF PlaceInv, UserInv, Users, Infl, Blocked
  <2>. QED
    BY <1>2, <2>2, <2>7, <2>8, <2>9, QuietHash, QuietStep
<1>. QED
  BY <1>6, <1>7, <1>8

\* The innermost BasicLock of t goes.
LEMMA PopFacts ==
  ASSUME TypeOK, NEW t \in Thread, Pop(t)
  PROVE  /\ box' \in [Thread -> Header \cup {unused_mark, None}]
         /\ inner' \in [Thread -> Seq(Header \cup {unused_mark, recursive})]
         /\ \A u \in Thread : u # t => box'[u] = box[u] /\ inner'[u] = inner[u]
         /\ inner[t] = <<>> => box'[t] = None /\ inner'[t] = <<>>
         /\ inner[t] # <<>> => box' = box /\ inner'[t] = Front(inner[t])
         /\ \A n \in Nat : Counted(inner[t], n) =>
              /\ inner[t] = <<>> => n = 0
              /\ inner[t] # <<>> /\ displaced_header(t) = recursive =>
                   n = 0 /\ Counted(inner'[t], 0)
              /\ inner[t] # <<>> /\ displaced_header(t) # recursive =>
                   n > 0 /\ Counted(inner'[t], n - 1)
<1>1. /\ inner[t] \in Seq(Header \cup {unused_mark, recursive})
      /\ inner[t] # <<>> => Front(inner[t]) \in Seq(Header \cup {unused_mark, recursive})
  BY FrontFacts DEF TypeOK
<1>2. /\ inner[t] = <<>> => box' = [box EXCEPT ![t] = None] /\ inner' = inner
      /\ inner[t] # <<>> => inner' = [inner EXCEPT ![t] = Front(@)] /\ box' = box
  BY DEF Pop
<1>3. /\ inner[t] = <<>> => box'[t] = None /\ inner'[t] = <<>>
      /\ inner[t] # <<>> => box' = box /\ inner'[t] = Front(inner[t])
  BY <1>2 DEF TypeOK
<1>4. /\ box' \in [Thread -> Header \cup {unused_mark, None}]
      /\ inner' \in [Thread -> Seq(Header \cup {unused_mark, recursive})]
      /\ \A u \in Thread : u # t => box'[u] = box[u] /\ inner'[u] = inner[u]
  BY ZenonT(30), <1>1, <1>2 DEF TypeOK
<1>5. inner[t] # <<>> => displaced_header(t) = Last(inner[t])
  BY DEF displaced_header
<1>. QED
  BY <1>1, <1>3, <1>4, <1>5, CountedFacts

\* fast_exit() up to its CAS.
LEMMA fast_exitInv ==
  ASSUME Inv, NEW t \in Thread, fast_exit(t)
  PROVE  Inv'
<1>1. PlaceInv(t) /\ UserInv(t) /\ ShapeInv(t) /\ TypeOK /\ pc[t] = "run" /\ box[t] # None
  BY SMT DEF Inv, ThreadInv, fast_exit, At, Entries
<1>2. UNCHANGED <<mark, header, object, owner, recursions, contenders, poolVars, seen, mon,
                  hash, save, returned, calls>>
  BY DEF fast_exit, monVars
<1>3. ~Pending(t) /\ Owning(t)
  BY <1>1, RunOwns DEF Infl
<1>4. Recursions' = Recursions /\ Recursions \in Nat
  BY <1>1, <1>2, RecursionsType DEF Recursions
<1>5. Counted(inner[t], Recursions)
  BY <1>1, <1>3 DEF ShapeInv
<1>6. CASE displaced_header(t) = recursive
  <2>1. Pop(t) /\ UNCHANGED <<pc, ret>>
    BY <1>6 DEF fast_exit
  <2>2. inner[t] # <<>>
    <3>1. box[t] # recursive
      BY SMT, <1>1, MarkFacts, HeaderFacts DEF TypeOK
    <3>. QED
      BY <1>6, <3>1 DEF displaced_header
  <2>3. box' = box /\ Recursions = 0 /\ Counted(inner'[t], 0)
    BY <1>1, <1>4, <1>5, <1>6, <2>1, <2>2, PopFacts
  <2>4. TypeOK'
    BY <1>1, <1>2, <2>1, PopFacts DEF TypeOK, poolVars
  <2>5. ~Pending(t)' /\ Owning(t)'
    BY <1>1, <2>1, <2>3 DEF Owning, Pending
  <2>6. Others(t)
    BY <1>1, <1>2, <2>1, <2>3, PopFacts DEF Others, Same
  <2>7. Quiet(t)
    BY <1>1, <1>2, <1>3, <2>1, <2>3, <2>5, <2>6 DEF Quiet, Prep, Blocked
  <2>8. PlaceInv(t)' /\ UserInv(t)'
    BY <1>1, <1>2, <2>1, <2>3 DEF PlaceInv, UserInv, Users, Infl, Blocked
  <2>9. ShapeInv(t)'
    BY <1>1, <1>4, <2>1, <2>3, <2>5 DEF ShapeInv
  <2>. QED
    BY <1>2, <2>4, <2>7, <2>8, <2>9, QuietHash, QuietStep
<1>7. CASE displaced_header(t) # recursive
  <2>1. /\ UNCHANGED <<box, inner>>
        /\ \/ pc' = [pc EXCEPT ![t] = "exitCas"] /\ UNCHANGED ret
           \/ pc' = [pc EXCEPT ![t] = "inflate"] /\ ret' = [ret EXCEPT ![t] = "exit"]
    BY <1>7 DEF fast_exit, inflate, Goto, stackVars
  <2>2. TypeOK'
    <3>1. pc' \in [Thread -> Label] /\ ret' \in [Thread -> {"enter", "exit", "wait", "hash"}]
      <4>1. pc \in [Thread -> Label] /\ ret \in [Thread -> {"enter", "exit", "wait", "hash"}]
        BY <1>1 DEF TypeOK
      <4>2. "exitCas" \in Label /\ "inflate" \in Label
        BY DEF Label
      <4>. QED
        BY <2>1, <4>1, <4>2
    <3>. QED
      BY <1>1, <1>2, <2>1, <3>1 DEF TypeOK, poolVars
  <2>3. Others(t) /\ \/ pc'[t] = "exitCas"
                     \/ pc'[t] = "inflate" /\ ret'[t] = "exit"
    BY <1>1, <1>2, <2>1 DEF TypeOK, Others, Same
  <2>4. ~Pending(t)' /\ Owning(t)'
    BY <1>1, <2>1, <2>3 DEF Owning, Pending
  <2>5. Quiet(t)
    BY <1>1, <1>2, <1>3, <2>1, <2>3, <2>4 DEF Quiet, Prep, Blocked
  <2>6. displaced_header(t)' # recursive
    BY <1>7, <2>1 DEF displaced_header
  <2>7. PlaceInv(t)' /\ UserInv(t)'
    BY <1>1, <1>2, <2>1, <2>3, <2>6 DEF PlaceInv, UserInv, Users, Infl, Blocked
  <2>8. ShapeInv(t)'
    BY <1>4, <1>5, <2>1, <2>3, <2>4 DEF ShapeInv
  <2>. QED
    BY <1>2, <2>2, <2>5, <2>7, <2>8, QuietHash, QuietStep
<1>. QED
  BY <1>6, <1>7

\* The calls that begin with inflate(), whatever the mark word is, and those that
\* come to it because a CAS failed or the monitor's header has no hash code.
LEMMA ToInflate ==
  ASSUME Inv, NEW t \in Thread, NEW p \in {"exit", "wait", "hash"},
         pc[t] \in {"run", "exitCas", "hashCas", "hashMonitor"},
         p = "exit" => pc[t] = "exitCas",
         p = "wait" => box[t] # None,
         pc' = [pc EXCEPT ![t] = "inflate"], ret' = [ret EXCEPT ![t] = p],
         UNCHANGED <<mark, box, inner, header, object, owner, recursions, contenders,
                     poolVars, seen, mon, hash, save, returned>>,
         calls' \in [Thread -> Nat]
  PROVE  Inv'
<1>1. PlaceInv(t) /\ UserInv(t) /\ ShapeInv(t) /\ TypeOK
  BY DEF Inv, ThreadInv
<1>2. TypeOK'
  BY <1>1 DEF TypeOK, Label, poolVars
<1>3. Others(t) /\ pc'[t] = "inflate" /\ ret'[t] = p
  BY <1>1 DEF TypeOK, Others, Same
<1>4. ~Pending(t) /\ ~Pending(t)' /\ (Owning(t)' <=> Owning(t))
  BY <1>3 DEF Owning, Pending
<1>5. Quiet(t)
  BY <1>3, <1>4 DEF Quiet, Prep, Blocked
<1>6. displaced_header(t)' = displaced_header(t)
  BY DEF displaced_header
<1>7. PlaceInv(t)' /\ UserInv(t)'
  BY <1>1, <1>3, <1>6 DEF PlaceInv, UserInv, Users, Infl, Blocked
<1>8. ShapeInv(t)'
  BY <1>1, <1>3, <1>4 DEF ShapeInv, Recursions
<1>. QED
  BY <1>2, <1>5, <1>7, <1>8, QuietHash, QuietStep

\* wait() up to inflate().
LEMMA waitInv ==
  ASSUME Inv, NEW t \in Thread, wait(t)
  PROVE  Inv'
<1>1. TypeOK /\ box[t] # None
  BY SMT DEF Inv, wait, Entries
<1>2. /\ pc[t] = "run" /\ calls' \in [Thread -> Nat]
      /\ pc' = [pc EXCEPT ![t] = "inflate"] /\ ret' = [ret EXCEPT ![t] = "wait"]
      /\ UNCHANGED <<mark, box, inner, header, object, owner, recursions, contenders,
                     poolVars, seen, mon, hash, save, returned>>
  BY SMT, <1>1 DEF wait, Start, At, inflate, Goto, TypeOK, stackVars, monVars
<1>. QED
  BY <1>1, <1>2, ToInflate

\* The header in charge is the one in the mark word, in the locker's BasicLock or
\* in the monitor.
LEMMA CurrentIs ==
  ASSUME Inv, NEW a
  PROVE  /\ mark = Neutral(a) => Current(a)
         /\ \A t \in Thread : mark = Locked(t) /\ box[t] = Neutral(a) => Current(a)
         /\ \A m \in Monitor : mark = Inflated(m) /\ header[m] = Neutral(a) => Current(a)
<1>1. mark # INFLATING => \A i \in Thread : pc[i] \notin Stalling
  BY DEF Inv, StallInv
<1>. QED
  BY ZenonT(30), <1>1, MarkFacts DEF Current

\* FastHashCode() returns the hash code of the header in charge.
LEMMA ReturnStep ==
  ASSUME Inv, NEW t \in Thread, NEW a \in Hash, Current(a),
         pc[t] \in {"run", "hashMonitor", "hash", "headerCas"}, Return(t, a),
         UNCHANGED <<mark, box, inner, header, object, owner, recursions, contenders,
                     poolVars, ret>>,
         calls' \in [Thread -> Nat]
  PROVE  Inv'
<1>1. PlaceInv(t) /\ UserInv(t) /\ ShapeInv(t) /\ TypeOK
  BY DEF Inv, ThreadInv
<1>2. /\ pc' = [pc EXCEPT ![t] = "run"] /\ returned' = returned \cup {a}
      /\ seen' = [seen EXCEPT ![t] = Neutral(0)] /\ mon' = [mon EXCEPT ![t] = NULL]
      /\ hash' = [hash EXCEPT ![t] = 0] /\ save' = [save EXCEPT ![t] = 0]
  BY DEF Return, Goto, Forget
<1>3. TypeOK'
  <2>1. Neutral(0) \in Mark /\ "run" \in Label
    BY DEF Mark, Header, Label
  <2>. QED
    BY <1>1, <1>2, <2>1 DEF TypeOK, poolVars
<1>4. Others(t) /\ pc'[t] = "run" /\ save'[t] = 0
  BY <1>1, <1>2 DEF TypeOK, Others, Same
<1>5. ~Pending(t) /\ ~Pending(t)' /\ (Owning(t)' <=> Owning(t))
  BY <1>4 DEF Owning, Pending
<1>6. Quiet(t)
  BY <1>4, <1>5 DEF Quiet, Prep, Blocked
<1>7. PlaceInv(t)' /\ UserInv(t)'
  BY <1>1, <1>4 DEF PlaceInv, UserInv, Users, Infl, Blocked
<1>8. ShapeInv(t)'
  BY <1>1, <1>4, <1>5 DEF ShapeInv, Recursions
<1>9. HashInv'
  BY <1>2, <1>6, QuietHash
<1>. QED
  BY <1>3, <1>6, <1>7, <1>8, <1>9, QuietStep

\* A step of FastHashCode() that only changes locals of the caller.
LEMMA HashStep ==
  ASSUME Inv, NEW t \in Thread, TypeOK', Others(t),
         pc[t] \in {"run", "hash"}, pc'[t] \in {"hashCas", "hashMonitor", "headerCas"},
         pc'[t] = "hashCas" => seen'[t] = Neutral(0) /\ hash'[t] \in Hash,
         pc'[t] = "headerCas" => hash'[t] \in Hash,
         pc'[t] \in {"hashMonitor", "headerCas"} =>
           mark = Inflated(mon'[t]) /\ mon'[t] \in Monitor,
         UNCHANGED <<mark, box, inner, header, object, owner, recursions, contenders,
                     poolVars, ret, save, returned>>
  PROVE  Inv'
<1>1. PlaceInv(t) /\ ShapeInv(t)
  BY DEF Inv, ThreadInv
<1>2. ~Pending(t) /\ ~Pending(t)' /\ (Owning(t)' <=> Owning(t))
  BY DEF Owning, Pending
<1>3. Quiet(t)
  BY <1>2 DEF Quiet, Prep, Blocked
<1>4. PlaceInv(t)' /\ UserInv(t)'
  BY <1>1 DEF PlaceInv, UserInv, Users, Infl, Blocked
<1>5. ShapeInv(t)'
  BY <1>1, <1>2 DEF ShapeInv, Recursions
<1>. QED
  BY <1>3, <1>4, <1>5, QuietHash, QuietStep

\* FastHashCode() up to its CAS or the monitor.
LEMMA FastHashCodeInv ==
  ASSUME Inv, NEW t \in Thread, FastHashCode(t)
  PROVE  Inv'
<1>1. TypeOK /\ pc[t] = "run" /\ mark # INFLATING /\ HeaderInv
  BY DEF Inv, FastHashCode, Start, At
<1>2. /\ UNCHANGED <<mark, box, inner, header, object, owner, recursions, contenders,
                     poolVars>>
      /\ calls' \in [Thread -> Nat]
  BY SMT, <1>1 DEF FastHashCode, Start, TypeOK, stackVars, monVars
<1>3. CASE is_neutral(mark) /\ mark # Neutral(0)
  <2>1. Return(t, mark[2]) /\ UNCHANGED ret
    <3>1. ~has_monitor(mark) /\ mark # Locked(t)
      BY <1>1, <1>3, MarkCases, HeaderFacts, MarkFacts DEF TypeOK
    <3>. QED
      BY <1>3, <3>1 DEF FastHashCode
  <2>2. mark[2] \in Hash /\ Current(mark[2])
    BY <1>1, <1>3, MarkCases, HeaderFacts, CurrentIs DEF TypeOK
  <2>. QED
    BY <1>1, <1>2, <2>1, <2>2, ReturnStep
<1>4. CASE mark = Neutral(0)
  <2>1. PICK h \in Hash : hash' = [hash EXCEPT ![t] = h]
    BY <1>4, MarkFacts DEF FastHashCode
  <2>2. /\ seen' = [seen EXCEPT ![t] = mark] /\ pc' = [pc EXCEPT ![t] = "hashCas"]
        /\ UNCHANGED <<returned, ret, mon, save>>
    BY <1>4, MarkFacts DEF FastHashCode, Goto
  <2>3. TypeOK'
    BY <1>1, <1>2, <2>1, <2>2 DEF TypeOK, Label, poolVars
  <2>4. Others(t) /\ pc'[t] = "hashCas" /\ seen'[t] = Neutral(0) /\ hash'[t] \in Hash
    BY <1>1, <1>2, <1>4, <2>1, <2>2 DEF TypeOK, Others, Same
  <2>. QED
    BY <1>1, <1>2, <2>2, <2>3, <2>4, HashStep
<1>5. CASE has_monitor(mark)
  <2>1. PICK m \in Monitor : mark = Inflated(m)
    BY <1>1, <1>5, MarkCases DEF TypeOK
  <2>2. /\ mon' = [mon EXCEPT ![t] = m] /\ pc' = [pc EXCEPT ![t] = "hashMonitor"]
        /\ UNCHANGED <<returned, ret, seen, hash, save>>
    BY <1>5, <2>1, MarkFacts DEF FastHashCode, Goto
  <2>3. TypeOK'
    BY <1>1, <1>2, <2>2 DEF TypeOK, Label, poolVars
  <2>4. Others(t) /\ pc'[t] = "hashMonitor" /\ mon'[t] = m
    BY <1>1, <1>2, <2>2 DEF TypeOK, Others, Same
  <2>. QED
    BY <1>1, <1>2, <2>1, <2>2, <2>3, <2>4, HashStep
<1>6. CASE mark = Locked(t) /\ box[t] # Neutral(0)
  <2>1. Return(t, box[t][2]) /\ UNCHANGED ret
    BY <1>6, MarkFacts DEF FastHashCode
  <2>2. box[t] = Neutral(box[t][2]) /\ box[t][2] \in Hash
    BY <1>1, <1>6, HeaderFacts DEF HeaderInv
  <2>3. Current(box[t][2])
    BY <1>6, <2>2, CurrentIs
  <2>. QED
    BY <1>1, <1>2, <2>1, <2>2, <2>3, ReturnStep
<1>7. CASE ~is_neutral(mark) /\ ~has_monitor(mark) /\ ~(mark = Locked(t) /\ box[t] # Neutral(0))
  <2>1. /\ pc' = [pc EXCEPT ![t] = "inflate"] /\ ret' = [ret EXCEPT ![t] = "hash"]
        /\ UNCHANGED <<returned, seen, mon, hash, save>>
    BY ZenonT(30), <1>7, MarkFacts DEF FastHashCode, inflate, Goto
  <2>. QED
    BY <1>1, <1>2, <2>1, ToInflate
<1>. QED
  BY <1>3, <1>4, <1>5, <1>6, <1>7

\* FastHashCode() looks at the header of the monitor.
LEMMA HashMonitorInv ==
  ASSUME Inv, NEW t \in Thread, HashMonitor(t)
  PROVE  Inv'
<1>1. /\ TypeOK /\ pc[t] = "hashMonitor"
      /\ mark = Inflated(mon[t]) /\ mon[t] \in Monitor
  BY DEF Inv, ThreadInv, UserInv, Users, HashMonitor, At
<1>2. /\ UNCHANGED <<mark, box, inner, header, object, owner, recursions, contenders,
                     poolVars, calls>>
      /\ calls' \in [Thread -> Nat]
  BY <1>1 DEF HashMonitor, TypeOK, stackVars, monVars
<1>3. CASE header[mon[t]] # Neutral(0)
  <2>1. header[mon[t]] = Neutral(header[mon[t]][2]) /\ header[mon[t]][2] \in Hash
    BY <1>1, <1>3, HeaderFacts DEF TypeOK
  <2>2. Current(header[mon[t]][2])
    BY <1>1, <2>1, CurrentIs
  <2>3. Return(t, header[mon[t]][2]) /\ UNCHANGED ret
    BY <1>3 DEF HashMonitor
  <2>. QED
    BY <1>1, <1>2, <2>1, <2>2, <2>3, ReturnStep
<1>4. CASE header[mon[t]] = Neutral(0)
  <2>1. /\ pc' = [pc EXCEPT ![t] = "inflate"] /\ ret' = [ret EXCEPT ![t] = "hash"]
        /\ UNCHANGED <<returned, seen, mon, hash, save>>
    BY <1>4 DEF HashMonitor, inflate, Goto
  <2>. QED
    BY <1>1, <1>2, <2>1, ToInflate
<1>. QED
  BY <1>3, <1>4

\* The same after inflate().
LEMMA HashInflatedInv ==
  ASSUME Inv, NEW t \in Thread, HashInflated(t)
  PROVE  Inv'
<1>1. /\ TypeOK /\ pc[t] = "hash"
      /\ mark = Inflated(mon[t]) /\ mon[t] \in Monitor
  BY DEF Inv, ThreadInv, UserInv, Users, HashInflated, At
<1>2. /\ UNCHANGED <<mark, box, inner, header, object, owner, recursions, contenders,
                     poolVars, ret, calls>>
      /\ calls' \in [Thread -> Nat]
  BY <1>1 DEF HashInflated, TypeOK, stackVars, monVars
<1>3. CASE header[mon[t]] # Neutral(0)
  <2>1. header[mon[t]] = Neutral(header[mon[t]][2]) /\ header[mon[t]][2] \in Hash
    BY <1>1, <1>3, HeaderFacts DEF TypeOK
  <2>2. Current(header[mon[t]][2])
    BY <1>1, <2>1, CurrentIs
  <2>3. Return(t, header[mon[t]][2])
    BY <1>3 DEF HashInflated
  <2>. QED
    BY <1>1, <1>2, <2>1, <2>2, <2>3, ReturnStep
<1>4. CASE header[mon[t]] = Neutral(0)
  <2>1. PICK h \in Hash : hash' = [hash EXCEPT ![t] = h]
    BY <1>4 DEF HashInflated
  <2>2. pc' = [pc EXCEPT ![t] = "headerCas"] /\ UNCHANGED <<returned, seen, mon, save>>
    BY <1>4 DEF HashInflated, Goto
  <2>3. TypeOK'
    BY <1>1, <1>2, <2>1, <2>2 DEF TypeOK, Label, poolVars
  <2>4. Others(t) /\ pc'[t] = "headerCas" /\ hash'[t] \in Hash /\ mon'[t] = mon[t]
    BY <1>1, <1>2, <2>1, <2>2 DEF TypeOK, Others, Same
  <2>. QED
    BY <1>1, <1>2, <2>2, <2>3, <2>4, HashStep
<1>. QED
  BY <1>3, <1>4

----------------------------------------------------------------------------
(* The free lists.                                                         *)

\* omAlloc() moves monitors from the global list, or makes new ones.
LEMMA ReprovisionInv ==
  ASSUME Inv, NEW t \in Thread, Reprovision(t)
  PROVE  Inv'
<1>1. /\ TypeOK /\ PoolInv /\ PlaceInv(t) /\ UserInv(t) /\ ShapeInv(t)
      /\ pc[t] = "alloc" /\ omFreeList[t] = {}
  BY DEF Inv, ThreadInv, Reprovision, At
<1>2. UNCHANGED <<mark, box, inner, header, object, owner, recursions, contenders, pc, ret,
                  seen, mon, hash, save, returned, calls>>
  BY DEF Reprovision, stackVars, monVars
<1>3. Others(t) /\ Quiet(t)
  BY <1>1, <1>2 DEF Others, Same, Quiet, Prep, Blocked, Owning, Pending
<1>4. PlaceInv(t)' /\ UserInv(t)' /\ ShapeInv(t)'
  BY ZenonT(30), <1>1, <1>2 DEF PlaceInv, displaced_header, UserInv, ShapeInv, Owning, Pending, Recursions
<1>5. \A u \in Thread : \A m : Preparing(u, m)' <=> Preparing(u, m)
  BY <1>2 DEF Preparing
<1>6. CASE gFreeList # {}
  <2>1. PICK taken \in SUBSET gFreeList :
          gFreeList' = gFreeList \ taken /\ omFreeList' = [omFreeList EXCEPT ![t] = taken]
    BY <1>6 DEF Reprovision
  <2>2. UNCHANGED extant
    BY <1>6 DEF Reprovision
  <2>3. TypeOK'
    BY <1>1, <1>2, <2>1, <2>2 DEF TypeOK
  <2>4. \A u \in Thread : omFreeList'[u] = IF u = t THEN taken ELSE omFreeList[u]
    BY <1>1, <2>1 DEF TypeOK
  <2>5. \A m \in Monitor : Free(m)' <=> Free(m)
    BY <1>1, <2>1, <2>4 DEF Free
  <2>6. PoolInv'
    BY SMT, <1>1, <1>2, <1>5, <2>1, <2>2, <2>4, <2>5 DEF PoolInv, TypeOK
  <2>. QED
    BY <1>2, <1>3, <1>4, <2>3, <2>6, QuietHash, QuietStepPool
<1>7. CASE gFreeList = {}
  <2>1. extant # Monitor /\ gFreeList' = {Fresh}
        /\ extant' = extant \cup {Fresh} /\ UNCHANGED omFreeList
    BY <1>7 DEF Reprovision
  <2>2. Fresh \in Monitor \ extant
    BY <1>1, <2>1 DEF Fresh, TypeOK
  <2>3. TypeOK'
    BY <1>1, <1>2, <2>1, <2>2 DEF TypeOK
  <2>4. \A m \in Monitor : Free(m)' <=> Free(m) \/ m = Fresh
    BY <1>7, <2>1 DEF Free
  <2>5. mark # Inflated(Fresh)
        /\ \A u \in Thread : ~Preparing(u, Fresh) /\ Fresh \notin omFreeList[u]
    BY SMT, <1>1, <2>2 DEF PoolInv, Preparing, Prep, Free
  <2>6. PoolInv'
    BY SMT, <1>1, <1>2, <1>5, <1>7, <2>1, <2>2, <2>4, <2>5 DEF PoolInv, TypeOK
  <2>. QED
    BY <1>2, <1>3, <1>4, <2>3, <2>6, QuietHash, QuietStepPool
<1>. QED
  BY <1>6, <1>7

\* A thread dies
LEMMA removeInv ==
  ASSUME Inv, NEW t \in Thread, remove(t)
  PROVE  Inv'
<1>1. /\ TypeOK /\ PoolInv /\ PlaceInv(t) /\ UserInv(t) /\ ShapeInv(t)
      /\ pc[t] = "run" /\ box[t] = None
  <2>1. box[t] = None
    <3>1. Len(inner[t]) \in Nat
      BY SMT DEF Inv, TypeOK
    <3>. QED
      BY SMT, <3>1 DEF remove, Entries
  <2>. QED
    BY <2>1 DEF Inv, ThreadInv, remove, Start, At
<1>2. /\ UNCHANGED <<mark, box, inner, header, object, owner, recursions, contenders, ret,
                     seen, mon, hash, save, returned, extant, omFreeList, gFreeList>>
      /\ pc' = [pc EXCEPT ![t] = "exiting"] /\ calls' \in [Thread -> Nat]
  BY SMT, <1>1 DEF remove, Start, Goto, TypeOK, stackVars, monVars, poolVars
<1>3. Others(t) /\ pc'[t] = "exiting"
  BY <1>1, <1>2 DEF TypeOK, Others, Same
<1>4. ~Owning(t) /\ ~Owning(t)' /\ Quiet(t)
  BY <1>1, <1>2, <1>3 DEF Quiet, Prep, Blocked, Owning
<1>5. PlaceInv(t)' /\ UserInv(t)' /\ ShapeInv(t)'
  BY <1>1, <1>2, <1>3, <1>4 DEF PlaceInv, UserInv, ShapeInv, Users, Infl, Blocked
<1>6. TypeOK'
  BY <1>1, <1>2 DEF TypeOK, Label
<1>7. PoolInv'
  BY <1>2, <1>4, QuietPool DEF poolVars
<1>. QED
  BY <1>2, <1>4, <1>5, <1>6, <1>7, QuietHash, QuietStepPool

\* and gives its monitors back.
LEMMA omFlushInv ==
  ASSUME Inv, NEW t \in Thread, omFlush(t)
  PROVE  Inv'
<1>1. /\ TypeOK /\ PoolInv /\ PlaceInv(t) /\ UserInv(t) /\ ShapeInv(t)
      /\ pc[t] = "exiting" /\ box[t] = None
  BY DEF Inv, ThreadInv, PlaceInv, omFlush, Step, At
<1>2. /\ UNCHANGED <<mark, box, inner, header, object, owner, recursions, contenders, ret,
                     seen, mon, hash, save, returned, extant, calls>>
      /\ pc' = [pc EXCEPT ![t] = "dead"]
      /\ gFreeList' = gFreeList \cup omFreeList[t]
      /\ omFreeList' = [omFreeList EXCEPT ![t] = {}]
  BY SMT, <1>1 DEF omFlush, Step, Goto, TypeOK, stackVars, monVars
<1>3. Others(t) /\ pc'[t] = "dead"
  BY <1>1, <1>2 DEF TypeOK, Others, Same
<1>4. ~Owning(t) /\ ~Owning(t)' /\ Quiet(t)
  BY <1>1, <1>2, <1>3 DEF Quiet, Prep, Blocked, Owning
<1>5. PlaceInv(t)' /\ UserInv(t)' /\ ShapeInv(t)'
  BY <1>1, <1>2, <1>3, <1>4 DEF PlaceInv, UserInv, ShapeInv, Users, Infl, Blocked
<1>6. TypeOK'
  BY <1>1, <1>2 DEF TypeOK, Label
<1>7. \A u \in Thread : \A m : Preparing(u, m)' <=> Preparing(u, m)
  BY <1>1, <1>2, <1>3 DEF Preparing, Others, Same
<1>8. \A u \in Thread : omFreeList'[u] = IF u = t THEN {} ELSE omFreeList[u]
  BY <1>1, <1>2 DEF TypeOK
<1>9. \A m \in Monitor : Free(m)' <=> Free(m)
  BY SMT, <1>2, <1>8 DEF Free
<1>10. \A u \in Thread : pc'[u] \in Prep => pc[u] \in Prep
  BY <1>3 DEF Others, Same, Prep
<1>11. PoolInv'
  BY SMT, <1>1, <1>2, <1>7, <1>8, <1>9, <1>10 DEF PoolInv, TypeOK
<1>. QED
  BY <1>2, <1>4, <1>5, <1>6, <1>11, QuietHash, QuietStepPool

----------------------------------------------------------------------------
(* The preparation of a monitor that is not in the mark word.              *)

\* A step of t that prepares the monitor m, or gives it back.
Off(t, m) ==
  /\ Others(t)
  /\ UNCHANGED <<mark, box, inner, contenders, hash, save, returned, ret>>
  /\ pc[t] \in Infl /\ pc'[t] \in Infl
  /\ pc'[t] \in Stalling <=> pc[t] \in Stalling
  /\ pc[t] \in Stalling => seen'[t] = seen[t]
  /\ pc[t] \in Prep => mon[t] = m
  /\ pc'[t] \in Prep => mon'[t] = m
  /\ pc'[t] \notin Prep => m \notin object' /\ owner'[m] = NULL
  /\ mark # Inflated(m)
  /\ \A u \in Thread : u # t /\ pc[u] \in Prep => mon[u] # m
  /\ \A n \in Monitor : n # m =>
       /\ header'[n] = header[n] /\ owner'[n] = owner[n] /\ recursions'[n] = recursions[n]
       /\ n \in object' <=> n \in object

\* The preparation of a monitor keeps the owner of the object,
LEMMA OffOwn ==
  ASSUME Inv, NEW t \in Thread, NEW m \in Monitor, Off(t, m)
  PROVE  \A u \in Thread : OwnInv(u)' /\ ShapeInv(u)' /\ UserInv(u)'
<1>. SUFFICES ASSUME NEW u \in Thread PROVE OwnInv(u)' /\ ShapeInv(u)' /\ UserInv(u)'
  OBVIOUS
<1>1. OwnInv(u) /\ ShapeInv(u) /\ UserInv(u) /\ TypeOK
  BY DEF Inv, ThreadInv
<1>2. (Pending(u)' <=> Pending(u)) /\ (Owning(u)' <=> Owning(u))
  <2>1. Pending(u)' <=> Pending(u)
    BY DEF Off, Others, Same, Pending, Infl
  <2>2. pc'[u] = "waiting" <=> pc[u] = "waiting"
    BY DEF Off, Others, Same, Infl
  <2>. QED
    BY <2>1, <2>2 DEF Owning, Off
<1>3. \A i \in Thread : (pc'[i] \in Stalling /\ seen'[i] = Locked(u))
                          <=> (pc[i] \in Stalling /\ seen[i] = Locked(u))
  BY DEF Off, Others, Same
<1>4. \A n \in Monitor : mark = Inflated(n) => owner'[n] = owner[n] /\ recursions'[n] = recursions[n]
  BY DEF Off
<1>5. LockOwner(u)' <=> LockOwner(u)
  BY ZenonT(30), <1>3, <1>4 DEF Off, LockOwner, is_entered
<1>6. Recursions' = Recursions
  <2>1. mark \in Mark
    BY <1>1 DEF TypeOK
  <2>2. has_monitor(mark) => mark = Inflated(mark[2]) /\ mark[2] \in Monitor
    BY SMT, <2>1, MarkCases, MarkFacts
  <2>. QED
    BY <1>4, <2>2 DEF Recursions, Off
<1>7. ShapeInv(u)'
  <2>1. pc'[u] = "waiting" <=> pc[u] = "waiting"
    BY DEF Off, Others, Same, Infl
  <2>2. inner' = inner /\ save' = save
    BY DEF Off
  <2>. QED
    BY <1>1, <1>2, <1>6, <2>1, <2>2 DEF ShapeInv
<1>8. UserInv(u)'
  BY <1>1 DEF UserInv, Off, Others, Same, Infl, Users
<1>. QED
  BY <1>1, <1>2, <1>5, <1>7, <1>8 DEF OwnInv

\* and the invariant, if it keeps what concerns t, m and the free lists.
LEMMA OffStep ==
  ASSUME Inv, NEW t \in Thread, NEW m \in Monitor, Off(t, m), TypeOK', PlaceInv(t)',
         PrepInv(t)', PoolInv'
  PROVE  Inv'
<1>1. \A u \in Thread : PlaceInv(u)'
  BY OthersPlace DEF Off
<1>2. \A u \in Thread : pc'[u] \in Stalling <=> pc[u] \in Stalling
  BY DEF Off, Others, Same
<1>3. \A u \in Thread : pc[u] \in Stalling => seen'[u] = seen[u]
  BY DEF Off, Others, Same
<1>4. StallInv'
  BY <1>2 DEF StallInv, Inv, Off
<1>5. HeaderInv' /\ HashInv'
  <2>1. HeaderInv'
    BY <1>2, <1>3 DEF HeaderInv, Inv, Off
  <2>2. ASSUME NEW a, Current(a) PROVE Current(a)'
    BY ZenonT(30), <1>2, <1>3, <2>2 DEF Current, Off
  <2>. QED
    BY <2>1, <2>2 DEF HashInv, Inv, Off
<1>6. \A u \in Thread : PrepInv(u)'
  <2>. SUFFICES ASSUME NEW u \in Thread, u # t, pc'[u] \in Prep PROVE PrepInv(u)'
    BY DEF PrepInv, Prep
  <2>1. Same(u) /\ PrepInv(u) /\ mon[u] # m
    BY DEF Off, Others, Same, Inv, ThreadInv
  <2>2. mon[u] \in Monitor /\ UNCHANGED box
    BY <2>1 DEF Inv, PoolInv, Same, TypeOK, Off
  <2>3. /\ header'[mon[u]] = header[mon[u]] /\ owner'[mon[u]] = owner[mon[u]]
        /\ recursions'[mon[u]] = recursions[mon[u]]
        /\ mon[u] \in object' <=> mon[u] \in object
    BY <2>1, <2>2 DEF Off
  <2>. QED
    BY ZenonT(30), <2>1, <2>2, <2>3 DEF PrepInv, Same
<1>7. MonitorInv'
  <2>1. {u \in Thread : pc'[u] \in Blocked} = {u \in Thread : pc[u] \in Blocked}
    BY DEF Off, Others, Same, Infl, Blocked
  <2>2. \A n \in Monitor, u \in Thread : n # m => (Preparing(u, n)' <=> Preparing(u, n))
    BY DEF Off, Others, Same, Preparing, Prep
  <2>3. Preparing(t, m)' \/ (m \notin object' /\ owner'[m] = NULL)
    BY DEF Off, Preparing, Prep
  <2>4. \A n \in Monitor : n # m => owner'[n] = owner[n] /\ recursions'[n] = recursions[n]
                                    /\ (n \in object' <=> n \in object)
    BY DEF Off
  <2>5. UNCHANGED <<mark, contenders>> /\ mark # Inflated(m)
    BY DEF Off
  <2>. QED
    BY <2>1, <2>2, <2>3, <2>4, <2>5 DEF MonitorInv, Inv
<1>. QED
  BY <1>1, <1>4, <1>5, <1>6, <1>7, OffOwn DEF Inv, ThreadInv

\* omAlloc() gives t a monitor.
LEMMA omAllocInv ==
  ASSUME Inv, NEW t \in Thread, omAlloc(t)
  PROVE  Inv'
<1>1. TypeOK /\ PoolInv /\ MonitorInv /\ PlaceInv(t) /\ pc[t] = "alloc"
  BY DEF Inv, ThreadInv, omAlloc, At
<1>2. PICK m \in omFreeList[t] :
        /\ omFreeList' = [omFreeList EXCEPT ![t] = @ \ {m}]
        /\ mon' = [mon EXCEPT ![t] = m]
        /\ recursions' = [recursions EXCEPT ![m] = 0]
        /\ IF has_locker(seen[t])
             THEN pc' = [pc EXCEPT ![t] = "casLocked"] /\ UNCHANGED <<header, object, owner>>
             ELSE /\ header' = [header EXCEPT ![m] = seen[t]]
                  /\ object' = object \cup {m}
                  /\ owner' = [owner EXCEPT ![m] = NULL]
                  /\ pc' = [pc EXCEPT ![t] = "casNeutral"]
  BY DEF omAlloc, Goto, Given
<1>3. UNCHANGED <<mark, box, inner, contenders, gFreeList, extant, ret, seen, hash, save,
                  returned, calls>>
  BY DEF omAlloc, stackVars
<1>4. /\ m \in Monitor /\ Free(m) /\ m \in extant /\ mark # Inflated(m)
      /\ \A u \in Thread : ~Preparing(u, m)
  BY <1>1 DEF TypeOK, Free, PoolInv
<1>5. m \notin object /\ owner[m] = NULL
  BY ZenonT(30), <1>1, <1>4 DEF MonitorInv
<1>6. IF has_locker(seen[t]) THEN seen[t] \in {Locked(o) : o \in Thread} ELSE seen[t] \in Header
  <2>1. seen[t] \in Header \/ seen[t] \in {Locked(o) : o \in Thread}
    BY <1>1 DEF PlaceInv
  <2>2. seen[t] \in Header => ~has_locker(seen[t])
    BY HeaderFacts
  <2>3. seen[t] \in {Locked(o) : o \in Thread} => has_locker(seen[t])
    BY MarkFacts
  <2>. QED
    BY <2>1, <2>2, <2>3
<1>7. TypeOK'
  <2>1. /\ header' \in [Monitor -> Header] /\ object' \subseteq Monitor
        /\ owner' \in [Monitor -> Thread \cup {NULL} \cup {BasicLock(u) : u \in Thread}]
        /\ recursions' \in [Monitor -> Nat]
    <3>1. /\ header \in [Monitor -> Header] /\ object \subseteq Monitor
          /\ owner \in [Monitor -> Thread \cup {NULL} \cup {BasicLock(u) : u \in Thread}]
          /\ recursions \in [Monitor -> Nat]
      BY <1>1 DEF TypeOK
    <3>2. CASE has_locker(seen[t])
      BY <1>2, <1>4, <3>1, <3>2
    <3>3. CASE ~has_locker(seen[t])
      BY <1>2, <1>4, <1>6, <3>1, <3>3
    <3>. QED
      BY <3>2, <3>3
  <2>2. /\ omFreeList' \in [Thread -> SUBSET Monitor] /\ mon' \in [Thread -> Monitor \cup {NULL}]
    BY <1>1, <1>2, <1>4 DEF TypeOK
  <2>3. pc' \in [Thread -> Label]
    <3>1. pc \in [Thread -> Label] /\ "casLocked" \in Label /\ "casNeutral" \in Label
      BY <1>1 DEF TypeOK, Label
    <3>. QED
      BY <1>2, <3>1
  <2>. QED
    BY <1>1, <1>3, <2>1, <2>2, <2>3 DEF TypeOK
<1>8. /\ Others(t) /\ mon'[t] = m /\ recursions'[m] = 0 /\ owner'[m] = NULL
      /\ has_locker(seen[t]) => pc'[t] = "casLocked" /\ m \notin object'
      /\ ~has_locker(seen[t]) => pc'[t] = "casNeutral" /\ m \in object' /\ header'[m] = seen[t]
  <2>1. /\ mon'[t] = m /\ recursions'[m] = 0 /\ owner'[m] = NULL
        /\ has_locker(seen[t]) => pc'[t] = "casLocked" /\ m \notin object'
        /\ ~has_locker(seen[t]) => pc'[t] = "casNeutral" /\ m \in object' /\ header'[m] = seen[t]
    BY ZenonT(30), <1>1, <1>2, <1>4, <1>5 DEF TypeOK
  <2>2. Others(t)
    BY <1>1, <1>2, <1>3 DEF TypeOK, Others, Same
  <2>. QED
    BY <2>1, <2>2
<1>9. Off(t, m)
  <2>1. \A n \in Monitor : n # m =>
          /\ header'[n] = header[n] /\ owner'[n] = owner[n] /\ recursions'[n] = recursions[n]
          /\ n \in object' <=> n \in object
    BY SMT, <1>1, <1>2, <1>4 DEF TypeOK
  <2>2. \A u \in Thread : pc[u] \in Prep => mon[u] # m
    BY <1>4 DEF Preparing, Prep
  <2>. QED
    BY <1>1, <1>3, <1>4, <1>8, <2>1, <2>2 DEF Off, Infl, Prep, Stalling
<1>10. PlaceInv(t)' /\ PrepInv(t)'
  <2>1. displaced_header(t)' = displaced_header(t)
    BY <1>3 DEF displaced_header
  <2>2. PlaceInv(t)'
    BY <1>1, <1>3, <1>6, <1>8, <2>1 DEF PlaceInv, Infl, Blocked
  <2>3. PrepInv(t)'
    BY <1>3, <1>8 DEF PrepInv, Prep
  <2>. QED
    BY <2>2, <2>3
<1>11. PoolInv'
  <2>1. \A u \in Thread : omFreeList'[u] = IF u = t THEN omFreeList[t] \ {m} ELSE omFreeList[u]
    BY <1>1, <1>2 DEF TypeOK
  <2>2. m \notin gFreeList /\ \A u \in Thread : u # t => m \notin omFreeList[u]
    BY <1>1, <1>2 DEF PoolInv
  <2>3. \A n \in Monitor : Free(n)' <=> Free(n) /\ n # m
    BY <1>3, <2>1, <2>2 DEF Free
  <2>4. \A u \in Thread : \A n : Preparing(u, n)' <=> Preparing(u, n) \/ (u = t /\ n = m)
    BY <1>1, <1>8 DEF Preparing, Others, Same
  <2>5. /\ pc'[t] \in Prep /\ mon'[t] = m
        /\ \A u \in Thread : u # t => pc'[u] = pc[u] /\ mon'[u] = mon[u]
        /\ \A u \in Thread : pc[u] \in Prep => mon[u] # m
    BY <1>4, <1>8 DEF Others, Same, Prep, Preparing
  <2>6. /\ \A u \in Thread : omFreeList'[u] \cap gFreeList' = {}
        /\ \A u, v \in Thread : u # v => omFreeList'[u] \cap omFreeList'[v] = {}
    BY <1>1, <1>3, <2>1 DEF PoolInv
  <2>7. \A n \in Monitor : Free(n)' =>
          n \in extant' /\ mark' # Inflated(n) /\ \A u \in Thread : ~Preparing(u, n)'
    BY <1>1, <1>3, <2>3, <2>4 DEF PoolInv
  <2>8. \A u, v \in Thread :
          pc'[u] \in Prep /\ pc'[v] \in Prep /\ mon'[u] = mon'[v] => u = v
    BY <1>1, <2>5 DEF PoolInv
  <2>9. \A u \in Thread : pc'[u] \in Prep => mon'[u] \in extant' /\ mark' # Inflated(mon'[u])
    BY <1>1, <1>3, <1>4, <2>5 DEF PoolInv
  <2>10. \A n \in extant' :
           Free(n)' \/ mark' = Inflated(n) \/ \E u \in Thread : Preparing(u, n)'
    BY <1>1, <1>3, <2>3, <2>4 DEF PoolInv, TypeOK
  <2>11. \A n \in Monitor : mark' = Inflated(n) => n \in extant'
    BY <1>1, <1>3 DEF PoolInv
  <2>. QED
    BY <2>6, <2>7, <2>8, <2>9, <2>10, <2>11 DEF PoolInv
<1>. QED
  BY <1>4, <1>7, <1>9, <1>10, <1>11, OffStep

\* The header of the locker is copied into the monitor while the mark is INFLATING.
LEMMA CopyInv ==
  ASSUME Inv, NEW t \in Thread, Copy(t)
  PROVE  Inv'
<1>. DEFINE m == mon[t]
            o == seen[t][2]
<1>1. TypeOK /\ PoolInv /\ HeaderInv /\ PlaceInv(t) /\ PrepInv(t) /\ pc[t] = "copy"
  BY DEF Inv, ThreadInv, Copy, Step, At
<1>2. m \in Monitor /\ m \in extant /\ mark # Inflated(m) /\ o \in Thread /\ box[o] \in Header
  BY <1>1, LockersOwn DEF PoolInv, TypeOK, Prep, Stalling, HeaderInv
<1>3. /\ header' = [header EXCEPT ![m] = box[o]] /\ owner' = [owner EXCEPT ![m] = BasicLock(o)]
      /\ object' = object \cup {m} /\ pc' = [pc EXCEPT ![t] = "publish"]
      /\ UNCHANGED <<mark, box, inner, recursions, contenders, poolVars, ret, seen, mon,
                     hash, save, returned, calls>>
  BY DEF Copy, Step, Goto, Given, displaced_mark_helper, stackVars
<1>4. TypeOK'
  BY <1>1, <1>2, <1>3 DEF TypeOK, Label, poolVars
<1>5. /\ Others(t) /\ pc'[t] = "publish" /\ header'[m] = box[o] /\ owner'[m] = BasicLock(o)
      /\ m \in object'
  BY <1>1, <1>2, <1>3 DEF TypeOK, Others, Same
<1>6. Off(t, m)
  <2>1. \A n \in Monitor : n # m =>
          /\ header'[n] = header[n] /\ owner'[n] = owner[n] /\ recursions'[n] = recursions[n]
          /\ n \in object' <=> n \in object
    BY <1>1, <1>2, <1>3 DEF TypeOK
  <2>2. \A u \in Thread : u # t /\ pc[u] \in Prep => mon[u] # m
    BY <1>1 DEF PoolInv, Prep
  <2>. QED
    BY <1>1, <1>2, <1>3, <1>5, <2>1, <2>2 DEF Off, Infl, Prep, Stalling
<1>7. PlaceInv(t)' /\ PrepInv(t)'
  <2>1. displaced_header(t)' = displaced_header(t)
    BY <1>3 DEF displaced_header
  <2>2. PlaceInv(t)'
    BY <1>1, <1>3, <1>5, <2>1 DEF PlaceInv, Infl, Blocked
  <2>3. PrepInv(t)'
    BY <1>1, <1>3, <1>5 DEF PrepInv, Prep
  <2>. QED
    BY <2>2, <2>3
<1>8. PoolInv'
  <2>1. \A u \in Thread : \A n : Preparing(u, n)' <=> Preparing(u, n)
    BY <1>1, <1>3, <1>5 DEF Preparing, Others, Same
  <2>2. \A u \in Thread : pc'[u] \in Prep <=> pc[u] \in Prep
    BY <1>1, <1>5 DEF Others, Same, Prep
  <2>3. \A n \in Monitor : Free(n)' <=> Free(n)
    BY <1>3 DEF Free, poolVars
  <2>. QED
    BY <1>1, <1>3, <2>1, <2>2, <2>3 DEF PoolInv, TypeOK, poolVars
<1>. QED
  BY <1>2, <1>4, <1>6, <1>7, <1>8, OffStep

\* A CAS on the mark word failed: the monitor goes back to the thread's list.
LEMMA ReleaseStep ==
  ASSUME Inv, NEW t \in Thread, pc[t] \in {"casLocked", "casNeutral"},
         object' = object \ {mon[t]}, omFreeList' = Released(t),
         mon' = [mon EXCEPT ![t] = NULL], pc' = [pc EXCEPT ![t] = "inflate"],
         UNCHANGED <<mark, box, inner, header, owner, recursions, contenders, gFreeList,
                     extant, ret, seen, hash, save, returned, calls>>
  PROVE  Inv'
<1>. DEFINE m == mon[t]
<1>1. TypeOK /\ PoolInv /\ PlaceInv(t) /\ PrepInv(t)
  BY DEF Inv, ThreadInv
<1>2. m \in Monitor /\ m \in extant /\ mark # Inflated(m) /\ owner[m] = NULL
  BY <1>1 DEF PoolInv, TypeOK, Prep, PrepInv
<1>3. TypeOK'
  BY ZenonT(30), <1>1, <1>2 DEF TypeOK, Label, Released
<1>4. Others(t) /\ pc'[t] = "inflate" /\ m \notin object'
  BY <1>1 DEF TypeOK, Others, Same
<1>5. Off(t, m)
  <2>1. \A u \in Thread : u # t /\ pc[u] \in Prep => mon[u] # m
    BY <1>1 DEF PoolInv, Prep
  <2>. QED
    BY <1>2, <1>4, <2>1 DEF Off, Infl, Prep, Stalling
<1>6. PlaceInv(t)' /\ PrepInv(t)'
  <2>1. displaced_header(t)' = displaced_header(t)
    BY DEF displaced_header
  <2>2. PlaceInv(t)'
    BY <1>1, <1>4, <2>1 DEF PlaceInv, Infl, Blocked
  <2>3. PrepInv(t)'
    BY <1>4 DEF PrepInv, Prep
  <2>. QED
    BY <2>2, <2>3
<1>7. PoolInv'
  <2>1. \A u \in Thread : omFreeList'[u] = IF u = t THEN omFreeList[t] \cup {m} ELSE omFreeList[u]
    BY <1>1 DEF TypeOK, Released
  <2>2. ~Free(m) /\ Preparing(t, m)
    BY SMT, <1>1, <1>2 DEF PoolInv, Preparing
  <2>3. \A n \in Monitor : Free(n)' <=> Free(n) \/ n = m
    BY <2>1 DEF Free
  <2>4. \A u \in Thread : u # t => pc'[u] = pc[u] /\ mon'[u] = mon[u]
    BY <1>4 DEF Others, Same
  <2>5. \A u \in Thread, n \in Monitor : Preparing(u, n)' <=> Preparing(u, n) /\ n # m
    <3>1. \A u \in Thread : Preparing(u, m) => u = t
      BY <1>1, <2>2 DEF PoolInv, Preparing, Prep
    <3>. QED
      BY <1>4, <2>2, <2>4, <3>1 DEF Preparing
  <2>6. pc'[t] \notin Prep /\ m \notin gFreeList /\ \A u \in Thread : m \notin omFreeList[u]
    BY <1>4, <2>2 DEF Prep, Free
  <2>. QED
    <3>1. \A n \in Monitor : Free(n)' =>
            n \in extant' /\ mark' # Inflated(n) /\ \A u \in Thread : ~Preparing(u, n)'
      BY <1>1, <1>2, <2>3, <2>5 DEF PoolInv
    <3>2. /\ \A u \in Thread : omFreeList'[u] \cap gFreeList' = {}
          /\ \A u, v \in Thread : u # v => omFreeList'[u] \cap omFreeList'[v] = {}
      BY SMT, <1>1, <2>1, <2>6 DEF PoolInv
    <3>3. /\ \A u \in Thread : pc'[u] \in Prep => mon'[u] \in extant' /\ mark' # Inflated(mon'[u])
          /\ \A u, v \in Thread :
               pc'[u] \in Prep /\ pc'[v] \in Prep /\ mon'[u] = mon'[v] => u = v
      BY SMT, <1>1, <2>4, <2>6 DEF PoolInv
    <3>4. \A n \in Monitor : mark' = Inflated(n) => n \in extant'
      BY <1>1 DEF PoolInv
    <3>5. \A n \in extant' :
            Free(n)' \/ mark' = Inflated(n) \/ \E u \in Thread : Preparing(u, n)'
      BY <1>1, <2>3, <2>5 DEF PoolInv, TypeOK
    <3>. QED
      BY <3>1, <3>2, <3>3, <3>4, <3>5 DEF PoolInv
<1>. QED
  BY <1>2, <1>3, <1>5, <1>6, <1>7, OffStep

----------------------------------------------------------------------------
(* The steps that change the mark word.                                    *)

\* Who owns the object, by its mark word.
LEMMA OwnerFacts ==
  ASSUME Inv
  PROVE  /\ is_neutral(mark) => \A u \in Thread : ~Owning(u)
         /\ \A o \in Thread : mark = Locked(o) => \A u \in Thread : Owning(u) <=> u = o
         /\ \A i \in Thread : pc[i] \in Stalling =>
              \A u \in Thread : Owning(u) <=> u = seen[i][2]
         /\ \A m \in Monitor : mark = Inflated(m) =>
              \A u \in Thread : Owning(u) <=> is_entered(u, m)
         /\ ~has_monitor(mark) => \A u \in Thread : pc[u] \notin Users
         /\ mark # INFLATING => \A u \in Thread : pc[u] \notin Stalling
<1>1. \A u \in Thread : (Owning(u) <=> LockOwner(u)) /\ UserInv(u)
  BY DEF Inv, ThreadInv, OwnInv
<1>2. StallInv
  BY DEF Inv
<1>3. mark # INFLATING => \A u \in Thread : pc[u] \notin Stalling
  BY <1>2 DEF StallInv
<1>4. ASSUME ~has_monitor(mark), NEW u \in Thread PROVE pc[u] \notin Users
  <2>1. mark # Inflated(mon[u])
    BY ZenonT(30), <1>4, MarkFacts
  <2>. QED
    BY <1>1, <2>1 DEF UserInv
<1>5. ASSUME NEW i \in Thread, pc[i] \in Stalling, NEW u \in Thread
      PROVE  Owning(u) <=> u = seen[i][2]
  <2>1. mark = INFLATING /\ \A j \in Thread : pc[j] \in Stalling => j = i
    BY <1>2, <1>5 DEF StallInv
  <2>2. seen[i] = Locked(seen[i][2])
    BY <1>5, LockersOwn
  <2>3. LockOwner(u) <=> seen[i] = Locked(u)
    BY <1>5, <2>1, MarkFacts DEF LockOwner
  <2>. QED
    BY <1>1, <2>2, <2>3, MarkFacts
<1>6. ASSUME is_neutral(mark), NEW u \in Thread PROVE ~Owning(u)
  <2>1. mark # INFLATING /\ mark # Locked(u) /\ \A m \in Monitor : mark # Inflated(m)
    BY <1>6, MarkFacts
  <2>. QED
    BY <1>1, <1>3, <2>1 DEF LockOwner
<1>7. ASSUME NEW o \in Thread, mark = Locked(o), NEW u \in Thread
      PROVE  Owning(u) <=> u = o
  <2>1. mark # INFLATING /\ (mark = Locked(u) <=> u = o) /\ \A m \in Monitor : mark # Inflated(m)
    BY <1>7, MarkFacts
  <2>. QED
    BY <1>1, <1>3, <2>1 DEF LockOwner
<1>8. ASSUME NEW m \in Monitor, mark = Inflated(m), NEW u \in Thread
      PROVE  Owning(u) <=> is_entered(u, m)
  <2>1. mark # INFLATING /\ mark # Locked(u) /\ \A n \in Monitor : mark = Inflated(n) <=> n = m
    BY <1>8, MarkFacts
  <2>. QED
    BY <1>1, <1>3, <2>1 DEF LockOwner
<1>. QED
  BY <1>3, <1>4, <1>5, <1>6, <1>7, <1>8

\* The CAS to INFLATING.
LEMMA CasLockedInv ==
  ASSUME Inv, NEW t \in Thread, CasLocked(t)
  PROVE  Inv'
<1>1. TypeOK /\ PoolInv /\ PlaceInv(t) /\ PrepInv(t) /\ ShapeInv(t) /\ pc[t] = "casLocked"
  BY DEF Inv, ThreadInv, CasLocked, At
<1>2. CASE ~Unchanged(t)
  <2>1. /\ omFreeList' = Released(t) /\ mon' = [mon EXCEPT ![t] = NULL]
        /\ pc' = [pc EXCEPT ![t] = "inflate"]
        /\ UNCHANGED <<mark, box, inner, header, object, owner, recursions, contenders,
                       gFreeList, extant, ret, seen, hash, save, returned, calls>>
    BY <1>2 DEF CasLocked, Goto, stackVars, monVars
  <2>2. object' = object \ {mon[t]}
    BY <1>1, <2>1 DEF PrepInv
  <2>. QED
    BY <1>1, <2>1, <2>2, ReleaseStep
<1>3. CASE Unchanged(t)
  <2>1. PICK o \in Thread : mark = Locked(o) /\ seen[t] = Locked(o)
    BY <1>1, <1>3 DEF PlaceInv, Unchanged
  <2>2. /\ mark' = INFLATING /\ pc' = [pc EXCEPT ![t] = "copy"]
        /\ UNCHANGED <<box, inner, header, object, owner, recursions, contenders, poolVars,
                       ret, seen, mon, hash, save, returned, calls>>
    BY <1>3 DEF CasLocked, Goto, stackVars, monVars, poolVars
  <2>3. TypeOK'
    BY <1>1, <2>2 DEF TypeOK, Mark, Label, poolVars
  <2>4. Others(t) /\ pc'[t] = "copy"
    BY <1>1, <2>2 DEF TypeOK, Others, Same
  <2>5. ~has_monitor(mark) /\ ~is_neutral(mark) /\ mark # INFLATING /\ seen[t][2] = o
    BY <2>1, MarkFacts
  <2>6. \A u \in Thread : pc[u] \notin Users /\ pc[u] \notin Stalling /\ (Owning(u) <=> u = o)
    BY <2>1, <2>5, OwnerFacts
  <2>7. \A u \in Thread : /\ pc'[u] \notin Users /\ (pc'[u] \in Stalling <=> u = t)
                          /\ (Pending(u)' <=> Pending(u)) /\ (Owning(u)' <=> Owning(u))
    <3>1. \A u \in Thread : pc'[u] \notin Users /\ (pc'[u] \in Stalling <=> u = t)
      BY <1>1, <2>4, <2>6 DEF Others, Same, Users, Stalling
    <3>2. \A u \in Thread : Pending(u)' <=> Pending(u)
      BY <1>1, <2>2, <2>4 DEF Others, Same, Pending
    <3>3. \A u \in Thread : pc'[u] # "waiting" /\ pc[u] # "waiting"
      BY <2>6, <3>1 DEF Users
    <3>. QED
      BY <2>2, <3>1, <3>2, <3>3 DEF Owning
  <2>8. \A u \in Thread : PlaceInv(u)'
    <3>1. PlaceInv(t)'
      BY <1>1, <2>2, <2>4 DEF PlaceInv, displaced_header, Infl, Blocked
    <3>. QED
      BY <2>4, <3>1, OthersPlace
  <2>9. \A u \in Thread : UserInv(u)'
    BY <2>7 DEF UserInv
  <2>10. \A u \in Thread : OwnInv(u)'
    BY SMT, <2>1, <2>2, <2>6, <2>7, MarkFacts DEF OwnInv, LockOwner
  <2>11. \A u \in Thread : ShapeInv(u)'
    <3>1. Recursions = 0 /\ Recursions' = 0
      BY <2>2, <2>5, MarkFacts DEF Recursions
    <3>2. \A u \in Thread : ShapeInv(u) /\ pc[u] # "waiting" /\ pc'[u] # "waiting"
      BY <2>6, <2>7 DEF Inv, ThreadInv, Users
    <3>. QED
      BY <2>2, <2>7, <3>1, <3>2 DEF ShapeInv
  <2>12. \A u \in Thread : PrepInv(u)'
    <3>1. PrepInv(t)'
      BY <1>1, <2>2, <2>4 DEF PrepInv, Prep
    <3>. QED
      BY <2>2, <2>4, <3>1, OthersPrep
  <2>13. StallInv'
    BY <2>2, <2>7 DEF StallInv
  <2>14. \A u \in Thread : \A n : Preparing(u, n)' <=> Preparing(u, n)
    BY <1>1, <2>2, <2>4 DEF Preparing, Others, Same
  <2>15. PoolInv'
    <3>1. \A u \in Thread : pc'[u] \in Prep <=> pc[u] \in Prep
      BY <1>1, <2>4 DEF Others, Same, Prep
    <3>2. \A n \in Monitor : (Free(n)' <=> Free(n)) /\ mark # Inflated(n) /\ mark' # Inflated(n)
      BY <2>1, <2>2, MarkFacts DEF Free, poolVars
    <3>. QED
      BY SMT, <1>1, <2>2, <2>14, <3>1, <3>2, MarkFacts DEF PoolInv, TypeOK, poolVars
  <2>16. MonitorInv'
    <3>1. \A n \in Monitor : mark # Inflated(n) /\ mark' # Inflated(n)
      BY <2>1, <2>2, MarkFacts
    <3>. QED
      BY <2>2, <2>14, <3>1 DEF MonitorInv, Inv
  <2>17. HeaderInv'
    BY ZenonT(30), <2>1, <2>2, <2>5, <2>7, MarkFacts DEF HeaderInv, Inv
  <2>18. HashInv'
    <3>1. ASSUME NEW a, Current(a) PROVE Current(a)'
      BY <2>1, <2>2, <2>5, <2>7, <3>1, MarkFacts DEF Current
    <3>. QED
      BY <2>2, <3>1 DEF HashInv, Inv
  <2>. QED
    BY <2>3, <2>8, <2>9, <2>10, <2>11, <2>12, <2>13, <2>15, <2>16, <2>17, <2>18
       DEF Inv, ThreadInv
<1>. QED
  BY <1>2, <1>3

\* The monitor that t has prepared replaces the mark word.
LEMMA PublishStep ==
  ASSUME Inv, NEW t \in Thread, pc[t] \in {"publish", "casNeutral"},
         pc[t] = "casNeutral" => mark = seen[t],
         mark' = Inflated(mon[t]), pc' = [pc EXCEPT ![t] = ret[t]],
         UNCHANGED <<box, inner, header, object, owner, recursions, contenders, poolVars,
                     ret, seen, mon, hash, save, returned, calls>>
  PROVE  Inv'
<1>. DEFINE m == mon[t]
<1>1. /\ TypeOK /\ PoolInv /\ MonitorInv /\ PlaceInv(t) /\ PrepInv(t)
      /\ ret[t] \in {"enter", "exit", "wait", "hash"}
  BY DEF Inv, ThreadInv, TypeOK
<1>2. m \in Monitor /\ m \in extant /\ mark # Inflated(m) /\ recursions[m] = 0 /\ m \in object
  BY <1>1 DEF PoolInv, TypeOK, Prep, PrepInv
<1>3. TypeOK'
  BY <1>1, <1>2 DEF TypeOK, Mark, Label, poolVars
<1>4. Others(t) /\ pc'[t] = ret[t]
  BY <1>1 DEF TypeOK, Others, Same
<1>5. ~has_monitor(mark) /\ (pc[t] = "publish" => mark = INFLATING)
  <2>1. CASE pc[t] = "publish"
    <3>1. mark = INFLATING
      BY <2>1 DEF Inv, StallInv, Stalling
    <3>. QED
      BY <3>1, MarkFacts
  <2>2. CASE pc[t] = "casNeutral"
    BY <1>1, <2>2, HeaderFacts DEF PlaceInv
  <2>. QED
    BY <2>1, <2>2
<1>6. \A u \in Thread : Owning(u) <=> is_entered(u, m)
  <2>1. CASE pc[t] = "publish"
    <3>1. owner[m] = BasicLock(seen[t][2]) /\ seen[t][2] \in Thread
      BY <1>1, <2>1, LockersOwn DEF PrepInv, Stalling
    <3>2. \A u \in Thread : Owning(u) <=> u = seen[t][2]
      BY <2>1, OwnerFacts DEF Stalling
    <3>. QED
      BY <3>1, <3>2, OwnerNames DEF is_entered
  <2>2. CASE pc[t] = "casNeutral"
    <3>1. owner[m] = NULL /\ is_neutral(mark)
      BY <1>1, <2>2, HeaderFacts DEF PrepInv, PlaceInv
    <3>. QED
      BY <3>1, OwnerFacts, OwnerNames DEF is_entered
  <2>. QED
    BY <2>1, <2>2
<1>7. \A u \in Thread : /\ pc[u] \notin Users /\ (pc'[u] \in Users <=> u = t)
                        /\ pc'[u] \notin Stalling /\ pc'[u] \notin Blocked
  <2>1. \A u \in Thread : pc[u] \notin Users
    BY <1>5, OwnerFacts
  <2>2. \A u \in Thread : u # t => pc[u] \notin Stalling
    BY SMT, <1>5, OwnerFacts, MarkFacts, HeaderFacts, <1>1 DEF Inv, StallInv, Stalling, PlaceInv
  <2>. QED
    BY ZenonT(30), <1>1, <1>4, <2>1, <2>2 DEF Others, Same, Users, Stalling, Blocked
<1>8. \A u \in Thread : (Pending(u)' <=> Pending(u)) /\ (Owning(u)' <=> Owning(u))
  <2>1. \A u \in Thread : Pending(u)' <=> Pending(u)
    BY <1>1, <1>4 DEF Others, Same, Pending
  <2>2. \A u \in Thread : pc'[u] # "waiting" /\ pc[u] # "waiting"
    BY <1>7 DEF Users, Blocked
  <2>. QED
    BY <2>1, <2>2 DEF Owning
<1>9. \A u \in Thread : PlaceInv(u)'
  <2>1. displaced_header(t)' = displaced_header(t)
    BY DEF displaced_header
  <2>2. PlaceInv(t)'
    BY <1>1, <1>4, <2>1 DEF PlaceInv, Infl, Blocked
  <2>. QED
    BY <1>4, <2>2, OthersPlace
<1>10. \A u \in Thread : UserInv(u)'
  BY <1>2, <1>7 DEF UserInv
<1>11. \A u \in Thread : OwnInv(u)'
  <2>1. \A u \in Thread : LockOwner(u)' <=> is_entered(u, m)
    BY <1>2, <1>7, MarkFacts DEF LockOwner, is_entered
  <2>. QED
    BY <1>6, <1>8, <2>1 DEF OwnInv
<1>12. \A u \in Thread : ShapeInv(u)'
  <2>1. Recursions = 0 /\ Recursions' = 0
    BY <1>2, <1>5, MarkFacts DEF Recursions
  <2>2. \A u \in Thread : ShapeInv(u) /\ pc[u] # "waiting" /\ pc'[u] # "waiting"
    BY <1>7 DEF Inv, ThreadInv, Users, Blocked
  <2>. QED
    BY <1>8, <2>1, <2>2 DEF ShapeInv
<1>13. \A u \in Thread : PrepInv(u)'
  <2>1. PrepInv(t)'
    BY <1>1, <1>4 DEF PrepInv, Prep
  <2>. QED
    BY <1>4, <2>1, OthersPrep
<1>14. StallInv'
  BY <1>7, MarkFacts DEF StallInv
<1>15. \A u \in Thread, n \in Monitor : Preparing(u, n)' <=> Preparing(u, n) /\ n # m
  <2>1. \A u \in Thread : Preparing(u, m) => u = t
    BY SMT, <1>1 DEF PoolInv, Preparing, Prep
  <2>2. Preparing(t, m) /\ \A n \in Monitor : ~Preparing(t, n)'
    BY <1>1, <1>4 DEF Preparing
  <2>. QED
    BY <1>4, <2>1, <2>2 DEF Preparing, Others, Same
<1>16. \A n \in Monitor : (Free(n)' <=> Free(n)) /\ mark # Inflated(n)
                            /\ (mark' = Inflated(n) <=> n = m)
  BY <1>5, MarkFacts DEF Free, poolVars
<1>17. PoolInv'
  <2>1. \A n \in Monitor : Free(n)' =>
          n \in extant' /\ mark' # Inflated(n) /\ \A u \in Thread : ~Preparing(u, n)'
    <3>1. ~Free(m)
      BY SMT, <1>1, <1>2 DEF PoolInv, Preparing
    <3>. QED
      BY ZenonT(30), <1>1, <1>15, <1>16, <3>1 DEF PoolInv, poolVars
  <2>2. /\ \A u \in Thread : omFreeList'[u] \cap gFreeList' = {}
        /\ \A u, v \in Thread : u # v => omFreeList'[u] \cap omFreeList'[v] = {}
    BY <1>1 DEF PoolInv, poolVars
  <2>3. \A u \in Thread : pc'[u] \in Prep => u # t /\ pc[u] \in Prep /\ mon'[u] = mon[u]
    BY <1>1, <1>4 DEF Others, Same, Prep
  <2>4. \A u \in Thread : u # t /\ pc[u] \in Prep => mon[u] # m
    BY <1>1 DEF PoolInv, Prep
  <2>5. /\ \A u \in Thread : pc'[u] \in Prep => mon'[u] \in extant' /\ mark' # Inflated(mon'[u])
        /\ \A u, v \in Thread :
             pc'[u] \in Prep /\ pc'[v] \in Prep /\ mon'[u] = mon'[v] => u = v
    BY <1>1, <2>3, <2>4, MarkFacts DEF PoolInv, poolVars
  <2>6. \A n \in Monitor : mark' = Inflated(n) => n \in extant'
    BY <1>2, <1>16 DEF poolVars
  <2>7. \A n \in extant' :
          Free(n)' \/ mark' = Inflated(n) \/ \E u \in Thread : Preparing(u, n)'
    BY <1>1, <1>15, <1>16 DEF PoolInv, TypeOK, poolVars
  <2>. QED
    BY <2>1, <2>2, <2>5, <2>6, <2>7 DEF PoolInv
<1>18. MonitorInv'
  <2>1. contenders[m] = {} /\ {u \in Thread : pc'[u] \in Blocked} = {}
    BY <1>1, <1>2, <1>7 DEF MonitorInv
  <2>. QED
    BY <1>1, <1>2, <1>15, <1>16, <2>1 DEF MonitorInv
<1>19. HeaderInv'
  BY <1>7, MarkFacts DEF HeaderInv
<1>20. HashInv'
  <2>1. ASSUME NEW a, Current(a) PROVE Current(a)'
    <3>1. header[m] = Neutral(a)
      <4>1. CASE pc[t] = "publish"
        BY <1>1, <2>1, <4>1 DEF Current, PrepInv, Stalling
      <4>2. CASE pc[t] = "casNeutral"
        <5>1. header[m] = mark /\ mark \in Header
          BY <1>1, <4>2 DEF PrepInv, PlaceInv
        <5>. QED
          BY <2>1, <5>1, HeaderFacts DEF Current
      <4>. QED
        BY <4>1, <4>2
    <3>. QED
      BY <1>7, <1>16, <3>1, MarkFacts DEF Current
  <2>. QED
    BY <2>1 DEF HashInv, Inv
<1>. QED
  BY ZenonT(30), <1>3, <1>9, <1>10, <1>11, <1>12, <1>13, <1>14, <1>17, <1>18, <1>19, <1>20
     DEF Inv, ThreadInv

\* The monitor replaces INFLATING.
LEMMA PublishInv ==
  ASSUME Inv, NEW t \in Thread, Publish(t)
  PROVE  Inv'
<1>1. /\ pc[t] = "publish" /\ mark' = Inflated(mon[t]) /\ pc' = [pc EXCEPT ![t] = ret[t]]
      /\ UNCHANGED <<box, inner, header, object, owner, recursions, contenders, poolVars,
                     ret, seen, mon, hash, save, returned, calls>>
  BY DEF Publish, Published, Step, At, Goto, stackVars, monVars
<1>. QED
  BY <1>1, PublishStep

\* The CAS from a neutral mark word to the monitor.
LEMMA CasNeutralInv ==
  ASSUME Inv, NEW t \in Thread, CasNeutral(t)
  PROVE  Inv'
<1>1. CASE Unchanged(t)
  <2>1. /\ pc[t] = "casNeutral" /\ mark = seen[t]
        /\ mark' = Inflated(mon[t]) /\ pc' = [pc EXCEPT ![t] = ret[t]]
        /\ UNCHANGED <<box, inner, header, object, owner, recursions, contenders, poolVars,
                       ret, seen, mon, hash, save, returned, calls>>
    BY <1>1 DEF CasNeutral, Unchanged, Published, At, Goto, stackVars, monVars, poolVars
  <2>. QED
    BY <2>1, PublishStep
<1>2. CASE ~Unchanged(t)
  <2>1. /\ pc[t] = "casNeutral" /\ object' = object \ {mon[t]} /\ omFreeList' = Released(t)
        /\ mon' = [mon EXCEPT ![t] = NULL] /\ pc' = [pc EXCEPT ![t] = "inflate"]
        /\ UNCHANGED <<mark, box, inner, header, owner, recursions, contenders, gFreeList,
                       extant, ret, seen, hash, save, returned, calls>>
    BY <1>2 DEF CasNeutral, At, Goto, stackVars, monVars
  <2>. QED
    BY <2>1, ReleaseStep
<1>. QED
  BY <1>1, <1>2

\* A step that changes the mark word of an object that has no monitor before or
\* after it.
LEMMA PlainStep ==
  ASSUME Inv, NEW t \in Thread, Others(t), TypeOK',
         is_neutral(mark) \/ has_locker(mark), is_neutral(mark') \/ has_locker(mark'),
         pc[t] \notin Prep, pc'[t] \notin Prep \cup Users,
         PlaceInv(t)', HeaderInv', HashInv', \A u \in Thread : OwnInv(u)' /\ ShapeInv(u)',
         UNCHANGED <<header, object, owner, recursions, contenders, poolVars>>
  PROVE  Inv'
<1>1. TypeOK /\ PoolInv /\ MonitorInv
  BY DEF Inv
<1>2. /\ mark # INFLATING /\ mark' # INFLATING /\ ~has_monitor(mark)
      /\ \A n \in Monitor : mark # Inflated(n) /\ mark' # Inflated(n)
  <2>1. \A w \in Mark : is_neutral(w) \/ has_locker(w) =>
          w # INFLATING /\ ~has_monitor(w) /\ \A n \in Monitor : w # Inflated(n)
    BY MarkCases, MarkFacts, HeaderFacts
  <2>. QED
    BY <1>1, <2>1 DEF TypeOK
<1>3. \A u \in Thread : pc[u] \notin Users /\ pc'[u] \notin Users
                          /\ pc[u] \notin Stalling /\ pc'[u] \notin Stalling
  BY <1>2, OwnerFacts DEF Others, Same, Prep, Stalling
<1>4. \A u \in Thread : UserInv(u)'
  BY <1>3 DEF UserInv
<1>5. StallInv'
  BY <1>2, <1>3 DEF StallInv
<1>6. \A u \in Thread : PrepInv(u)'
  <2>. SUFFICES ASSUME NEW u \in Thread, pc'[u] \in Prep PROVE PrepInv(u)'
    BY DEF PrepInv, Prep
  <2>1. Same(u) /\ PrepInv(u) /\ pc'[u] # "publish"
    BY <1>3 DEF Others, Inv, ThreadInv, Stalling
  <2>. QED
    BY <2>1 DEF PrepInv, Same
<1>7. \A u \in Thread : \A n : Preparing(u, n)' <=> Preparing(u, n)
  BY DEF Preparing, Others, Same, Prep
<1>8. PoolInv'
  <2>1. \A u \in Thread : pc'[u] \in Prep => pc[u] \in Prep /\ mon'[u] = mon[u]
    BY DEF Others, Same
  <2>2. \A n \in Monitor : Free(n)' <=> Free(n)
    BY DEF Free, poolVars
  <2>3. \A u \in Thread : pc'[u] \in Prep => mon'[u] \in Monitor
    BY <1>1, <2>1 DEF PoolInv, TypeOK
  <2>. QED
    BY <1>1, <1>2, <1>7, <2>1, <2>2, <2>3 DEF PoolInv, TypeOK, poolVars
<1>9. MonitorInv'
  BY <1>1, <1>2, <1>7 DEF MonitorInv
<1>10. \A u \in Thread : PlaceInv(u)'
  BY OthersPlace
<1>. QED
  BY <1>4, <1>5, <1>6, <1>8, <1>9, <1>10 DEF Inv, ThreadInv

\* The CAS of slow_enter().
LEMMA EnterCasInv ==
  ASSUME Inv, NEW t \in Thread, EnterCas(t)
  PROVE  Inv'
<1>1. /\ TypeOK /\ PlaceInv(t) /\ pc[t] = "enterCas" /\ HashInv
      /\ inner[t] = <<>> /\ box[t] = seen[t] /\ seen[t] \in Header
  BY DEF Inv, ThreadInv, EnterCas, At, PlaceInv
<1>2. /\ UNCHANGED <<header, object, owner, recursions, contenders, poolVars, mon, hash, save,
                     returned, calls>>
  BY DEF EnterCas, monVars
<1>3. Pending(t) /\ ~Owning(t)
  BY <1>1 DEF Pending, Owning
<1>4. CASE Unchanged(t)
  <2>1. /\ mark' = Locked(t) /\ pc' = [pc EXCEPT ![t] = "run"]
        /\ seen' = [seen EXCEPT ![t] = Neutral(0)] /\ UNCHANGED <<box, inner, ret>>
        /\ mark = seen[t]
    BY <1>4 DEF EnterCas, Unchanged, Goto, stackVars
  <2>2. TypeOK'
    <3>1. Neutral(0) \in Mark /\ Locked(t) \in Mark /\ "run" \in Label
      BY DEF Mark, Header, Label
    <3>. QED
      BY <1>1, <1>2, <2>1, <3>1 DEF TypeOK, poolVars
  <2>3. Others(t) /\ pc'[t] = "run"
    BY <1>1, <1>2, <2>1 DEF TypeOK, Others, Same
  <2>4. is_neutral(mark) /\ ~has_monitor(mark) /\ mark # INFLATING
        /\ has_locker(mark') /\ mark' # INFLATING
    BY <1>1, <2>1, HeaderFacts, MarkFacts
  <2>5. \A u \in Thread : /\ ~Owning(u) /\ pc[u] \notin Users /\ pc[u] \notin Stalling
                          /\ pc'[u] \notin Stalling /\ pc'[u] \notin Users
    BY <2>3, <2>4, OwnerFacts DEF Others, Same, Stalling, Users
  <2>6. \A u \in Thread : Owning(u)' <=> u = t
    <3>1. Owning(t)'
      BY <1>1, <2>1, <2>3, HeaderFacts DEF Owning, Pending
    <3>2. \A u \in Thread : u # t => ~Owning(u)'
      BY ZenonT(30), <2>3, <2>5 DEF Owning, Pending, Others, Same
    <3>. QED
      BY <3>1, <3>2
  <2>7. \A u \in Thread : OwnInv(u)'
    BY <2>1, <2>5, <2>6, MarkFacts DEF OwnInv, LockOwner
  <2>8. \A u \in Thread : ShapeInv(u)'
    <3>1. Recursions' = 0 /\ ~Pending(t)'
      BY <2>1, <2>3, MarkFacts DEF Recursions, Pending
    <3>2. \A u \in Thread : pc'[u] # "waiting"
      BY <2>5 DEF Users
    <3>. QED
      BY <1>1, <2>1, <2>6, <3>1, <3>2, CountedNone DEF ShapeInv
  <2>9. HeaderInv'
    BY <1>1, <2>1, <2>5, MarkFacts DEF HeaderInv
  <2>10. HashInv'
    <3>1. ASSUME NEW a, Current(a) PROVE Current(a)'
      BY <1>1, <2>1, <2>4, <2>5, <3>1, MarkFacts DEF Current
    <3>. QED
      BY <1>1, <1>2, <3>1 DEF HashInv
  <2>11. PlaceInv(t)'
    BY <1>1, <1>2, <2>1, <2>3, HeaderFacts DEF PlaceInv, Infl, Blocked
  <2>12. pc[t] \notin Prep /\ pc'[t] \notin Prep \cup Users
    BY <1>1, <2>3 DEF Prep, Users
  <2>. QED
    BY <1>2, <2>2, <2>3, <2>4, <2>7, <2>8, <2>9, <2>10, <2>11, <2>12, PlainStep
<1>5. CASE ~Unchanged(t)
  <2>1. /\ box' = [box EXCEPT ![t] = unused_mark] /\ UNCHANGED <<inner, mark, seen>>
        /\ pc' = [pc EXCEPT ![t] = "inflate"] /\ ret' = [ret EXCEPT ![t] = "enter"]
    BY <1>1, <1>5 DEF EnterCas, set_displaced_header, inflate, Goto
  <2>2. TypeOK'
    BY <1>1, <1>2, <2>1 DEF TypeOK, Label, poolVars
  <2>3. Others(t) /\ pc'[t] = "inflate" /\ ret'[t] = "enter" /\ box'[t] = unused_mark
    BY <1>1, <1>2, <2>1 DEF TypeOK, Others, Same
  <2>4. Pending(t)' /\ ~Owning(t)'
    BY <1>1, <2>1, <2>3 DEF Pending, Owning
  <2>5. Quiet(t)
    BY <1>1, <1>2, <1>3, <2>1, <2>3, <2>4 DEF Quiet, Prep, Blocked
  <2>6. PlaceInv(t)' /\ UserInv(t)' /\ ShapeInv(t)'
    BY <1>1, <1>2, <2>1, <2>3, <2>4, MarkFacts DEF PlaceInv, UserInv, ShapeInv, Users, Infl, Blocked
  <2>. QED
    BY <1>2, <2>2, <2>5, <2>6, QuietHash, QuietStep
<1>. QED
  BY <1>4, <1>5

\* The CAS of fast_exit().
LEMMA ExitCasInv ==
  ASSUME Inv, NEW t \in Thread, ExitCas(t)
  PROVE  Inv'
<1>1. /\ TypeOK /\ PlaceInv(t) /\ ShapeInv(t) /\ pc[t] = "exitCas" /\ HashInv /\ HeaderInv
      /\ box[t] # None /\ displaced_header(t) # recursive
  BY DEF Inv, ThreadInv, ExitCas, At, PlaceInv
<1>2. UNCHANGED <<header, object, owner, recursions, contenders, poolVars, seen, mon, hash,
                  save, returned, calls>>
  BY DEF ExitCas, monVars
<1>3. CASE mark # Locked(t)
  <2>1. /\ UNCHANGED <<mark, box, inner>> /\ calls' \in [Thread -> Nat]
        /\ pc' = [pc EXCEPT ![t] = "inflate"] /\ ret' = [ret EXCEPT ![t] = "exit"]
    BY <1>1, <1>2, <1>3 DEF ExitCas, inflate, Goto, stackVars, TypeOK
  <2>. QED
    BY <1>1, <1>2, <2>1, ToInflate
<1>4. CASE mark = Locked(t)
  <2>1. /\ mark' = displaced_header(t) /\ Pop(t) /\ pc' = [pc EXCEPT ![t] = "run"]
        /\ UNCHANGED ret
    BY <1>4 DEF ExitCas, Goto
  <2>2. has_locker(mark) /\ ~has_monitor(mark) /\ ~is_neutral(mark) /\ mark # INFLATING
    BY <1>4, MarkFacts
  <2>3. /\ \A u \in Thread : Owning(u) <=> u = t
        /\ \A u \in Thread : pc[u] \notin Users /\ pc[u] \notin Stalling
    BY <1>4, <2>2, OwnerFacts
  <2>4. inner[t] = <<>>
    <3>1. ~Pending(t) /\ Recursions = 0
      BY <1>1, <2>2 DEF Pending, Recursions
    <3>2. Counted(inner[t], 0)
      BY <1>1, <2>3, <3>1 DEF ShapeInv
    <3>3. \A n \in Nat : Counted(inner[t], n) /\ inner[t] # <<>> => n > 0
      BY <1>1, <2>1, PopFacts
    <3>. QED
      BY SMT, <3>2, <3>3
  <2>5. mark' = box[t] /\ mark' \in Header /\ box'[t] = None /\ inner'[t] = <<>>
    BY <1>1, <1>4, <2>1, <2>4, PopFacts DEF displaced_header, HeaderInv
  <2>6. is_neutral(mark') /\ mark' # INFLATING /\ ~has_monitor(mark') /\ mark' \in Mark
        /\ mark' = Neutral(mark'[2])
    BY <2>5, HeaderFacts
  <2>7. TypeOK'
    BY <1>1, <1>2, <2>1, <2>6, PopFacts DEF TypeOK, Label, poolVars
  <2>8. Others(t) /\ pc'[t] = "run"
    BY <1>1, <1>2, <2>1, PopFacts DEF TypeOK, Others, Same
  <2>9. \A u \in Thread : ~Owning(u)' /\ pc'[u] \notin Users /\ pc'[u] \notin Stalling
    <3>1. ~Owning(t)'
      BY <2>5 DEF Owning
    <3>2. \A u \in Thread : u # t => ~Owning(u)'
      BY ZenonT(30), <2>3, <2>8 DEF Owning, Pending, Others, Same
    <3>. QED
      BY <2>3, <2>8, <3>1, <3>2 DEF Others, Same, Users, Stalling
  <2>10. \A u \in Thread : OwnInv(u)'
    BY <2>6, <2>9, MarkFacts DEF OwnInv, LockOwner
  <2>11. \A u \in Thread : ShapeInv(u)'
    BY <2>9 DEF ShapeInv, Users
  <2>12. HeaderInv'
    BY <2>6, <2>9, MarkFacts DEF HeaderInv
  <2>13. HashInv'
    <3>1. ASSUME NEW a, Current(a) PROVE Current(a)'
      BY SMT, <1>4, <2>5, <2>6, <2>9, <3>1, MarkFacts DEF Current
    <3>. QED
      BY <1>1, <1>2, <3>1 DEF HashInv
  <2>14. PlaceInv(t)'
    BY <1>1, <1>2, <2>5, <2>8 DEF PlaceInv, Infl, Blocked
  <2>15. pc[t] \notin Prep /\ pc'[t] \notin Prep \cup Users
    BY <1>1, <2>8 DEF Prep, Users
  <2>. QED
    BY <1>2, <2>2, <2>6, <2>7, <2>8, <2>10, <2>11, <2>12, <2>13, <2>14, <2>15, PlainStep
<1>. QED
  BY <1>3, <1>4

\* The CAS of FastHashCode() on the mark word.
LEMMA HashCasInv ==
  ASSUME Inv, NEW t \in Thread, HashCas(t)
  PROVE  Inv'
<1>1. /\ TypeOK /\ PlaceInv(t) /\ ShapeInv(t) /\ pc[t] = "hashCas" /\ HashInv
      /\ seen[t] = Neutral(0) /\ hash[t] \in Hash
  BY DEF Inv, ThreadInv, HashCas, At, PlaceInv
<1>2. UNCHANGED <<box, inner, header, object, owner, recursions, contenders, poolVars, calls>>
  BY DEF HashCas, stackVars, monVars
<1>3. CASE ~Unchanged(t)
  <2>1. /\ UNCHANGED <<mark, returned, seen, mon, hash, save>> /\ calls' \in [Thread -> Nat]
        /\ pc' = [pc EXCEPT ![t] = "inflate"] /\ ret' = [ret EXCEPT ![t] = "hash"]
    BY <1>1, <1>2, <1>3 DEF HashCas, inflate, Goto, TypeOK
  <2>. QED
    BY <1>1, <1>2, <2>1, ToInflate
<1>4. CASE Unchanged(t)
  <2>1. /\ mark = Neutral(0) /\ mark' = Neutral(hash[t]) /\ UNCHANGED ret
        /\ returned' = returned \cup {hash[t]} /\ pc' = [pc EXCEPT ![t] = "run"]
        /\ seen' = [seen EXCEPT ![t] = Neutral(0)] /\ mon' = [mon EXCEPT ![t] = NULL]
        /\ hash' = [hash EXCEPT ![t] = 0] /\ save' = [save EXCEPT ![t] = 0]
    BY <1>1, <1>4 DEF HashCas, Unchanged, Return, Goto, Forget
  <2>2. TypeOK'
    <3>1. Neutral(0) \in Mark /\ Neutral(hash[t]) \in Mark /\ "run" \in Label
      BY <1>1 DEF Mark, Header, Label
    <3>. QED
      BY <1>1, <1>2, <2>1, <3>1 DEF TypeOK, poolVars
  <2>3. Others(t) /\ pc'[t] = "run" /\ save'[t] = 0
    BY ZenonT(30), <1>1, <1>2, <2>1 DEF TypeOK, Others, Same
  <2>4. /\ is_neutral(mark) /\ ~has_monitor(mark) /\ mark # INFLATING
        /\ is_neutral(mark') /\ mark' # INFLATING
    BY <2>1, MarkFacts
  <2>5. \A u \in Thread : ~Owning(u) /\ pc[u] \notin Users /\ pc[u] \notin Stalling
    BY <2>4, OwnerFacts
  <2>6. \A u \in Thread : ~Owning(u)' /\ pc'[u] \notin Users /\ pc'[u] \notin Stalling
    <3>1. Pending(t)' <=> Pending(t)
      BY <1>1, <2>3 DEF Pending
    <3>2. ~Owning(t)'
      BY <1>1, <1>2, <2>3, <2>5, <3>1 DEF Owning
    <3>3. \A u \in Thread : u # t => ~Owning(u)'
      BY ZenonT(30), <2>3, <2>5 DEF Owning, Pending, Others, Same
    <3>. QED
      BY <2>3, <2>5, <3>2, <3>3 DEF Others, Same, Users, Stalling
  <2>7. \A u \in Thread : OwnInv(u)'
    BY <2>1, <2>6, MarkFacts DEF OwnInv, LockOwner
  <2>8. \A u \in Thread : ShapeInv(u)'
    BY <2>6 DEF ShapeInv, Users
  <2>9. HeaderInv'
    BY <2>1, <2>6, MarkFacts DEF HeaderInv
  <2>10. HashInv'
    <3>1. returned = {}
      BY <1>1, <2>1, <2>4, MarkFacts, ConstantsAssumption DEF HashInv, Current
    <3>2. PICK h \in Hash : h = hash[t]
      BY <1>1
    <3>3. Current(h)'
      BY <2>1, <2>6, <3>2, MarkFacts DEF Current
    <3>. QED
      BY <2>1, <3>1, <3>2, <3>3 DEF HashInv
  <2>11. PlaceInv(t)'
    BY <1>1, <1>2, <2>3 DEF PlaceInv, Infl, Blocked
  <2>12. pc[t] \notin Prep /\ pc'[t] \notin Prep \cup Users
    BY <1>1, <2>3 DEF Prep, Users
  <2>. QED
    BY <1>2, <2>2, <2>3, <2>4, <2>7, <2>8, <2>9, <2>10, <2>11, <2>12, PlainStep
<1>. QED
  BY <1>3, <1>4

----------------------------------------------------------------------------
(* The monitor in the mark word.                                           *)

\* A step of t on the monitor m that leaves the ownership of others alone.
OnMark(t, m) ==
  /\ mark = Inflated(m) /\ Others(t) /\ UNCHANGED <<mark, object, poolVars>>
  /\ pc[t] \in Users /\ pc'[t] \notin Prep
  /\ \A n \in Monitor : n # m =>
       /\ header'[n] = header[n] /\ owner'[n] = owner[n] /\ recursions'[n] = recursions[n]
       /\ contenders'[n] = contenders[n]
  /\ owner'[m] = NULL => recursions'[m] = 0
  /\ contenders'[m] = {u \in Thread : pc'[u] \in Blocked}
  /\ \A u \in Thread : u # t =>
       /\ is_entered(u, m)' <=> is_entered(u, m)
       /\ is_entered(u, m) => recursions'[m] = recursions[m]
  /\ Owning(t)' <=> is_entered(t, m)'

\* Such a step keeps the invariant, if it keeps what concerns t and m.
LEMMA OnMarkStep ==
  ASSUME Inv, NEW t \in Thread, NEW m \in Monitor, OnMark(t, m), TypeOK', PlaceInv(t)',
         UserInv(t)', ShapeInv(t)', HashInv' \/ UNCHANGED <<header, returned>>
  PROVE  Inv'
<1>1. TypeOK /\ PoolInv /\ MonitorInv
  BY DEF Inv
<1>2. /\ mark = Inflated(m) /\ mark' = Inflated(m) /\ mark # INFLATING
      /\ \A n : mark = Inflated(n) <=> n = m
  BY MarkFacts DEF OnMark
<1>3. \A u \in Thread : /\ pc[u] \notin Stalling /\ pc'[u] \notin Stalling
                        /\ pc'[u] \in Prep => u # t /\ pc[u] \in Prep /\ Same(u)
                        /\ pc[u] \in Prep => u # t
  <2>1. \A u \in Thread : pc[u] \notin Stalling
    BY <1>2, OwnerFacts
  <2>2. pc[t] \notin Prep /\ pc'[t] \notin Prep /\ \A u \in Thread : u # t => Same(u)
    BY DEF OnMark, Others, Prep, Users
  <2>3. \A u \in Thread : u # t => pc'[u] = pc[u]
    BY <2>2 DEF Same
  <2>4. Stalling \subseteq Prep
    BY DEF Stalling, Prep
  <2>. QED  BY <2>1, <2>2, <2>3, <2>4
<1>4. \A u \in Thread : PlaceInv(u)' /\ UserInv(u)'
  BY OthersPlace, OthersUser DEF OnMark
<1>5. \A u \in Thread : Owning(u)' <=> is_entered(u, m)'
  <2>. SUFFICES ASSUME NEW u \in Thread, u # t PROVE Owning(u)' <=> is_entered(u, m)'
    BY DEF OnMark
  <2>1. Owning(u)' <=> Owning(u)
    BY DEF OnMark, Others, Same, Owning, Pending
  <2>. QED
    BY <1>2, <2>1, OwnerFacts DEF OnMark
<1>6. \A u \in Thread : OwnInv(u)'
  <2>1. \A u \in Thread : LockOwner(u)' <=> is_entered(u, m)'
    BY <1>2, <1>3, MarkFacts DEF LockOwner
  <2>. QED
    BY <1>5, <2>1 DEF OwnInv
<1>7. \A u \in Thread : ShapeInv(u)'
  <2>. SUFFICES ASSUME NEW u \in Thread, u # t PROVE ShapeInv(u)'
    OBVIOUS
  <2>1. Same(u) /\ ShapeInv(u)
    BY DEF OnMark, Others, Inv, ThreadInv
  <2>2. (Pending(u)' <=> Pending(u)) /\ (Owning(u)' <=> Owning(u))
    BY <2>1 DEF Same, Owning, Pending
  <2>3. Owning(u) => Recursions' = Recursions
    <3>1. Recursions = recursions[m] /\ Recursions' = recursions'[m]
      BY <1>2, MarkFacts DEF Recursions
    <3>. QED
      BY <1>2, <3>1, OwnerFacts DEF OnMark
  <2>. QED
    BY <2>1, <2>2, <2>3 DEF Same, ShapeInv
<1>8. \A u \in Thread : PrepInv(u)'
  <2>. SUFFICES ASSUME NEW u \in Thread, pc'[u] \in Prep PROVE PrepInv(u)'
    BY DEF PrepInv, Prep
  <2>1. Same(u) /\ PrepInv(u) /\ pc'[u] # "publish" /\ mon[u] # m /\ mon[u] \in Monitor
    BY <1>1, <1>2, <1>3 DEF Inv, ThreadInv, Stalling, PoolInv, TypeOK
  <2>. QED
    BY ZenonT(30), <2>1 DEF PrepInv, Same, OnMark
<1>9. StallInv'
  BY <1>2, <1>3, MarkFacts DEF StallInv
<1>10. \A u \in Thread : \A n : Preparing(u, n)' <=> Preparing(u, n)
  <2>1. \A u \in Thread : pc[u] \in Prep => Same(u)
    BY <1>3 DEF OnMark, Others
  <2>. QED
    BY <1>3, <2>1 DEF Preparing, Same, Prep
<1>11. PoolInv'
  <2>1. \A n \in Monitor : Free(n)' <=> Free(n)
    BY DEF Free, poolVars, OnMark
  <2>2. \A u \in Thread : pc'[u] \in Prep => pc[u] \in Prep /\ mon'[u] = mon[u]
    BY <1>3 DEF Same
  <2>3. UNCHANGED <<mark, omFreeList, gFreeList, extant>>
    BY DEF OnMark, poolVars
  <2>. QED
    BY <1>1, <1>10, <2>1, <2>2, <2>3 DEF PoolInv, TypeOK
<1>12. MonitorInv'
  <2>1. \A n \in Monitor : n # m => owner'[n] = owner[n] /\ contenders'[n] = contenders[n]
    BY DEF OnMark
  <2>2. /\ UNCHANGED <<mark, object>> /\ (owner'[m] = NULL => recursions'[m] = 0)
        /\ contenders'[m] = {u \in Thread : pc'[u] \in Blocked}
    BY DEF OnMark
  <2>. QED
    BY <1>1, <1>2, <1>10, <2>1, <2>2 DEF MonitorInv
<1>13. HeaderInv'
  BY <1>2, <1>3, MarkFacts DEF HeaderInv
<1>14. HashInv'
  <2>1. CASE UNCHANGED <<header, returned>>
    <3>1. ASSUME NEW a, Current(a) PROVE Current(a)'
      BY <1>2, <1>3, <2>1, <3>1, MarkFacts DEF Current
    <3>. QED
      BY <2>1, <3>1 DEF HashInv, Inv
  <2>. QED
    BY <2>1
<1>. QED
  BY <1>4, <1>6, <1>7, <1>8, <1>9, <1>11, <1>12, <1>13, <1>14 DEF Inv, ThreadInv

\* What a thread at a step on its monitor knows.
LEMMA UserFacts ==
  ASSUME Inv, NEW t \in Thread, pc[t] \in Users
  PROVE  /\ TypeOK /\ PlaceInv(t) /\ ShapeInv(t) /\ HashInv
         /\ mon[t] \in Monitor /\ mark = Inflated(mon[t])
         /\ \A u \in Thread : Owning(u) <=> is_entered(u, mon[t])
         /\ owner[mon[t]] = NULL => recursions[mon[t]] = 0
         /\ contenders[mon[t]] = {u \in Thread : pc[u] \in Blocked}
         /\ Recursions = recursions[mon[t]] /\ recursions[mon[t]] \in Nat
         /\ \A u \in Thread : owner[mon[t]] = NULL => ~is_entered(u, mon[t])
         /\ \A u \in Thread : is_entered(t, mon[t]) /\ is_entered(u, mon[t]) => u = t
<1>1. /\ TypeOK /\ PlaceInv(t) /\ ShapeInv(t) /\ HashInv /\ MonitorInv
      /\ mon[t] \in Monitor /\ mark = Inflated(mon[t])
  BY DEF Inv, ThreadInv, UserInv
<1>2. \A u \in Thread : Owning(u) <=> is_entered(u, mon[t])
  BY <1>1, OwnerFacts
<1>3. /\ owner[mon[t]] = NULL => recursions[mon[t]] = 0
      /\ contenders[mon[t]] = {u \in Thread : pc[u] \in Blocked}
  BY <1>1 DEF MonitorInv
<1>4. Recursions = recursions[mon[t]] /\ recursions[mon[t]] \in Nat
  BY <1>1, MarkFacts DEF Recursions, TypeOK
<1>5. /\ \A u \in Thread : owner[mon[t]] = NULL => ~is_entered(u, mon[t])
      /\ \A u \in Thread : is_entered(t, mon[t]) /\ is_entered(u, mon[t]) => u = t
  BY OwnerNames DEF is_entered
<1>. QED
  BY <1>1, <1>2, <1>3, <1>4, <1>5

\* The monitor is entered, or t blocks.
LEMMA enterInv ==
  ASSUME Inv, NEW t \in Thread, enter(t)
  PROVE  Inv'
<1>0. PICK m : m = mon[t]
  OBVIOUS
<1>1. pc[t] = "enter" /\ pc[t] \in Users
  BY DEF enter, At, Users
<1>2. /\ TypeOK /\ PlaceInv(t) /\ ShapeInv(t) /\ m \in Monitor /\ mark = Inflated(m)
      /\ (Owning(t) <=> is_entered(t, m)) /\ (owner[m] = NULL => recursions[m] = 0)
      /\ contenders[m] = {u \in Thread : pc[u] \in Blocked}
      /\ Recursions = recursions[m] /\ recursions[m] \in Nat
      /\ \A u \in Thread : owner[m] = NULL => ~is_entered(u, m)
      /\ \A u \in Thread : is_entered(t, m) /\ is_entered(u, m) => u = t
  BY <1>0, <1>1, UserFacts
<1>3. UNCHANGED <<mark, box, inner, header, object, poolVars, ret, returned, calls>>
  BY DEF enter, stackVars
<1>4. ret[t] = "enter" /\ Pending(t) /\ box[t] # None
  BY <1>1, <1>2 DEF PlaceInv, Pending
<1>5. ~Owning(t) => inner[t] = <<>>
  BY <1>1, <1>4 DEF Owning
<1>6. CASE owner[m] = NULL \/ is_entered(t, m)
  <2>1. /\ owner' = [owner EXCEPT ![m] = t] /\ UNCHANGED contenders
        /\ recursions' = IF owner[m] = NULL THEN recursions
                         ELSE [recursions EXCEPT ![m] = @ + 1]
        /\ pc' = [pc EXCEPT ![t] = "run"]
        /\ seen' = [seen EXCEPT ![t] = Neutral(0)] /\ mon' = [mon EXCEPT ![t] = NULL]
        /\ hash' = [hash EXCEPT ![t] = 0] /\ save' = [save EXCEPT ![t] = 0]
    BY <1>0, <1>2, <1>6 DEF enter, Given, Goto, Forget
  <2>2. TypeOK'
    <3>1. recursions' \in [Monitor -> Nat]
          /\ owner' \in [Monitor -> Thread \cup {NULL} \cup {BasicLock(u) : u \in Thread}]
      BY SMT, <1>2, <2>1 DEF TypeOK
    <3>2. Neutral(0) \in Mark /\ "run" \in Label
      BY DEF Mark, Header, Label
    <3>. QED
      BY <1>2, <1>3, <2>1, <3>1, <3>2 DEF TypeOK, poolVars
  <2>3. Others(t) /\ pc'[t] = "run" /\ save'[t] = 0 /\ owner'[m] = t
    BY <1>2, <1>3, <2>1 DEF TypeOK, Others, Same
  <2>4. ~Pending(t)' /\ Owning(t)'
    BY <1>3, <1>4, <2>3 DEF Pending, Owning
  <2>5. \A u \in Thread : u # t => ~is_entered(u, m)' /\ ~is_entered(u, m)
    BY <1>2, <1>6, <2>3, OwnerNames DEF is_entered
  <2>6. OnMark(t, m)
    <3>1. {u \in Thread : pc'[u] \in Blocked} = {u \in Thread : pc[u] \in Blocked}
      BY <1>1, <2>3 DEF Others, Same, Blocked
    <3>2. \A n \in Monitor : n # m =>
            /\ header'[n] = header[n] /\ owner'[n] = owner[n]
            /\ recursions'[n] = recursions[n] /\ contenders'[n] = contenders[n]
      BY <1>2, <1>3, <2>1 DEF TypeOK
    <3>3. is_entered(t, m)' /\ owner'[m] # NULL
      BY <2>3, OwnerNames DEF is_entered
    <3>4. contenders'[m] = contenders[m] /\ pc'[t] \notin Prep
      BY <2>1, <2>3 DEF Prep
    <3>. QED
      BY <1>1, <1>2, <1>3, <2>3, <2>4, <2>5, <3>1, <3>2, <3>3, <3>4 DEF OnMark
  <2>7. PlaceInv(t)' /\ UserInv(t)'
    BY <1>2, <1>3, <1>4, <2>3 DEF PlaceInv, UserInv, Users, Infl, Blocked
  <2>8. ShapeInv(t)'
    <3>1. Recursions' = recursions'[m]
      BY <1>2, <1>3, MarkFacts DEF Recursions
    <3>2. Counted(inner[t], recursions'[m])
      <4>1. CASE owner[m] = NULL
        BY <1>2, <1>5, <2>1, <4>1, CountedNone
      <4>2. CASE owner[m] # NULL
        <5>1. recursions'[m] = recursions[m] + 1
          BY <1>2, <2>1, <4>2 DEF TypeOK
        <5>. QED
          BY <1>2, <1>4, <1>6, <4>2, <5>1 DEF ShapeInv
      <4>. QED
        BY <4>1, <4>2
    <3>. QED
      BY ZenonT(30), <1>3, <2>3, <2>4, <3>1, <3>2 DEF ShapeInv
  <2>. QED
    BY <1>2, <1>3, <2>2, <2>6, <2>7, <2>8, OnMarkStep
<1>7. CASE ~(owner[m] = NULL \/ is_entered(t, m))
  <2>1. /\ contenders' = [contenders EXCEPT ![m] = @ \cup {t}]
        /\ pc' = [pc EXCEPT ![t] = "blocked"]
        /\ UNCHANGED <<owner, recursions, seen, mon, hash, save>>
    BY <1>0, <1>7 DEF enter, Goto
  <2>2. TypeOK'
    BY ZenonT(30), <1>2, <1>3, <2>1 DEF TypeOK, Label, poolVars
  <2>3. Others(t) /\ pc'[t] = "blocked" /\ contenders'[m] = contenders[m] \cup {t}
    BY <1>2, <1>3, <2>1 DEF TypeOK, Others, Same
  <2>4. ~Owning(t) /\ inner[t] = <<>> /\ Pending(t)' /\ ~Owning(t)'
    BY <1>2, <1>3, <1>4, <1>5, <1>7, <2>3 DEF Pending, Owning
  <2>5. OnMark(t, m)
    <3>1. contenders'[m] = {u \in Thread : pc'[u] \in Blocked}
      BY ZenonT(30), <1>1, <1>2, <2>3 DEF Others, Same, Blocked
    <3>2. \A n \in Monitor : n # m => contenders'[n] = contenders[n]
      BY <1>2, <2>1 DEF TypeOK
    <3>3. \A u \in Thread : is_entered(u, m)' <=> is_entered(u, m)
      BY <2>1 DEF is_entered
    <3>4. pc'[t] \notin Prep
      BY <2>3 DEF Prep
    <3>. QED
      BY ZenonT(30), <1>1, <1>2, <1>3, <1>7, <2>1, <2>3, <2>4, <3>1, <3>2, <3>3, <3>4 DEF OnMark
  <2>6. PlaceInv(t)' /\ UserInv(t)' /\ ShapeInv(t)'
    <3>1. PlaceInv(t)'
      <4>1. save'[t] = 0 /\ box'[t] # None /\ inner'[t] = <<>> /\ ret'[t] = "enter"
        BY <1>1, <1>2, <1>3, <1>4, <2>1, <2>4 DEF PlaceInv
      <4>. QED
        BY <2>3, <4>1 DEF PlaceInv, Infl, Blocked
    <3>2. UserInv(t)'
      BY <1>0, <1>2, <1>3, <2>1 DEF UserInv
    <3>3. ShapeInv(t)'
      BY <2>3, <2>4 DEF ShapeInv
    <3>. QED
      BY <3>1, <3>2, <3>3
  <2>. QED
    BY <1>2, <1>3, <2>2, <2>5, <2>6, OnMarkStep
<1>. QED
  BY <1>6, <1>7

\* A blocked or waiting thread gets the monitor.
LEMMA AcquireInv ==
  ASSUME Inv, NEW t \in Thread, Acquire(t)
  PROVE  Inv'
<1>0. PICK m : m = mon[t]
  OBVIOUS
<1>1. pc[t] \in Blocked /\ pc[t] \in Users
  BY DEF Acquire, At, Users, Blocked
<1>2. /\ TypeOK /\ PlaceInv(t) /\ ShapeInv(t) /\ m \in Monitor /\ mark = Inflated(m)
      /\ contenders[m] = {u \in Thread : pc[u] \in Blocked}
      /\ \A u \in Thread : owner[m] = NULL => ~is_entered(u, m)
  BY <1>0, <1>1, UserFacts
<1>3. /\ UNCHANGED <<mark, box, inner, header, object, poolVars, ret, returned, calls>>
      /\ owner[m] = NULL /\ owner' = [owner EXCEPT ![m] = t]
      /\ contenders' = [contenders EXCEPT ![m] = @ \ {t}]
      /\ recursions' = [recursions EXCEPT ![m] = save[t]]
      /\ pc' = [pc EXCEPT ![t] = "run"]
      /\ seen' = [seen EXCEPT ![t] = Neutral(0)] /\ mon' = [mon EXCEPT ![t] = NULL]
      /\ hash' = [hash EXCEPT ![t] = 0] /\ save' = [save EXCEPT ![t] = 0]
  BY <1>0 DEF Acquire, Given, Goto, Forget, stackVars
<1>4. TypeOK'
  <2>1. /\ recursions' \in [Monitor -> Nat] /\ contenders' \in [Monitor -> SUBSET Thread]
        /\ owner' \in [Monitor -> Thread \cup {NULL} \cup {BasicLock(u) : u \in Thread}]
    BY <1>2, <1>3 DEF TypeOK
  <2>2. Neutral(0) \in Mark /\ "run" \in Label
    BY DEF Mark, Header, Label
  <2>. QED
    BY <1>2, <1>3, <2>1, <2>2 DEF TypeOK, poolVars
<1>5. /\ Others(t) /\ pc'[t] = "run" /\ save'[t] = 0 /\ owner'[m] = t
      /\ recursions'[m] = save[t] /\ contenders'[m] = contenders[m] \ {t}
  BY <1>2, <1>3 DEF TypeOK, Others, Same
<1>6. box[t] # None /\ ~Pending(t)' /\ Owning(t)'
  BY <1>1, <1>2, <1>3, <1>5 DEF PlaceInv, Blocked, Pending, Owning
<1>7. Counted(inner[t], save[t])
  <2>1. CASE pc[t] = "waiting"
    BY <1>2, <2>1 DEF ShapeInv
  <2>2. CASE pc[t] = "blocked"
    BY <1>2, <2>2, CountedNone DEF PlaceInv
  <2>. QED
    BY <1>1, <2>1, <2>2 DEF Blocked
<1>8. OnMark(t, m)
  <2>1. contenders'[m] = {u \in Thread : pc'[u] \in Blocked}
    BY ZenonT(30), <1>1, <1>2, <1>5 DEF Others, Same, Blocked
  <2>2. \A n \in Monitor : n # m =>
          /\ header'[n] = header[n] /\ owner'[n] = owner[n]
          /\ recursions'[n] = recursions[n] /\ contenders'[n] = contenders[n]
    BY <1>2, <1>3 DEF TypeOK
  <2>3. is_entered(t, m)' /\ owner'[m] # NULL
    BY <1>5, OwnerNames DEF is_entered
  <2>4. \A u \in Thread : u # t => ~is_entered(u, m)' /\ ~is_entered(u, m)
    BY SMT, <1>2, <1>3, <1>5, OwnerNames DEF is_entered
  <2>5. pc'[t] \notin Prep
    BY <1>5 DEF Prep
  <2>. QED
    BY ZenonT(30), <1>1, <1>2, <1>3, <1>5, <1>6, <2>1, <2>2, <2>3, <2>4, <2>5 DEF OnMark
<1>9. PlaceInv(t)' /\ UserInv(t)'
  BY <1>2, <1>3, <1>5, <1>6 DEF PlaceInv, UserInv, Users, Infl, Blocked
<1>10. ShapeInv(t)'
  <2>1. Recursions' = recursions'[m]
    BY <1>2, <1>3, MarkFacts DEF Recursions
  <2>. QED
    BY <1>3, <1>5, <1>6, <1>7, <2>1 DEF ShapeInv
<1>. QED
  BY <1>2, <1>3, <1>4, <1>8, <1>9, <1>10, OnMarkStep

----------------------------------------------------------------------------
(* The steps that give the monitor up.                                     *)

\* wait() gives it up.
LEMMA WaitInv ==
  ASSUME Inv, NEW t \in Thread, Wait(t)
  PROVE  Inv'
<1>0. PICK m : m = mon[t]
  OBVIOUS
<1>1. pc[t] = "wait" /\ pc[t] \in Users
  BY DEF Wait, Step, At, Users
<1>2. /\ TypeOK /\ PlaceInv(t) /\ ShapeInv(t) /\ m \in Monitor /\ mark = Inflated(m)
      /\ (Owning(t) <=> is_entered(t, m)) /\ Recursions = recursions[m] /\ recursions[m] \in Nat
      /\ contenders[m] = {u \in Thread : pc[u] \in Blocked}
      /\ \A u \in Thread : is_entered(t, m) /\ is_entered(u, m) => u = t
  BY <1>0, <1>1, UserFacts
<1>3. /\ UNCHANGED <<mark, box, inner, header, object, poolVars, ret, seen, mon, hash, returned,
                     calls>>
      /\ owner' = [owner EXCEPT ![m] = NULL] /\ save' = [save EXCEPT ![t] = recursions[m]]
      /\ contenders' = [contenders EXCEPT ![m] = @ \cup {t}]
      /\ recursions' = [recursions EXCEPT ![m] = 0]
      /\ pc' = [pc EXCEPT ![t] = "waiting"]
  BY <1>0 DEF Wait, Step, Given, Goto, stackVars
<1>4. TypeOK'
  <2>1. /\ recursions' \in [Monitor -> Nat] /\ contenders' \in [Monitor -> SUBSET Thread]
        /\ owner' \in [Monitor -> Thread \cup {NULL} \cup {BasicLock(u) : u \in Thread}]
    BY <1>2, <1>3 DEF TypeOK
  <2>. QED
    BY <1>2, <1>3, <2>1 DEF TypeOK, Label, poolVars
<1>5. /\ Others(t) /\ pc'[t] = "waiting" /\ save'[t] = recursions[m] /\ owner'[m] = NULL
      /\ recursions'[m] = 0 /\ contenders'[m] = contenders[m] \cup {t}
  BY <1>2, <1>3 DEF TypeOK, Others, Same
<1>6. box[t] # None /\ ~Pending(t) /\ Owning(t) /\ ~Owning(t)'
  BY <1>1, <1>2, <1>3, <1>5 DEF PlaceInv, Pending, Owning
<1>7. Counted(inner[t], recursions[m])
  BY <1>2, <1>6 DEF ShapeInv
<1>8. OnMark(t, m)
  <2>1. contenders'[m] = {u \in Thread : pc'[u] \in Blocked}
    BY ZenonT(30), <1>1, <1>2, <1>5 DEF Others, Same, Blocked
  <2>2. \A n \in Monitor : n # m =>
          /\ header'[n] = header[n] /\ owner'[n] = owner[n]
          /\ recursions'[n] = recursions[n] /\ contenders'[n] = contenders[n]
    BY <1>2, <1>3 DEF TypeOK
  <2>3. \A u \in Thread : ~is_entered(u, m)'
    BY <1>5, OwnerNames DEF is_entered
  <2>4. \A u \in Thread : u # t => ~is_entered(u, m)
    BY <1>2, <1>6
  <2>5. pc'[t] \notin Prep
    BY <1>5 DEF Prep
  <2>. QED
    BY ZenonT(30), <1>1, <1>2, <1>3, <1>5, <1>6, <2>1, <2>2, <2>3, <2>4, <2>5 DEF OnMark
<1>9. PlaceInv(t)' /\ UserInv(t)'
  <2>1. PlaceInv(t)'
    BY <1>2, <1>3, <1>5, <1>6 DEF PlaceInv, Infl, Blocked
  <2>2. UserInv(t)'
    BY <1>0, <1>2, <1>3 DEF UserInv
  <2>. QED
    BY <2>1, <2>2
<1>10. ShapeInv(t)'
  BY <1>3, <1>5, <1>6, <1>7 DEF ShapeInv
<1>. QED
  BY <1>2, <1>3, <1>4, <1>8, <1>9, <1>10, OnMarkStep

\* exit() takes one entry off, or gives the monitor up.
LEMMA exitInv ==
  ASSUME Inv, NEW t \in Thread, exit(t)
  PROVE  Inv'
<1>0. PICK m : m = mon[t]
  OBVIOUS
<1>1. pc[t] = "exit" /\ pc[t] \in Users
  BY DEF exit, Step, At, Users
<1>2. /\ TypeOK /\ PlaceInv(t) /\ ShapeInv(t) /\ m \in Monitor /\ mark = Inflated(m)
      /\ (Owning(t) <=> is_entered(t, m)) /\ Recursions = recursions[m] /\ recursions[m] \in Nat
      /\ contenders[m] = {u \in Thread : pc[u] \in Blocked}
      /\ \A u \in Thread : is_entered(t, m) /\ is_entered(u, m) => u = t
  BY <1>0, <1>1, UserFacts
<1>3. /\ UNCHANGED <<mark, header, object, contenders, poolVars, ret, returned, calls>>
      /\ Pop(t) /\ pc' = [pc EXCEPT ![t] = "run"]
      /\ owner' = [owner EXCEPT ![m] = IF recursions[m] # 0 THEN t ELSE NULL]
      /\ recursions' = IF recursions[m] # 0 THEN [recursions EXCEPT ![m] = @ - 1]
                       ELSE recursions
      /\ seen' = [seen EXCEPT ![t] = Neutral(0)] /\ mon' = [mon EXCEPT ![t] = NULL]
      /\ hash' = [hash EXCEPT ![t] = 0] /\ save' = [save EXCEPT ![t] = 0]
  BY <1>0 DEF exit, Step, Nested, Given, Goto, Forget
<1>4. /\ box[t] # None /\ displaced_header(t) # recursive /\ ~Pending(t) /\ Owning(t)
      /\ Counted(inner[t], recursions[m])
  <2>1. box[t] # None /\ displaced_header(t) # recursive /\ ~Pending(t)
    BY <1>1, <1>2 DEF PlaceInv, Pending
  <2>2. Owning(t)
    BY <1>1, <2>1 DEF Owning
  <2>. QED
    BY <1>2, <2>1, <2>2 DEF ShapeInv
<1>5. /\ recursions[m] = 0 => inner[t] = <<>> /\ box'[t] = None /\ inner'[t] = <<>>
      /\ recursions[m] # 0 => box'[t] # None /\ Counted(inner'[t], recursions[m] - 1)
  BY SMT, <1>2, <1>3, <1>4, PopFacts
<1>6. TypeOK'
  <2>1. /\ recursions' \in [Monitor -> Nat]
        /\ owner' \in [Monitor -> Thread \cup {NULL} \cup {BasicLock(u) : u \in Thread}]
    BY SMT, <1>2, <1>3 DEF TypeOK
  <2>2. Neutral(0) \in Mark /\ "run" \in Label
    BY DEF Mark, Header, Label
  <2>. QED
    BY <1>2, <1>3, <2>1, <2>2, PopFacts DEF TypeOK, poolVars
<1>7. /\ Others(t) /\ pc'[t] = "run" /\ save'[t] = 0
      /\ recursions[m] # 0 => owner'[m] = t /\ recursions'[m] = recursions[m] - 1
      /\ recursions[m] = 0 => owner'[m] = NULL /\ recursions'[m] = 0
  <2>1. Others(t)
    BY ZenonT(30), <1>2, <1>3, PopFacts DEF TypeOK, Others, Same
  <2>. QED
    BY <1>2, <1>3, <2>1 DEF TypeOK
<1>8. ~Pending(t)' /\ (Owning(t)' <=> recursions[m] # 0)
  BY <1>5, <1>7 DEF Pending, Owning
<1>9. OnMark(t, m)
  <2>1. {u \in Thread : pc'[u] \in Blocked} = {u \in Thread : pc[u] \in Blocked}
    BY <1>1, <1>7 DEF Others, Same, Blocked
  <2>2. \A n \in Monitor : n # m =>
          /\ header'[n] = header[n] /\ owner'[n] = owner[n]
          /\ recursions'[n] = recursions[n] /\ contenders'[n] = contenders[n]
    BY <1>2, <1>3 DEF TypeOK
  <2>3. is_entered(t, m)' <=> recursions[m] # 0
    BY <1>7, OwnerNames DEF is_entered
  <2>4. \A u \in Thread : u # t => ~is_entered(u, m)' /\ ~is_entered(u, m)
    BY <1>2, <1>4, <1>7, OwnerNames DEF is_entered
  <2>5. pc'[t] \notin Prep /\ (owner'[m] = NULL => recursions'[m] = 0)
    BY <1>7, OwnerNames DEF Prep
  <2>. QED
    BY <1>1, <1>2, <1>3, <1>7, <1>8, <2>1, <2>2, <2>3, <2>4, <2>5 DEF OnMark
<1>10. PlaceInv(t)' /\ UserInv(t)'
  BY <1>5, <1>7 DEF PlaceInv, UserInv, Users, Infl, Blocked
<1>11. ShapeInv(t)'
  <2>1. Recursions' = recursions'[m]
    BY <1>2, <1>3, MarkFacts DEF Recursions
  <2>. QED
    BY <1>5, <1>7, <1>8, <2>1 DEF ShapeInv
<1>. QED
  BY <1>2, <1>3, <1>6, <1>9, <1>10, <1>11, OnMarkStep

\* The CAS of FastHashCode() on the monitor's header.
LEMMA HeaderCasInv ==
  ASSUME Inv, NEW t \in Thread, HeaderCas(t)
  PROVE  Inv'
<1>0. PICK m : m = mon[t]
  OBVIOUS
<1>1. pc[t] = "headerCas" /\ pc[t] \in Users
  BY DEF HeaderCas, At, Users
<1>2. /\ TypeOK /\ PlaceInv(t) /\ ShapeInv(t) /\ m \in Monitor /\ mark = Inflated(m)
      /\ HashInv /\ contenders[m] = {u \in Thread : pc[u] \in Blocked}
      /\ (owner[m] = NULL => recursions[m] = 0) /\ (Owning(t) <=> is_entered(t, m))
  BY <1>0, <1>1, UserFacts
<1>3. UNCHANGED <<mark, box, inner, object, owner, recursions, contenders, poolVars, ret, calls>>
  BY DEF HeaderCas, stackVars, monVars
<1>4. CASE header[m] # Neutral(0)
  <2>1. header[m] = Neutral(header[m][2]) /\ header[m][2] \in Hash
    BY <1>2, <1>4, HeaderFacts DEF TypeOK
  <2>2. Current(header[m][2])
    BY <1>2, <2>1, CurrentIs
  <2>3. Return(t, header[m][2]) /\ UNCHANGED header /\ calls' \in [Thread -> Nat]
    BY <1>0, <1>2, <1>3, <1>4 DEF HeaderCas, TypeOK
  <2>. QED
    BY <1>1, <1>3, <2>1, <2>2, <2>3, ReturnStep
<1>5. CASE header[m] = Neutral(0)
  <2>0. PICK h \in Hash : h = hash[t]
    BY <1>1, <1>2 DEF PlaceInv
  <2>1. /\ header' = [header EXCEPT ![m] = Neutral(h)]
        /\ returned' = returned \cup {h} /\ pc' = [pc EXCEPT ![t] = "run"]
        /\ seen' = [seen EXCEPT ![t] = Neutral(0)] /\ mon' = [mon EXCEPT ![t] = NULL]
        /\ hash' = [hash EXCEPT ![t] = 0] /\ save' = [save EXCEPT ![t] = 0]
    BY <1>0, <1>5, <2>0 DEF HeaderCas, Return, Goto, Forget
  <2>2. TypeOK'
    <3>1. Neutral(0) \in Mark /\ Neutral(h) \in Header /\ "run" \in Label
      BY DEF Mark, Header, Label
    <3>. QED
      BY <1>2, <1>3, <2>1, <3>1 DEF TypeOK, poolVars
  <2>3. Others(t) /\ pc'[t] = "run" /\ save'[t] = 0 /\ header'[m] = Neutral(h)
    BY <1>2, <1>3, <2>1 DEF TypeOK, Others, Same
  <2>4. ~Pending(t) /\ ~Pending(t)' /\ (Owning(t)' <=> Owning(t))
    BY <1>1, <1>3, <2>3 DEF Pending, Owning
  <2>5. OnMark(t, m)
    <3>1. {u \in Thread : pc'[u] \in Blocked} = {u \in Thread : pc[u] \in Blocked}
      BY <1>1, <2>3 DEF Others, Same, Blocked
    <3>2. \A n \in Monitor : n # m => header'[n] = header[n]
      BY <1>2, <2>1 DEF TypeOK
    <3>3. \A u \in Thread : is_entered(u, m)' <=> is_entered(u, m)
      BY <1>3 DEF is_entered
    <3>4. pc'[t] \notin Prep
      BY <2>3 DEF Prep
    <3>. QED
      BY <1>1, <1>2, <1>3, <2>3, <2>4, <3>1, <3>2, <3>3, <3>4 DEF OnMark
  <2>6. PlaceInv(t)' /\ UserInv(t)'
    BY <1>2, <1>3, <2>3 DEF PlaceInv, UserInv, Users, Infl, Blocked
  <2>7. ShapeInv(t)'
    BY <1>1, <1>2, <1>3, <2>3, <2>4 DEF ShapeInv, Recursions
  <2>8. HashInv'
    <3>1. returned = {}
      BY SMT, <1>2, <1>5, MarkFacts, ConstantsAssumption DEF HashInv, Current
    <3>2. \A u \in Thread : pc'[u] \notin Stalling
      BY <1>2, <2>3, OwnerFacts, MarkFacts DEF Others, Same, Stalling
    <3>3. Current(h)'
      BY <1>2, <1>3, <2>3, <3>2, MarkFacts DEF Current
    <3>. QED
      BY <2>1, <3>1, <3>3 DEF HashInv
  <2>. QED
    BY <1>2, <2>2, <2>5, <2>6, <2>7, <2>8, OnMarkStep
<1>. QED
  BY <1>4, <1>5

----------------------------------------------------------------------------
(* Deflation.                                                              *)

\* At a safepoint an idle monitor gives the header back to the mark word.
LEMMA deflate_idle_monitorsInv ==
  ASSUME Inv, deflate_idle_monitors
  PROVE  Inv'
<1>1. TypeOK /\ PoolInv /\ MonitorInv /\ HashInv /\ \A u \in Thread : PlaceInv(u)
  BY DEF Inv, ThreadInv
<1>2. PICK m \in extant \cap object :
        /\ ~is_busy(m) /\ mark' = header[m] /\ object' = object \ {m}
        /\ gFreeList' = gFreeList \cup {m}
  BY DEF deflate_idle_monitors
<1>3. UNCHANGED <<box, inner, header, owner, recursions, contenders, omFreeList, extant, pc,
                  ret, seen, mon, hash, save, returned, calls>>
  BY DEF deflate_idle_monitors, stackVars, monVars
<1>4. \A u \in Thread : pc[u] \notin Prep /\ pc[u] \notin Stalling
                        /\ (pc[u] \in Users => pc[u] \in Blocked)
  BY DEF deflate_idle_monitors, AtSafepoint, Prep, Stalling, Users, Blocked
<1>5. \A n \in Monitor, u \in Thread : ~Preparing(u, n) /\ ~Preparing(u, n)'
  BY <1>3, <1>4 DEF Preparing, Prep
<1>6. /\ m \in Monitor /\ mark = Inflated(m) /\ owner[m] = NULL /\ contenders[m] = {}
      /\ \A n \in Monitor : mark = Inflated(n) <=> n = m
  BY <1>1, <1>2, <1>5, MarkFacts DEF TypeOK, MonitorInv, is_busy
<1>7. \A u \in Thread : pc[u] \notin Users /\ ~Owning(u)
  <2>1. \A u \in Thread : pc[u] \notin Blocked
    BY <1>1, <1>6 DEF MonitorInv
  <2>2. \A u \in Thread : ~is_entered(u, m)
    BY <1>6, OwnerNames DEF is_entered
  <2>. QED
    BY <1>4, <1>6, <2>1, <2>2, OwnerFacts
<1>8. /\ mark' \in Header /\ mark' \in Mark /\ is_neutral(mark') /\ mark' # INFLATING
      /\ mark' = Neutral(mark'[2])
      /\ \A n \in Monitor : mark' # Inflated(n)
      /\ \A u \in Thread : mark' # Locked(u)
  BY SMT, <1>1, <1>2, <1>6, HeaderFacts, MarkFacts DEF TypeOK
<1>9. TypeOK'
  BY <1>1, <1>2, <1>3, <1>6, <1>8 DEF TypeOK
<1>10. \A u \in Thread : PlaceInv(u)' /\ UserInv(u)' /\ PrepInv(u)'
  <2>1. \A u \in Thread : PlaceInv(u)'
    BY SMT, <1>1, <1>3 DEF PlaceInv, displaced_header
  <2>2. \A u \in Thread : UserInv(u)' /\ PrepInv(u)'
    BY <1>3, <1>4, <1>7 DEF UserInv, PrepInv, Prep
  <2>. QED
    BY <2>1, <2>2
<1>11. \A u \in Thread : ~Owning(u)' /\ pc'[u] # "waiting"
  BY <1>3, <1>7 DEF Owning, Pending, Users
<1>12. \A u \in Thread : OwnInv(u)' /\ ShapeInv(u)'
  <2>1. \A u \in Thread : ~LockOwner(u)'
    BY <1>3, <1>4, <1>8 DEF LockOwner
  <2>. QED
    BY <1>11, <2>1 DEF OwnInv, ShapeInv
<1>13. StallInv' /\ HeaderInv'
  BY <1>3, <1>4, <1>8 DEF StallInv, HeaderInv
<1>14. PoolInv'
  <2>1. \A n \in Monitor : Free(n)' <=> Free(n) \/ n = m
    BY <1>2, <1>3 DEF Free
  <2>2. ~Free(m) /\ m \in extant
    BY <1>1, <1>2, <1>6 DEF PoolInv
  <2>3. \A n \in Monitor : Free(n)' =>
          n \in extant' /\ mark' # Inflated(n) /\ \A u \in Thread : ~Preparing(u, n)'
    BY <1>1, <1>3, <1>5, <1>8, <2>1, <2>2 DEF PoolInv
  <2>4. /\ \A u \in Thread : omFreeList'[u] \cap gFreeList' = {}
        /\ \A u, v \in Thread : u # v => omFreeList'[u] \cap omFreeList'[v] = {}
    BY SMT, <1>1, <1>2, <1>3, <2>2 DEF PoolInv, Free
  <2>5. \A u \in Thread : pc'[u] \notin Prep
    BY <1>3, <1>4
  <2>6. \A n \in extant' : Free(n)'
    BY <1>1, <1>3, <1>5, <1>6, <2>1 DEF PoolInv, TypeOK
  <2>. QED
    BY <1>8, <2>3, <2>4, <2>5, <2>6 DEF PoolInv
<1>15. MonitorInv'
  BY <1>1, <1>2, <1>3, <1>5, <1>6, <1>8 DEF MonitorInv
<1>16. HashInv'
  <2>1. ASSUME NEW a, Current(a) PROVE Current(a)'
    BY <1>2, <1>3, <1>4, <1>6, <1>8, <2>1 DEF Current
  <2>. QED
    BY <1>1, <1>3, <2>1 DEF HashInv
<1>. QED
  BY <1>9, <1>10, <1>12, <1>13, <1>14, <1>15, <1>16 DEF Inv, ThreadInv

----------------------------------------------------------------------------
(* The theorems.                                                           *)

\* The invariant holds at first,
LEMMA InitInv == Init => Inv
<1>. SUFFICES ASSUME Init PROVE Inv
  OBVIOUS
<1>1. /\ Neutral(0) \in Mark /\ Neutral(0) \in Header /\ "run" \in Label
      /\ is_neutral(Neutral(0))
      /\ Neutral(0) # INFLATING /\ \A a : Neutral(0) # Locked(a) /\ Neutral(0) # Inflated(a)
  BY MarkFacts DEF Mark, Header, Label
<1>2. TypeOK
  BY SMT, <1>1, ConstantsAssumption DEF Init, TypeOK
<1>3. \A t \in Thread : PlaceInv(t) /\ UserInv(t) /\ PrepInv(t) /\ ~Owning(t) /\ ~LockOwner(t)
                        /\ ShapeInv(t)
  <2>. SUFFICES ASSUME NEW t \in Thread
                PROVE  PlaceInv(t) /\ UserInv(t) /\ PrepInv(t) /\ ~Owning(t) /\ ~LockOwner(t)
                       /\ ShapeInv(t)
    OBVIOUS
  <2>1. pc[t] = "run" /\ box[t] = None /\ inner[t] = <<>> /\ save[t] = 0
    BY DEF Init
  <2>2. PlaceInv(t) /\ UserInv(t) /\ PrepInv(t)
    BY <2>1 DEF PlaceInv, UserInv, PrepInv, Users, Prep, Infl, Blocked
  <2>3. ~Owning(t) /\ ShapeInv(t)
    BY <2>1 DEF Owning, ShapeInv
  <2>4. ~LockOwner(t)
    BY <1>1 DEF Init, LockOwner, Stalling
  <2>. QED
    BY <2>2, <2>3, <2>4
<1>4. StallInv /\ HeaderInv /\ HashInv
  BY <1>1 DEF Init, StallInv, HeaderInv, HashInv, Stalling
<1>5. PoolInv
  BY <1>1 DEF Init, PoolInv, Free, Prep
<1>6. MonitorInv
  BY <1>1 DEF Init, MonitorInv
<1>. QED
  BY <1>2, <1>3, <1>4, <1>5, <1>6 DEF Inv, ThreadInv, OwnInv

\* and every step keeps it:
LEMMA NextInv == Inv /\ [Next]_vars => Inv'
<1>. SUFFICES ASSUME Inv, [Next]_vars PROVE Inv'
  OBVIOUS
<1>1. ASSUME NEW t \in Thread, InflateSteps(t) PROVE Inv'
  BY <1>1, ReadMarkInv, ReprovisionInv, omAllocInv, CasLockedInv, CopyInv, PublishInv,
     CasNeutralInv DEF InflateSteps
<1>2. ASSUME NEW t \in Thread, LockSteps(t) PROVE Inv'
  BY <1>2, EnterCasInv, fast_exitInv, ExitCasInv, enterInv, AcquireInv, exitInv, WaitInv
     DEF LockSteps
<1>3. ASSUME NEW t \in Thread, HashSteps(t) PROVE Inv'
  BY <1>3, HashCasInv, HashMonitorInv, HashInflatedInv, HeaderCasInv DEF HashSteps
<1>4. ASSUME NEW t \in Thread, \/ fast_enter(t) \/ wait(t) \/ FastHashCode(t)
                                \/ remove(t) \/ omFlush(t)
      PROVE  Inv'
  BY <1>4, fast_enterInv, waitInv, FastHashCodeInv, removeInv, omFlushInv
<1>5. CASE deflate_idle_monitors
  BY <1>5, deflate_idle_monitorsInv
<1>6. CASE UNCHANGED vars
  <2>1. UNCHANGED <<mark, box, inner, header, object, owner, recursions, contenders,
                    omFreeList, gFreeList, extant, pc, ret, seen, mon, hash, save,
                    returned, calls>>
    BY <1>6 DEF vars, stackVars, monVars, poolVars
  <2>2. TypeOK' /\ StallInv' /\ PoolInv' /\ MonitorInv' /\ HeaderInv' /\ HashInv'
    <3>1. TypeOK'
      BY <2>1 DEF Inv, TypeOK
    <3>2. StallInv' /\ HeaderInv'
      BY <2>1 DEF Inv, StallInv, HeaderInv
    <3>3. PoolInv'
      BY <2>1 DEF Inv, PoolInv, Free, Preparing
    <3>4. MonitorInv'
      BY <2>1 DEF Inv, MonitorInv, Preparing
    <3>5. HashInv'
      BY <2>1 DEF Inv, HashInv, Current
    <3>. QED
      BY <3>1, <3>2, <3>3, <3>4, <3>5
  <2>3. ASSUME NEW t \in Thread PROVE ThreadInv(t)'
    <3>1. ThreadInv(t)
      BY DEF Inv
    <3>2. (Pending(t)' <=> Pending(t)) /\ (Owning(t)' <=> Owning(t)) /\ Recursions' = Recursions
      BY <2>1 DEF Pending, Owning, Recursions
    <3>3. PlaceInv(t)' /\ UserInv(t)' /\ PrepInv(t)'
      BY SMT, <2>1, <3>1 DEF ThreadInv, PlaceInv, displaced_header, UserInv, PrepInv
    <3>4. OwnInv(t)' /\ ShapeInv(t)'
      BY <2>1, <3>1, <3>2 DEF ThreadInv, OwnInv, LockOwner, is_entered, ShapeInv
    <3>. QED
      BY <3>3, <3>4 DEF ThreadInv
  <2>. QED
    BY <2>2, <2>3 DEF Inv
<1>. QED
  BY <1>1, <1>2, <1>3, <1>4, <1>5, <1>6 DEF Next, Run

\* it is an invariant of the synchronizer, for every number of threads, monitors,
\* hash codes and calls.
THEOREM Invariance == Spec => []Inv
<1>. QED
  BY InitInv, NextInv, PTL DEF Spec

\* Type correctness, with the depth of a monitor never below 0: exit() is only called
\* by the owner, and as often as it entered.
THEOREM TypeCorrect == Spec => []TypeOK
<1>1. Inv => TypeOK
  BY DEF Inv
<1>. QED
  BY <1>1, Invariance, PTL

\* FastHashCode() never returns two different hash codes for the object.
THEOREM HashIsStable == Spec => []HashStable
<1>1. Inv => HashStable
  <2>. SUFFICES ASSUME Inv, NEW a \in returned, NEW b \in returned PROVE a = b /\ a # 0
    BY DEF HashStable
  <2>1. a \in Hash /\ Current(a) /\ Current(b) /\ TypeOK /\ StallInv
    BY DEF Inv, HashInv
  <2>2. a # 0
    BY <2>1, ConstantsAssumption
  <2>3. Neutral(a) = Neutral(b)
    <3>1. mark \in Mark
      BY <2>1 DEF TypeOK
    <3>2. CASE is_neutral(mark)
      BY <2>1, <3>2 DEF Current
    <3>3. CASE has_locker(mark)
      BY SMT, <2>1, <3>1, <3>3, MarkCases DEF Current
    <3>4. CASE has_monitor(mark)
      BY SMT, <2>1, <3>1, <3>4, MarkCases DEF Current
    <3>5. CASE mark = INFLATING
      BY SMT, <2>1, <3>5 DEF Current, StallInv
    <3>. QED
      BY <3>1, <3>2, <3>3, <3>4, <3>5, MarkCases
  <2>. QED
    BY <2>2, <2>3, MarkFacts
<1>. QED
  BY <1>1, Invariance, PTL

\* No monitor is lost and none is in two places.
THEOREM MonitorsAccounted == Spec => []Accounted
<1>1. Inv => Accounted
  <2>. SUFFICES ASSUME Inv PROVE Accounted
    OBVIOUS
  <2>1. PoolInv /\ extant \subseteq Monitor
    BY DEF Inv, TypeOK
  <2>2. \A t, u \in Thread, m \in Monitor : Preparing(t, m) /\ Preparing(u, m) => t = u
    BY SMT, <2>1 DEF PoolInv, Preparing, Prep
  <2>3. \A t \in Thread, m \in Monitor : Preparing(t, m) => mark # Inflated(m)
    BY <2>1 DEF PoolInv, Preparing, Prep
  <2>. QED
    BY <2>1, <2>2, <2>3 DEF Accounted, PoolInv, Free
<1>. QED
  BY <1>1, Invariance, PTL

\* The guarantees of the allocator and of deflate_idle_monitors() hold.
THEOREM GuaranteesHold == Spec => []Guarantees
<1>1. Inv => Guarantees
  <2>. SUFFICES ASSUME Inv PROVE Guarantees
    OBVIOUS
  <2>1. PoolInv /\ MonitorInv /\ extant \subseteq Monitor /\ \A t \in Thread : UserInv(t)
    BY DEF Inv, ThreadInv, TypeOK
  <2>2. ASSUME NEW m \in extant, m \in gFreeList \cup UNION {omFreeList[t] : t \in Thread}
        PROVE  m \notin object /\ ~is_busy(m)
    BY SMT, <2>1, <2>2 DEF PoolInv, Free, MonitorInv, is_busy
  <2>3. ASSUME \A t \in Thread : AtSafepoint(t), NEW m \in extant \cap object
        PROVE  mark = Inflated(m)
    BY <2>1, <2>3 DEF AtSafepoint, MonitorInv, Preparing
  <2>4. \A t \in Thread :
          pc[t] \in {"enter", "blocked", "exit", "wait", "waiting", "hashMonitor", "hash",
                     "headerCas"} => mark = Inflated(mon[t])
    BY <2>1 DEF UserInv, Users
  <2>. QED
    BY <2>2, <2>3, <2>4 DEF Guarantees
<1>. QED
  BY <1>1, Invariance, PTL

----------------------------------------------------------------------------
(* ObjectSynchronizer implements JavaMonitor.  The invariant is needed to  *)
(* know that the holder is one thread, and that an entry is complete only  *)
(* when nobody else has the object.                                        *)

\* What a step does to the other threads' entries: nothing.
LEMMA OthersDepth ==
  ASSUME NEW t \in Thread, Others(t)
  PROVE  \A u \in Thread : u # t => Depth(u)' = Depth(u) /\ (HasIt(u)' <=> HasIt(u))
BY ZenonT(30) DEF Others, Same, Depth, HasIt, Pending, Entries

\* Entries are counted.
LEMMA EntriesType ==
  ASSUME TypeOK, NEW t \in Thread
  PROVE  /\ Entries(t) \in Nat /\ Depth(t) \in Int
         /\ box[t] # None => Entries(t) = 1 + Len(inner[t])
         /\ Entries(t) > 0 <=> box[t] # None
         /\ inner[t] = <<>> <=> Len(inner[t]) = 0
         /\ Len(inner[t]) \in Nat
<1>1. inner[t] \in Seq(Header \cup {unused_mark, recursive})
  BY DEF TypeOK
<1>2. Len(inner[t]) \in Nat /\ (inner[t] = <<>> <=> Len(inner[t]) = 0)
  BY SMT, <1>1
<1>. QED
  BY SMT, <1>2 DEF Entries, Depth

\* The thread that has the object is its owner.
LEMMA HasItOwns ==
  ASSUME Inv, NEW t \in Thread
  PROVE  HasIt(t) <=> Owning(t)
BY SMT, EntriesType DEF Inv, HasIt, Depth, Owning

\* One thread at most owns the object.
LEMMA OneOwner ==
  ASSUME Inv, NEW t \in Thread, NEW u \in Thread, HasIt(t), HasIt(u)
  PROVE  t = u
<1>1. Owning(t) /\ Owning(u) /\ mark \in Mark /\ StallInv
  BY HasItOwns DEF Inv, TypeOK
<1>2. CASE is_neutral(mark)
  BY <1>1, <1>2, OwnerFacts
<1>3. CASE has_locker(mark)
  BY ZenonT(30), <1>1, <1>3, OwnerFacts, MarkCases
<1>4. CASE has_monitor(mark)
  <2>1. PICK m \in Monitor : mark = Inflated(m)
    BY <1>1, <1>4, MarkCases
  <2>2. is_entered(t, m) /\ is_entered(u, m)
    BY <1>1, <2>1, OwnerFacts
  <2>. QED
    BY <2>2, OwnerNames DEF is_entered
<1>5. CASE mark = INFLATING
  BY SMT, <1>1, <1>5, OwnerFacts DEF StallInv
<1>. QED
  BY <1>1, <1>2, <1>3, <1>4, <1>5, MarkCases

\* Nobody has the object.
Nobody == \A u \in Thread : ~HasIt(u)

\* The holder of the abstract monitor is the owner.
HolderInv ==
  /\ \A t \in Thread : (HasIt(t) <=> Holder = t) /\ Depth(t) \in Int
  /\ Nobody <=> Holder = NULL

\* So it follows from the invariant.
LEMMA HolderIs == Inv => HolderInv
<1>. SUFFICES ASSUME Inv PROVE HolderInv
  OBVIOUS
<1>1. NULL \notin Thread
  BY ConstantsAssumption
<1>2. \A t \in Thread : Depth(t) \in Int
  BY EntriesType DEF Inv
<1>. QED
  BY <1>1, <1>2, OneOwner DEF Holder, HolderInv, Nobody

----------------------------------------------------------------------------
(* The kinds of steps.                                                     *)

\* A step of t in the eyes of the abstract monitor: none, or one of its actions.
AbsStep(t) ==
  \/ Depth(t)' = Depth(t) /\ (HasIt(t)' <=> HasIt(t))
  \/ Nobody /\ Depth(t) = 0 /\ Depth(t)' = 1 /\ pc'[t] # "waiting"
  \/ HasIt(t) /\ Depth(t)' = Depth(t) + 1 /\ pc'[t] # "waiting"
  \/ HasIt(t) /\ Depth(t)' = Depth(t) - 1 /\ pc'[t] # "waiting"
  \/ HasIt(t) /\ Depth(t)' = Depth(t) /\ pc'[t] = "waiting"
  \/ Nobody /\ Depth(t) > 0 /\ Depth(t)' = Depth(t) /\ pc'[t] # "waiting"

\* A step that is one of these and leaves the other threads alone is a step of the
\* abstract monitor, or none.
LEMMA MonitorStep ==
  ASSUME Inv, Inv', NEW t \in Thread, Others(t), AbsStep(t)
  PROVE  [Abs!Next]_(Abs!vars)
<1>. DEFINE D == [u \in Thread |-> Depth(u)]
<1>1. /\ \A u \in Thread : u # t => Depth(u)' = Depth(u) /\ (HasIt(u)' <=> HasIt(u))
      /\ Depth(t) \in Int /\ Depth(t)' \in Int
  <2>1. HolderInv /\ HolderInv'
    BY HolderIs, PTL
  <2>. QED
    BY <2>1, OthersDepth DEF HolderInv
<1>2. /\ \A u \in Thread : HasIt(u) <=> Holder = u
      /\ Nobody <=> Holder = NULL
  BY HolderIs DEF HolderInv
<1>3. /\ \A u \in Thread : HasIt(u)' <=> Holder' = u
      /\ (\A u \in Thread : ~HasIt(u)') <=> Holder' = NULL
  <2>1. HolderInv'
    BY HolderIs, PTL
  <2>. QED
    BY <2>1 DEF HolderInv, Nobody
<1>4. D' = [D EXCEPT ![t] = Depth(t)']
  BY <1>1
<1>5. (HasIt(t) <=> Depth(t) > 0 /\ pc[t] # "waiting")
      /\ (HasIt(t)' <=> Depth(t)' > 0 /\ pc'[t] # "waiting")
  BY DEF HasIt
<1>6. CASE Depth(t)' = Depth(t) /\ (HasIt(t)' <=> HasIt(t))
  <2>1. D' = D
    BY <1>1, <1>6
  <2>2. Holder' = Holder
    <3>1. \A u \in Thread : HasIt(u)' <=> HasIt(u)
      BY <1>1, <1>6
    <3>2. CASE Nobody
      BY <1>2, <1>3, <3>1, <3>2 DEF Nobody
    <3>3. CASE ~Nobody
      BY <1>2, <1>3, <3>1, <3>3 DEF Nobody
    <3>. QED
      BY <3>2, <3>3
  <2>. QED
    BY <2>1, <2>2 DEF Abs!vars
<1>7. CASE Nobody /\ Depth(t) = 0 /\ Depth(t)' = 1 /\ pc'[t] # "waiting"
  <2>1. Holder = NULL /\ Holder' = t /\ D' = [D EXCEPT ![t] = 1] /\ D[t] = 0
    BY SMT, <1>2, <1>3, <1>4, <1>5, <1>7
  <2>. QED
    BY <2>1 DEF Abs!Next, Abs!Enter
<1>8. CASE HasIt(t) /\ Depth(t)' = Depth(t) + 1 /\ pc'[t] # "waiting"
  <2>1. Holder = t /\ Holder' = t /\ D' = [D EXCEPT ![t] = @ + 1]
    BY SMT, <1>1, <1>2, <1>3, <1>4, <1>5, <1>8
  <2>. QED
    BY <2>1 DEF Abs!Next, Abs!EnterAgain
<1>9. CASE HasIt(t) /\ Depth(t)' = Depth(t) - 1 /\ pc'[t] # "waiting"
  <2>1. Holder = t /\ D' = [D EXCEPT ![t] = @ - 1]
    BY <1>2, <1>4, <1>9
  <2>2. \A u \in Thread : u # t => ~HasIt(u)'
    BY <1>1, <1>2, <2>1
  <2>3. Holder' = IF D[t] = 1 THEN NULL ELSE t
    BY SMT, <1>1, <1>3, <1>5, <1>9, <2>2
  <2>. QED
    BY <2>1, <2>3 DEF Abs!Next, Abs!Exit
<1>10. CASE HasIt(t) /\ Depth(t)' = Depth(t) /\ pc'[t] = "waiting"
  <2>1. Holder = t /\ D' = D
    BY <1>1, <1>2, <1>10
  <2>2. \A u \in Thread : ~HasIt(u)'
    BY <1>1, <1>2, <1>5, <1>10, <2>1
  <2>3. Holder' = NULL
    BY <1>3, <2>2
  <2>4. Abs!Release(t, FALSE)
    BY <2>1, <2>3 DEF Abs!Release
  <2>. QED
    BY <2>4 DEF Abs!Next
<1>11. CASE Nobody /\ Depth(t) > 0 /\ Depth(t)' = Depth(t) /\ pc'[t] # "waiting"
  <2>1. Holder = NULL /\ Holder' = t /\ D' = D /\ D[t] > 0
    BY <1>1, <1>2, <1>3, <1>5, <1>11
  <2>. QED
    BY <2>1 DEF Abs!Next, Abs!Resume
<1>. QED
  BY <1>6, <1>7, <1>8, <1>9, <1>10, <1>11 DEF AbsStep
----------------------------------------------------------------------------
(* The steps of the synchronizer, each as a step of the abstract monitor.  *)

\* A step that leaves the BasicLocks of t as they are, and its entry as complete
\* as it was, is none of the abstract monitor.
LEMMA SameEntries ==
  ASSUME NEW t \in Thread, box'[t] = box[t], inner'[t] = inner[t],
         Pending(t)' <=> Pending(t), pc[t] # "waiting", pc'[t] # "waiting"
  PROVE  AbsStep(t)
<1>1. Entries(t)' = Entries(t)
  BY DEF Entries
<1>2. Depth(t)' = Depth(t)
  BY <1>1 DEF Depth
<1>. QED
  BY <1>2 DEF AbsStep, HasIt

\* Inflation keeps the entries of all threads.
LEMMA InflateMaps ==
  ASSUME Inv, NEW t \in Thread, InflateSteps(t)
  PROVE  Others(t) /\ AbsStep(t)
<1>1. /\ pc \in [Thread -> Label] /\ ret \in [Thread -> {"enter", "exit", "wait", "hash"}]
      /\ seen \in [Thread -> Mark] /\ mon \in [Thread -> Monitor \cup {NULL}]
  BY DEF Inv, TypeOK
<1>2. /\ Others(t) /\ UNCHANGED <<box, inner, ret>>
      /\ pc[t] \in Infl /\ pc'[t] \in Infl \cup {ret[t]}
  <2>1. UNCHANGED <<box, inner, ret, hash, save>>
    BY DEF InflateSteps, ReadMark, Reprovision, omAlloc, CasLocked, Copy, Publish, CasNeutral,
           stackVars
  <2>2. CASE ReadMark(t)
    BY <1>1, <2>1, <2>2 DEF ReadMark, Others, Same, Goto, At, Infl
  <2>3. CASE Reprovision(t)
    BY <1>1, <2>1, <2>3 DEF Reprovision, Others, Same, At, Infl
  <2>4. CASE omAlloc(t)
    BY ZenonT(30), <1>1, <2>1, <2>4 DEF omAlloc, Others, Same, Goto, At, Infl
  <2>5. CASE CasLocked(t)
    BY <1>1, <2>1, <2>5 DEF CasLocked, Others, Same, Goto, At, Infl
  <2>6. CASE Copy(t)
    BY <1>1, <2>1, <2>6 DEF Copy, Others, Same, Step, Goto, At, Infl
  <2>7. CASE Publish(t)
    BY <1>1, <2>1, <2>7 DEF Publish, Others, Same, Step, Goto, At, Infl
  <2>8. CASE CasNeutral(t)
    BY ZenonT(30), <1>1, <2>1, <2>8 DEF CasNeutral, Others, Same, Goto, At, Infl
  <2>. QED
    BY <2>2, <2>3, <2>4, <2>5, <2>6, <2>7, <2>8 DEF InflateSteps
<1>3. Pending(t)' <=> Pending(t)
  BY <1>1, <1>2 DEF Pending, Infl
<1>4. pc[t] # "waiting" /\ pc'[t] # "waiting"
  BY <1>1, <1>2 DEF Infl
<1>. QED
  BY <1>2, <1>3, <1>4, SameEntries

\* FastHashCode() keeps them too.
LEMMA HashMaps ==
  ASSUME Inv, NEW t \in Thread, FastHashCode(t) \/ HashSteps(t)
  PROVE  Others(t) /\ AbsStep(t)
<1>1. /\ pc \in [Thread -> Label] /\ ret \in [Thread -> {"enter", "exit", "wait", "hash"}]
      /\ seen \in [Thread -> Mark] /\ mon \in [Thread -> Monitor \cup {NULL}]
      /\ hash \in [Thread -> Hash \cup {0}] /\ save \in [Thread -> Nat]
  BY DEF Inv, TypeOK
<1>2. UNCHANGED <<box, inner>>
  BY DEF FastHashCode, HashSteps, HashCas, HashMonitor, HashInflated, HeaderCas, stackVars
<1>3. /\ Others(t) /\ pc[t] \in {"run", "hashCas", "hashMonitor", "hash", "headerCas"}
      /\ \/ pc'[t] \in {"run", "hashCas", "hashMonitor", "hash", "headerCas"}
         \/ pc'[t] = "inflate" /\ ret'[t] = "hash"
  <2>1. CASE FastHashCode(t)
    BY SMT, <1>1, <1>2, <2>1 DEF FastHashCode, Start, At, Return, Forget, inflate, Goto, Others, Same
  <2>2. CASE HashCas(t)
    BY SMT, <1>1, <1>2, <2>2 DEF HashCas, At, Return, Forget, inflate, Goto, Others, Same
  <2>3. CASE HashMonitor(t)
    BY SMT, <1>1, <1>2, <2>3 DEF HashMonitor, At, Return, Forget, inflate, Goto, Others, Same
  <2>4. CASE HashInflated(t)
    BY SMT, <1>1, <1>2, <2>4 DEF HashInflated, At, Return, Forget, Goto, Others, Same
  <2>5. CASE HeaderCas(t)
    BY SMT, <1>1, <1>2, <2>5 DEF HeaderCas, At, Return, Forget, Goto, Others, Same
  <2>. QED
    BY <2>1, <2>2, <2>3, <2>4, <2>5 DEF HashSteps
<1>4. ~Pending(t) /\ ~Pending(t)'
  BY <1>3 DEF Pending
<1>. QED
  BY <1>2, <1>3, <1>4, SameEntries

\* A BasicLock more is an entry more,
LEMMA PushEntries ==
  ASSUME Inv, NEW t \in Thread, NEW d \in Header \cup {unused_mark, recursive}, Push(t, d),
         box[t] = None => d # None
  PROVE  /\ Entries(t)' = Entries(t) + 1
         /\ \A u \in Thread : u # t => box'[u] = box[u] /\ inner'[u] = inner[u]
<1>1. /\ box \in [Thread -> Header \cup {unused_mark, None}]
      /\ inner \in [Thread -> Seq(Header \cup {unused_mark, recursive})]
      /\ box[t] = None => inner[t] = <<>>
  BY DEF Inv, TypeOK, ThreadInv, PlaceInv
<1>2. CASE box[t] = None
  BY SMT, <1>1, <1>2 DEF Push, Entries
<1>3. CASE box[t] # None
  <2>1. box' = box /\ inner' = [inner EXCEPT ![t] = Append(@, d)]
    BY <1>3 DEF Push
  <2>2. Len(Append(inner[t], d)) = Len(inner[t]) + 1 /\ Len(inner[t]) \in Nat
    BY SMT, <1>1
  <2>. QED
    BY SMT, <1>1, <1>3, <2>1, <2>2 DEF Entries
<1>. QED
  BY <1>2, <1>3

\* and a BasicLock less is an entry less.
LEMMA PopEntries ==
  ASSUME Inv, NEW t \in Thread, box[t] # None, Pop(t)
  PROVE  /\ Entries(t)' = Entries(t) - 1
         /\ \A u \in Thread : u # t => box'[u] = box[u] /\ inner'[u] = inner[u]
<1>1. TypeOK
  BY DEF Inv
<1>2. inner[t] \in Seq(Header \cup {unused_mark, recursive})
  BY <1>1 DEF TypeOK
<1>3. CASE inner[t] = <<>>
  BY SMT, <1>1, <1>3, PopFacts DEF Entries
<1>4. CASE inner[t] # <<>>
  <2>1. Len(Front(inner[t])) = Len(inner[t]) - 1 /\ Len(inner[t]) \in Nat
    BY SMT, <1>2, <1>4, FrontFacts
  <2>. QED
    BY SMT, <1>1, <1>4, <2>1, PopFacts DEF Entries
<1>. QED
  BY <1>3, <1>4
\* fast_enter(): an entry that is not complete, or one more of a stack lock.
LEMMA fast_enterMaps ==
  ASSUME Inv, NEW t \in Thread, fast_enter(t)
  PROVE  Others(t) /\ AbsStep(t)
<1>1. /\ pc \in [Thread -> Label] /\ ret \in [Thread -> {"enter", "exit", "wait", "hash"}]
      /\ seen \in [Thread -> Mark] /\ mark \in Mark /\ Entries(t) \in Nat
  BY EntriesType DEF Inv, TypeOK
<1>2. pc[t] = "run" /\ UNCHANGED <<mon, hash, save>> /\ Depth(t) = Entries(t)
  BY DEF fast_enter, Start, At, Depth, Pending
<1>3. CASE is_neutral(mark)
  <2>1. mark \in Header /\ mark # None
    BY <1>1, <1>3, MarkCases, HeaderFacts
  <2>2. Push(t, mark) /\ seen' = [seen EXCEPT ![t] = mark] /\ pc' = [pc EXCEPT ![t] = "enterCas"]
        /\ ret' = ret
    BY <1>3, MarkFacts DEF fast_enter, Goto
  <2>3. /\ Entries(t)' = Entries(t) + 1
        /\ \A u \in Thread : u # t => box'[u] = box[u] /\ inner'[u] = inner[u]
    BY <2>1, <2>2, PushEntries
  <2>4. pc'[t] = "enterCas" /\ Pending(t)'
    BY <1>1, <2>2 DEF Pending
  <2>5. Depth(t)' = Depth(t)
    BY SMT, <1>1, <1>2, <2>3, <2>4 DEF Depth
  <2>6. Others(t)
    BY <1>1, <1>2, <2>2, <2>3 DEF Others, Same
  <2>. QED
    BY <1>2, <2>4, <2>5, <2>6 DEF AbsStep, HasIt
<1>4. CASE mark = Locked(t)
  <2>1. Push(t, recursive) /\ UNCHANGED <<seen, pc, ret>>
    BY <1>4, MarkFacts DEF fast_enter
  <2>2. /\ Entries(t)' = Entries(t) + 1
        /\ \A u \in Thread : u # t => box'[u] = box[u] /\ inner'[u] = inner[u]
    BY <2>1, PushEntries, MarkFacts
  <2>3. HasIt(t)
    BY <1>4, OwnerFacts, HasItOwns
  <2>4. Depth(t)' = Depth(t) + 1 /\ pc'[t] # "waiting"
    BY <1>2, <2>1, <2>2 DEF Depth, Pending
  <2>5. Others(t)
    BY <1>1, <1>2, <2>1, <2>2 DEF Others, Same
  <2>. QED
    BY <2>3, <2>4, <2>5 DEF AbsStep
<1>5. CASE ~is_neutral(mark) /\ mark # Locked(t)
  <2>1. Push(t, unused_mark) /\ pc' = [pc EXCEPT ![t] = "inflate"]
        /\ ret' = [ret EXCEPT ![t] = "enter"] /\ seen' = seen
    BY <1>5 DEF fast_enter, inflate, Goto
  <2>2. /\ Entries(t)' = Entries(t) + 1
        /\ \A u \in Thread : u # t => box'[u] = box[u] /\ inner'[u] = inner[u]
    BY <2>1, PushEntries, MarkFacts
  <2>3. pc'[t] = "inflate" /\ Pending(t)'
    BY <1>1, <2>1 DEF Pending
  <2>4. Depth(t)' = Depth(t)
    BY SMT, <1>1, <1>2, <2>2, <2>3 DEF Depth
  <2>5. Others(t)
    BY <1>1, <1>2, <2>1, <2>2 DEF Others, Same
  <2>. QED
    BY <1>2, <2>3, <2>4, <2>5 DEF AbsStep, HasIt
<1>. QED
  BY <1>3, <1>4, <1>5

\* EnterCas: the entry of a neutral object, when nobody has it.
LEMMA EnterCasMaps ==
  ASSUME Inv, NEW t \in Thread, EnterCas(t)
  PROVE  Others(t) /\ AbsStep(t)
<1>1. /\ pc \in [Thread -> Label] /\ ret \in [Thread -> {"enter", "exit", "wait", "hash"}]
      /\ seen \in [Thread -> Mark] /\ box \in [Thread -> Header \cup {unused_mark, None}]
  BY DEF Inv, TypeOK
<1>2. pc[t] = "enterCas" /\ UNCHANGED <<mon, hash, save>> /\ Pending(t)
  BY DEF EnterCas, At, Pending
<1>3. box[t] = seen[t] /\ seen[t] \in Header /\ inner[t] = <<>>
  BY <1>2 DEF Inv, ThreadInv, PlaceInv
<1>4. Entries(t) = 1 /\ Depth(t) = 0
  BY SMT, <1>2, <1>3, HeaderFacts DEF Entries, Depth
<1>5. CASE mark = seen[t]
  <2>1. /\ pc' = [pc EXCEPT ![t] = "run"] /\ seen' = [seen EXCEPT ![t] = Neutral(0)]
        /\ UNCHANGED <<box, inner, ret>>
    BY <1>5 DEF EnterCas, Unchanged, Goto, stackVars
  <2>2. Nobody
    BY <1>3, <1>5, HeaderFacts, OwnerFacts, HasItOwns DEF Nobody
  <2>3. Depth(t)' = 1 /\ pc'[t] # "waiting"
    BY <1>1, <1>4, <2>1 DEF Depth, Pending, Entries
  <2>4. Others(t)
    BY <1>1, <1>2, <2>1 DEF Others, Same
  <2>. QED
    BY <1>4, <2>2, <2>3, <2>4 DEF AbsStep
<1>6. CASE mark # seen[t]
  <2>1. /\ pc' = [pc EXCEPT ![t] = "inflate"] /\ ret' = [ret EXCEPT ![t] = "enter"]
        /\ box' = [box EXCEPT ![t] = unused_mark] /\ UNCHANGED <<inner, seen>>
    BY <1>3, <1>6 DEF EnterCas, Unchanged, Goto, inflate, set_displaced_header
  <2>2. Entries(t)' = 1 /\ Pending(t)' /\ pc'[t] = "inflate"
    BY SMT, <1>1, <1>3, <2>1, MarkFacts DEF Entries, Pending
  <2>3. Depth(t)' = 0
    BY SMT, <2>2 DEF Depth
  <2>4. Others(t)
    BY <1>1, <1>2, <2>1 DEF Others, Same
  <2>. QED
    BY SMT, <1>4, <2>2, <2>3, <2>4 DEF AbsStep, HasIt
<1>. QED
  BY <1>5, <1>6

\* A thread that leaves, by fast_exit(), its CAS or the monitor's exit(), has the object.
LEMMA PopMaps ==
  ASSUME Inv, NEW t \in Thread, pc[t] \in {"run", "exitCas", "exit"}, box[t] # None, Pop(t),
         pc'[t] = "run"
  PROVE  /\ AbsStep(t)
         /\ \A u \in Thread : u # t => box'[u] = box[u] /\ inner'[u] = inner[u]
<1>1. Entries(t) \in Nat /\ Entries(t) > 0
  BY EntriesType DEF Inv
<1>2. Depth(t) = Entries(t) /\ Depth(t)' = Entries(t)'
  BY DEF Depth, Pending
<1>. QED
  BY <1>1, <1>2, PopEntries DEF AbsStep, HasIt

\* fast_exit(): an entry less of a recursive stack lock, or none yet.
LEMMA fast_exitMaps ==
  ASSUME Inv, NEW t \in Thread, fast_exit(t)
  PROVE  Others(t) /\ AbsStep(t)
<1>1. /\ pc \in [Thread -> Label] /\ ret \in [Thread -> {"enter", "exit", "wait", "hash"}]
      /\ (Entries(t) > 0 <=> box[t] # None)
  BY EntriesType DEF Inv, TypeOK
<1>2. pc[t] = "run" /\ box[t] # None /\ UNCHANGED <<seen, mon, hash, save>>
  BY <1>1 DEF fast_exit, At
<1>3. CASE displaced_header(t) = recursive
  <2>1. Pop(t) /\ UNCHANGED <<pc, ret>>
    BY <1>3 DEF fast_exit
  <2>. QED
    BY <1>2, <2>1, PopMaps DEF Others, Same
<1>4. CASE displaced_header(t) # recursive
  <2>1. /\ UNCHANGED <<box, inner>>
        /\ \/ pc' = [pc EXCEPT ![t] = "exitCas"] /\ ret' = ret
           \/ pc' = [pc EXCEPT ![t] = "inflate"] /\ ret' = [ret EXCEPT ![t] = "exit"]
    BY <1>4 DEF fast_exit, inflate, Goto, stackVars
  <2>2. ~Pending(t) /\ ~Pending(t)' /\ pc'[t] # "waiting"
    BY <1>1, <1>2, <2>1 DEF Pending
  <2>3. Others(t)
    BY <1>1, <1>2, <2>1 DEF Others, Same
  <2>. QED
    BY <1>2, <2>1, <2>2, <2>3, SameEntries
<1>. QED
  BY <1>3, <1>4

\* The CAS of fast_exit(): an entry less, or none yet.
LEMMA ExitCasMaps ==
  ASSUME Inv, NEW t \in Thread, ExitCas(t)
  PROVE  Others(t) /\ AbsStep(t)
<1>1. /\ pc \in [Thread -> Label] /\ ret \in [Thread -> {"enter", "exit", "wait", "hash"}]
  BY DEF Inv, TypeOK
<1>2. pc[t] = "exitCas" /\ UNCHANGED <<seen, mon, hash, save>>
  BY DEF ExitCas, At
<1>3. box[t] # None
  BY <1>2 DEF Inv, ThreadInv, PlaceInv
<1>4. CASE mark = Locked(t)
  <2>1. Pop(t) /\ pc' = [pc EXCEPT ![t] = "run"] /\ ret' = ret
    BY <1>4 DEF ExitCas, Goto
  <2>2. pc'[t] = "run"
    BY <1>1, <2>1
  <2>. QED
    BY <1>1, <1>2, <1>3, <2>1, <2>2, PopMaps DEF Others, Same
<1>5. CASE mark # Locked(t)
  <2>1. /\ UNCHANGED <<box, inner>> /\ pc' = [pc EXCEPT ![t] = "inflate"]
        /\ ret' = [ret EXCEPT ![t] = "exit"]
    BY <1>5 DEF ExitCas, inflate, Goto, stackVars
  <2>2. ~Pending(t) /\ ~Pending(t)' /\ pc'[t] # "waiting"
    BY <1>1, <1>2, <2>1 DEF Pending
  <2>3. Others(t)
    BY <1>1, <1>2, <2>1 DEF Others, Same
  <2>. QED
    BY <1>2, <2>1, <2>2, <2>3, SameEntries
<1>. QED
  BY <1>4, <1>5

\* What the locals of the other threads are after Forget().
LEMMA ForgetOthers ==
  ASSUME TypeOK, NEW t \in Thread, Forget(t)
  PROVE  \A u \in Thread : u # t =>
           /\ seen'[u] = seen[u] /\ mon'[u] = mon[u] /\ hash'[u] = hash[u] /\ save'[u] = save[u]
BY DEF TypeOK, Forget

\* The monitor's enter(): the entry of a free monitor, or one more of the owner.
LEMMA enterMaps ==
  ASSUME Inv, NEW t \in Thread, enter(t)
  PROVE  Others(t) /\ AbsStep(t)
<1>1. pc \in [Thread -> Label] /\ TypeOK
  BY DEF Inv, TypeOK
<1>2. pc[t] = "enter" /\ pc[t] \in Users /\ UNCHANGED <<box, inner, ret>>
  BY DEF enter, At, Users, stackVars
<1>3. ret[t] = "enter" /\ box[t] # None
  BY <1>2 DEF Inv, ThreadInv, PlaceInv
<1>4. /\ Depth(t) = Entries(t) - 1 /\ Entries(t) = 1 + Len(inner[t]) /\ Len(inner[t]) \in Nat
      /\ inner[t] = <<>> <=> Len(inner[t]) = 0
  BY <1>1, <1>2, <1>3, EntriesType DEF Depth, Pending
<1>5. Entries(t)' = Entries(t)
  BY <1>2 DEF Entries
<1>6. CASE owner[mon[t]] = NULL \/ is_entered(t, mon[t])
  <2>1. pc' = [pc EXCEPT ![t] = "run"] /\ Forget(t)
    BY <1>6 DEF enter, Goto
  <2>2. Others(t)
    BY <1>1, <1>2, <2>1, ForgetOthers DEF Others, Same
  <2>3. Depth(t)' = Entries(t) /\ pc'[t] = "run"
    BY <1>1, <1>5, <2>1 DEF Depth, Pending
  <2>4. CASE owner[mon[t]] = NULL
    <3>1. Nobody
      BY <1>2, <2>4, UserFacts, HasItOwns DEF Nobody
    <3>2. Depth(t) = 0
      BY SMT, <1>2, <1>4, <3>1 DEF Nobody, HasIt
    <3>. QED
      BY SMT, <1>4, <2>2, <2>3, <3>1, <3>2 DEF AbsStep
  <2>5. CASE is_entered(t, mon[t])
    <3>1. HasIt(t)
      BY <1>2, <2>5, UserFacts, HasItOwns
    <3>. QED
      BY SMT, <1>4, <2>2, <2>3, <3>1 DEF AbsStep
  <2>. QED
    BY <1>6, <2>4, <2>5
<1>7. CASE ~(owner[mon[t]] = NULL \/ is_entered(t, mon[t]))
  <2>1. pc' = [pc EXCEPT ![t] = "blocked"] /\ UNCHANGED <<seen, mon, hash, save>>
    BY <1>7 DEF enter, Goto
  <2>2. Others(t) /\ pc'[t] = "blocked"
    BY <1>1, <1>2, <2>1 DEF Others, Same
  <2>3. Pending(t) /\ Pending(t)'
    BY <1>2, <1>3, <2>2 DEF Pending
  <2>. QED
    BY <1>2, <2>2, <2>3, SameEntries
<1>. QED
  BY <1>6, <1>7

\* A blocked thread enters, and one that waited comes back with its depth.
LEMMA AcquireMaps ==
  ASSUME Inv, NEW t \in Thread, Acquire(t)
  PROVE  Others(t) /\ AbsStep(t)
<1>1. pc \in [Thread -> Label] /\ TypeOK
  BY DEF Inv, TypeOK
<1>2. /\ pc[t] \in {"blocked", "waiting"} /\ pc[t] \in Users /\ UNCHANGED <<box, inner, ret>>
      /\ owner[mon[t]] = NULL /\ pc' = [pc EXCEPT ![t] = "run"] /\ Forget(t)
  BY DEF Acquire, At, Users, stackVars, Goto
<1>3. /\ box[t] # None
      /\ pc[t] = "blocked" => ret[t] = "enter" /\ inner[t] = <<>>
  BY <1>2 DEF Inv, ThreadInv, PlaceInv, Blocked
<1>4. /\ Entries(t) = 1 + Len(inner[t]) /\ Len(inner[t]) \in Nat
      /\ inner[t] = <<>> <=> Len(inner[t]) = 0
  BY <1>1, <1>3, EntriesType
<1>5. Nobody
  BY <1>2, UserFacts, HasItOwns DEF Nobody
<1>6. Others(t)
  BY <1>1, <1>2, ForgetOthers DEF Others, Same
<1>7. pc'[t] = "run" /\ Depth(t)' = Entries(t)
  BY <1>1, <1>2 DEF Depth, Pending, Entries
<1>8. CASE pc[t] = "blocked"
  <2>1. Depth(t) = 0 /\ Entries(t) = 1
    BY SMT, <1>3, <1>4, <1>8 DEF Depth, Pending
  <2>. QED
    BY <1>5, <1>6, <1>7, <2>1 DEF AbsStep
<1>9. CASE pc[t] = "waiting"
  <2>1. Depth(t) = Entries(t)
    BY <1>9 DEF Depth, Pending
  <2>. QED
    BY SMT, <1>4, <1>5, <1>6, <1>7, <2>1 DEF AbsStep
<1>. QED
  BY <1>2, <1>8, <1>9

\* The monitor's exit(): an entry less.
LEMMA exitMaps ==
  ASSUME Inv, NEW t \in Thread, exit(t)
  PROVE  Others(t) /\ AbsStep(t)
<1>1. pc \in [Thread -> Label] /\ TypeOK
  BY DEF Inv, TypeOK
<1>2. /\ pc[t] = "exit" /\ pc' = [pc EXCEPT ![t] = "run"] /\ ret' = ret /\ Pop(t) /\ Forget(t)
  BY DEF exit, Step, At, Goto
<1>3. ret[t] = "exit" /\ box[t] # None
  BY <1>2 DEF Inv, ThreadInv, PlaceInv
<1>4. pc'[t] = "run"
  BY <1>1, <1>2
<1>5. AbsStep(t) /\ \A u \in Thread : u # t => box'[u] = box[u] /\ inner'[u] = inner[u]
  BY <1>2, <1>3, <1>4, PopMaps
<1>6. Others(t)
  BY <1>1, <1>2, <1>5, ForgetOthers DEF Others, Same
<1>. QED
  BY <1>5, <1>6

\* wait() gives the monitor up in one step, and keeps the depth.
LEMMA WaitMaps ==
  ASSUME Inv, NEW t \in Thread, wait(t) \/ Wait(t)
  PROVE  Others(t) /\ AbsStep(t)
<1>1. /\ pc \in [Thread -> Label] /\ TypeOK /\ save \in [Thread -> Nat]
      /\ ret \in [Thread -> {"enter", "exit", "wait", "hash"}]
  BY DEF Inv, TypeOK
<1>2. UNCHANGED <<box, inner, seen, mon, hash>>
  BY DEF wait, Wait, stackVars
<1>3. CASE wait(t)
  <2>1. /\ pc[t] = "run" /\ pc' = [pc EXCEPT ![t] = "inflate"]
        /\ ret' = [ret EXCEPT ![t] = "wait"] /\ save' = save
    BY <1>3 DEF wait, Start, At, inflate, Goto
  <2>2. Others(t) /\ ~Pending(t) /\ ~Pending(t)' /\ pc'[t] # "waiting"
    BY <1>1, <1>2, <2>1 DEF Others, Same, Pending
  <2>. QED
    BY <1>2, <2>1, <2>2, SameEntries
<1>4. CASE Wait(t)
  <2>1. /\ pc[t] = "wait" /\ pc' = [pc EXCEPT ![t] = "waiting"] /\ ret' = ret
        /\ \E n : save' = [save EXCEPT ![t] = n]
    BY <1>4 DEF Wait, Step, At, Goto
  <2>2. Others(t) /\ ~Pending(t) /\ ~Pending(t)' /\ pc'[t] = "waiting"
    BY <1>1, <1>2, <2>1 DEF Others, Same, Pending
  <2>3. box[t] # None
    BY <2>1 DEF Inv, ThreadInv, PlaceInv
  <2>4. Depth(t) = Entries(t) /\ Depth(t)' = Depth(t) /\ Entries(t) > 0
    BY <1>1, <1>2, <2>2, <2>3, EntriesType DEF Depth, Entries
  <2>. QED
    BY <2>1, <2>2, <2>4 DEF AbsStep, HasIt
<1>. QED
  BY <1>3, <1>4

\* The death of a thread is no step of the monitor.
LEMMA removeMaps ==
  ASSUME Inv, NEW t \in Thread, remove(t) \/ omFlush(t)
  PROVE  Others(t) /\ AbsStep(t)
<1>1. pc \in [Thread -> Label]
  BY DEF Inv, TypeOK
<1>2. /\ UNCHANGED <<box, inner, seen, mon, hash, save, ret>>
      /\ \/ pc[t] = "run" /\ pc' = [pc EXCEPT ![t] = "exiting"]
         \/ pc[t] = "exiting" /\ pc' = [pc EXCEPT ![t] = "dead"]
  BY DEF remove, omFlush, Start, Step, At, Goto, stackVars
<1>3. Others(t) /\ ~Pending(t) /\ ~Pending(t)' /\ pc'[t] \in {"exiting", "dead"}
  BY <1>1, <1>2 DEF Others, Same, Pending
<1>. QED
  BY <1>2, <1>3, SameEntries

----------------------------------------------------------------------------

\* A new object is a free monitor,
LEMMA InitMaps == Init => Abs!Init
<1>. SUFFICES ASSUME Init PROVE Abs!Init
  OBVIOUS
<1>1. \A t \in Thread : Depth(t) = 0
  BY DEF Init, Depth, Entries, Pending
<1>2. Holder = NULL
  BY SMT, <1>1 DEF Holder, HasIt
<1>3. NULL \notin Thread
  BY ConstantsAssumption
<1>. QED
  BY <1>1, <1>2, <1>3 DEF Abs!Init

\* and every step is one of the abstract monitor, or none.
LEMMA NextMaps == Inv /\ Inv' /\ [Next]_vars => [Abs!Next]_(Abs!vars)
<1>. SUFFICES ASSUME Inv, Inv', [Next]_vars PROVE [Abs!Next]_(Abs!vars)
  OBVIOUS
<1>1. ASSUME NEW t \in Thread,
             Run(t) \/ fast_enter(t) \/ wait(t) \/ FastHashCode(t) \/ remove(t)
      PROVE  [Abs!Next]_(Abs!vars)
  <2>1. Others(t) /\ AbsStep(t)
    BY ZenonT(30), <1>1, InflateMaps, HashMaps, fast_enterMaps, EnterCasMaps, fast_exitMaps, ExitCasMaps,
       enterMaps, AcquireMaps, exitMaps, WaitMaps, removeMaps DEF Run, LockSteps
  <2>. QED
    BY <2>1, MonitorStep
<1>2. ASSUME deflate_idle_monitors \/ UNCHANGED vars
      PROVE  [Abs!Next]_(Abs!vars)
  <2>1. UNCHANGED <<box, inner, pc, ret>>
    BY <1>2 DEF deflate_idle_monitors, vars, stackVars
  <2>2. \A t \in Thread : Depth(t)' = Depth(t) /\ (HasIt(t)' <=> HasIt(t))
    BY ZenonT(30), <2>1 DEF Depth, HasIt, Entries, Pending
  <2>3. HolderInv /\ HolderInv'
    BY HolderIs, PTL
  <2>4. Holder' = Holder
    BY <2>2, <2>3 DEF HolderInv, Nobody
  <2>. QED
    BY <2>2, <2>4 DEF Abs!vars
<1>. QED
  BY <1>1, <1>2 DEF Next

\* Whatever the number of threads and monitors, the mark word, the BasicLocks and the
\* monitors implement the monitor of the Java language.
THEOREM Refinement == Spec => ImplementsMonitor
<1>. QED
  BY InitMaps, NextMaps, Invariance, PTL DEF Spec, ImplementsMonitor, Abs!Spec

=============================================================================
