-------------------------- MODULE TaskQueueProofs --------------------------
(***************************************************************************)
(* Proofs about TaskQueue, for queues of any size, any number of workers   *)
(* and of tasks, wherever the queues start.                                *)
(***************************************************************************)
EXTENDS TaskQueue, TLAPS

USE ZenonT(40)

----------------------------------------------------------------------------
(* The inductive invariant.                                                *)

\* Where the elements of a queue end, the one about to be popped included, and
\* how many there are.
EndOf(w) == IF Popping(w) THEN increment_index(bottom[w]) ELSE bottom[w]
Length(w) == dirty_size(EndOf(w), age[w].top)

\* The indices from top to bot, bot excluded.
Index == 0 .. N - 1
Ring(top, bot) ==
  {i \in Index :
     IF top <= bot THEN top <= i /\ i < bot ELSE top <= i \/ i < bot}
Slots(w) == Ring(age[w].top, EndOf(w))

Pushing == {"push", "pushElem", "pushBottom"}
Stealing == {"stealBottom", "stealElem", "stealCas"}
Peeking == {"offered", "peekBottom", "peekTop", "withdraw", "done"}

\* A worker past trim_queues() has nothing, and nobody adds to its queue.
Idle == Peeking \cup Stealing \cup {"steal", "take", "reattach", "offer"}

\* How many objects take_from_overflow_list() keeps at most.
Kept == Max1(objsFromOverflow)

\* The ends of the queue of w.  One element is left when its owner races with
\* the thieves for it; its CAS succeeds unless the element is gone.
EndsInv(w) ==
  /\ Length(w) < N - 1
  /\ pc[w] \in {"pushElem", "pushBottom"} => Length(w) < N - 2
  /\ pc[w] = "pushBottom" => elems[w][bottom[w]] = ToPush(w)
  /\ pc[w] \in {"getAge", "cas"} =>
       /\ Length(w) <= 1
       /\ Length(w) = 1 => loc[w].t = elems[w][bottom[w]]
  /\ pc[w] = "cas" /\ Length(w) = 1 => age[w] = loc[w].oldAge
  /\ pc[w] \in Idle \cup {"setAge"} => Length(w) = 0

\* What w has in hand depends on where it is.
HandInv(w) ==
  /\ found[w] # NoTask => pc[w] \in Pushing \cup {"overflow"} /\ prefix[w] = <<>>
  /\ pc[w] = "overflow" => found[w] # NoTask
  /\ prefix[w] # <<>> =>
       /\ pc[w] \in Pushing \cup {"reattach"} /\ hold[w] = NoTask
       /\ pc[w] \in Pushing => Length(w) + Len(prefix[w]) <= Kept
  /\ pc[w] = "reattach" => Len(prefix[w]) > Kept
  /\ hold[w] # NoTask => pc[w] \in Pushing \cup {"overflow", "scan"}
  /\ pc[w] \in Pushing /\ found[w] = NoTask /\ prefix[w] = <<>> =>
       hold[w] # NoTask /\ Length(w) = 0

\* A thief whose CAS would succeed has read the oldest element.
ThiefInv(w) ==
  LET k == loc[w].k IN
  /\ pc[w] \in Stealing => k # w
  /\ pc[w] \in {"stealElem", "stealCas"} /\ loc[w].oldAge = age[k] => Length(k) > 0
  /\ pc[w] = "stealCas" /\ loc[w].oldAge = age[k] => loc[w].t = elems[k][age[k].top]

\* No list holds a task twice.
ListInv ==
  /\ \A w \in Worker : \A i, j \in Slots(w) : elems[w][i] = elems[w][j] => i = j
  /\ \A i, j \in DOMAIN overflow : overflow[i] = overflow[j] => i = j
  /\ \A w \in Worker : \A i, j \in DOMAIN prefix[w] : prefix[w][i] = prefix[w][j] => i = j
  /\ \A w \in Worker : hold[w] # NoTask => hold[w] # found[w]

\* Every task is at one place: still unknown, on a queue, in a hand, on the
\* overflow list or done.
Place == ({"queue", "hand"} \X Worker) \cup ({"unknown", "overflow", "done"} \X {0})
Tasks(p) ==
  CASE p[1] = "unknown" -> Task \ (1 .. created)
    [] p[1] = "queue" -> Contents(p[2])
    [] p[1] = "hand" -> InHand(p[2])
    [] p[1] = "overflow" -> Range(overflow)
    [] p[1] = "done" -> scanned
At == [p \in Place |-> Tasks(p)]
Partition(f) ==
  /\ \A p, q \in Place : p # q => f[p] \cap f[q] = {}
  /\ UNION {f[p] : p \in Place} = Task

\* Who puts an object on the overflow list looks there before it offers to stop.
OverflowInv ==
  overflow # <<>> => \E w \in Worker : pc[w] \notin Peeking \cup {"offer"}

\* After somebody has seen the end, there is nothing to do and nobody at work.
Ended ==
  /\ overflow = <<>> /\ scanned = 1 .. created
  /\ \A w \in Worker : Length(w) = 0 /\ pc[w] \notin Pushing \cup {"scan", "overflow", "reattach"}
EndInv == (\E w \in Worker : pc[w] = "done") => Ended

\* The offers are counted; after reset_for_reuse() nobody is there.
Thieves == {w \in Worker : pc[w] \in Stealing}
Offerers == {w \in Worker : pc[w] \in Peeking}
CountInv ==
  /\ offered = Cardinality(Offerers) \/ (AllDone /\ offered = 0)
  /\ steals + Cardinality(Thieves) <= MaxSteals + NWorkers

Inv ==
  /\ TypeOK
  /\ \A w \in Worker : EndsInv(w) /\ HandInv(w) /\ ThiefInv(w)
  /\ ListInv /\ Partition(At) /\ OverflowInv /\ EndInv /\ CountInv

\* While a thief is on its way, the tags do not come around to the one it has
\* read.
TagsFresh ==
  \A w \in Worker : pc[w] \in Stealing /\ age'[loc[w].k] # age[loc[w].k] =>
    age'[loc[w].k] # loc[w].oldAge
TagsLast == [][TagsFresh]_vars

----------------------------------------------------------------------------
(* Arithmetic of the indices.                                              *)

LEMMA ModFacts ==
  \A x \in Index : x % N = x /\ (x + N) % N = x /\ (x - N) % N = x
  BY SMT, TaskQueueAssumption DEF Index

\* The index functions without the modulus.
LEMMA IndexIs ==
  ASSUME NEW i \in Index
  PROVE  /\ increment_index(i) = IF i = N - 1 THEN 0 ELSE i + 1
         /\ decrement_index(i) = IF i = 0 THEN N - 1 ELSE i - 1
         /\ increment_index(i) \in Index /\ decrement_index(i) \in Index
         /\ increment_index(decrement_index(i)) = i
         /\ increment_index(i) # i
<1>1. increment_index(i) = IF i = N - 1 THEN 0 ELSE i + 1
  BY SMT, ModFacts, TaskQueueAssumption DEF Index, increment_index
<1>2. \A j \in Index : decrement_index(j) = IF j = 0 THEN N - 1 ELSE j - 1
  BY SMT, ModFacts, TaskQueueAssumption DEF Index, decrement_index
<1>3. \A j \in Index : increment_index(j) = IF j = N - 1 THEN 0 ELSE j + 1
  BY SMT, ModFacts, TaskQueueAssumption DEF Index, increment_index
<1>4. increment_index(i) \in Index /\ decrement_index(i) \in Index
  BY SMT, <1>1, <1>2, TaskQueueAssumption DEF Index
<1>5. increment_index(decrement_index(i)) = i
  BY SMT, <1>2, <1>3, <1>4, TaskQueueAssumption DEF Index
<1>. QED  BY SMT, <1>1, <1>2, <1>4, <1>5, TaskQueueAssumption DEF Index

LEMMA IndexFacts ==
  ASSUME NEW i \in Index
  PROVE  /\ increment_index(i) \in Index /\ decrement_index(i) \in Index
         /\ increment_index(decrement_index(i)) = i /\ increment_index(i) # i
  BY IndexIs

LEMMA SizeIs ==
  ASSUME NEW b \in Index, NEW t \in Index
  PROVE  /\ dirty_size(b, t) = IF t <= b THEN b - t ELSE b - t + N
         /\ dirty_size(b, t) \in Index
         /\ dirty_size(b, t) = 0 <=> b = t
         /\ dirty_size(b, t) = N - 1 <=> increment_index(b) = t
         /\ dirty_size(b, t) # N - 1 =>
              dirty_size(increment_index(b), t) = dirty_size(b, t) + 1
         /\ dirty_size(b, t) # 0 =>
              dirty_size(b, increment_index(t)) = dirty_size(b, t) - 1
<1>1. \A c, u \in Index : dirty_size(c, u) = IF u <= c THEN c - u ELSE c - u + N
  <2>. TAKE c \in Index, u \in Index
  <2>1. c - u \in Index \/ c - u + N \in Index
    BY SMT, TaskQueueAssumption DEF Index
  <2>2. u <= c => (c - u) % N = c - u
    <3>. HAVE u <= c
    <3>1. c - u \in Index
      BY SMT, TaskQueueAssumption DEF Index
    <3>. QED  BY <3>1, ModFacts
  <2>3. ~(u <= c) => (c - u) % N = c - u + N
    <3>. HAVE ~(u <= c)
    <3>1. c - u + N \in Index
      BY SMT, TaskQueueAssumption DEF Index
    <3>2. ((c - u + N) - N) % N = c - u + N
      BY SMT, <3>1, ModFacts, TaskQueueAssumption DEF Index
    <3>3. (c - u + N) - N = c - u
      BY SMT, TaskQueueAssumption DEF Index
    <3>. QED  BY <3>2, <3>3
  <2>. QED  BY <2>2, <2>3 DEF dirty_size
<1>2. /\ increment_index(b) \in Index /\ increment_index(b) = IF b = N - 1 THEN 0 ELSE b + 1
      /\ increment_index(t) \in Index /\ increment_index(t) = IF t = N - 1 THEN 0 ELSE t + 1
  BY IndexIs
<1>3. /\ dirty_size(b, t) = IF t <= b THEN b - t ELSE b - t + N
      /\ dirty_size(increment_index(b), t) =
           IF t <= increment_index(b) THEN increment_index(b) - t ELSE increment_index(b) - t + N
      /\ dirty_size(b, increment_index(t)) =
           IF increment_index(t) <= b THEN b - increment_index(t) ELSE b - increment_index(t) + N
  BY <1>1, <1>2
<1>. HIDE <1>1
<1>. QED  BY SMT, <1>2, <1>3, TaskQueueAssumption DEF Index

LEMMA SizeFacts ==
  ASSUME NEW b \in Index, NEW t \in Index
  PROVE  /\ dirty_size(b, t) \in Index
         /\ dirty_size(b, t) = 0 <=> b = t
         /\ dirty_size(b, t) = N - 1 <=> increment_index(b) = t
         /\ dirty_size(b, t) # N - 1 =>
              dirty_size(increment_index(b), t) = dirty_size(b, t) + 1
         /\ dirty_size(b, t) # 0 =>
              dirty_size(b, increment_index(t)) = dirty_size(b, t) - 1
  BY SizeIs

\* The ends of a queue move by one element at a time.
LEMMA RingFacts ==
  ASSUME NEW b \in Index, NEW t \in Index
  PROVE  /\ Ring(t, b) \subseteq Index
         /\ Ring(t, t) = {}
         /\ b \notin Ring(t, b)
         /\ b # t => t \in Ring(t, b)
         /\ increment_index(b) # t => Ring(t, increment_index(b)) = Ring(t, b) \cup {b}
         /\ b # t => Ring(increment_index(t), b) = Ring(t, b) \ {t}
<1>1. /\ increment_index(b) = IF b = N - 1 THEN 0 ELSE b + 1
      /\ increment_index(t) = IF t = N - 1 THEN 0 ELSE t + 1
  BY IndexIs
<1>2. Ring(t, b) \subseteq Index
  BY DEF Ring
<1>3. Ring(t, t) = {}
  BY SMT, TaskQueueAssumption DEF Ring, Index
<1>4. b \notin Ring(t, b) /\ (b # t => t \in Ring(t, b))
  BY SMT, TaskQueueAssumption DEF Ring, Index
<1>5. increment_index(b) # t => Ring(t, increment_index(b)) = Ring(t, b) \cup {b}
  BY SMT, <1>1, TaskQueueAssumption DEF Ring, Index
<1>6. b # t => Ring(increment_index(t), b) = Ring(t, b) \ {t}
  BY SMT, <1>1, TaskQueueAssumption DEF Ring, Index
<1>. QED  BY <1>2, <1>3, <1>4, <1>5, <1>6

\* The slots that Contents() counts from top on.
LEMMA RingIs ==
  ASSUME NEW b \in Index, NEW t \in Index
  PROVE  Ring(t, b) = {(t + i) % N : i \in 0 .. dirty_size(b, t) - 1}
<1>. DEFINE n == dirty_size(b, t)
<1>1. n = (IF t <= b THEN b - t ELSE b - t + N) /\ n \in Index
  BY SizeIs
<1>. HIDE DEF n
<1>2. \A i \in 0 .. n - 1 : (t + i) % N = IF t + i < N THEN t + i ELSE t + i - N
  <2>. TAKE i \in 0 .. n - 1
  <2>1. CASE t + i < N
    <3>1. t + i \in Index
      BY SMT, <1>1, <2>1, TaskQueueAssumption DEF Index
    <3>. QED  BY <2>1, <3>1, ModFacts
  <2>2. CASE ~(t + i < N)
    <3>1. t + i - N \in Index
      BY SMT, <1>1, <2>2, TaskQueueAssumption DEF Index
    <3>2. t + i - N + N = t + i
      BY SMT, <1>1, TaskQueueAssumption DEF Index
    <3>. QED  BY <2>2, <3>1, <3>2, ModFacts
  <2>. QED  BY <2>1, <2>2
<1>3. ASSUME NEW i \in 0 .. n - 1 PROVE (t + i) % N \in Ring(t, b)
  <2>1. (t + i) % N = IF t + i < N THEN t + i ELSE t + i - N
    BY <1>2
  <2>. QED  BY SMT, <1>1, <2>1, TaskQueueAssumption DEF Ring, Index
<1>4. ASSUME NEW j \in Ring(t, b) PROVE \E i \in 0 .. n - 1 : j = (t + i) % N
  <2>. DEFINE i == IF t <= j THEN j - t ELSE j - t + N
  <2>1. i \in 0 .. n - 1 /\ j = (IF t + i < N THEN t + i ELSE t + i - N)
    BY SMT, <1>1, TaskQueueAssumption DEF Ring, Index
  <2>. QED  BY <1>2, <2>1
<1>. QED  BY <1>3, <1>4 DEF n

LEMMA AgeFacts ==
  ASSUME NEW a \in Age, NEW b \in Index
  PROVE  /\ a.top \in Index
         /\ Stolen(a) \in Age /\ Stolen(a).top = increment_index(a.top) /\ Stolen(a) # a
         /\ EmptyAge(b, a) \in Age /\ EmptyAge(b, a).top = b /\ EmptyAge(b, a) # a
<1>1. /\ a.top \in Index /\ increment_index(a.top) \in Index
      /\ increment_index(a.top) # a.top /\ a.tag \in 0 .. TagSize - 1
  BY IndexFacts DEF Age, Index
<1>2. (a.tag + 1) % TagSize \in 0 .. TagSize - 1 /\ (a.tag + 1) % TagSize # a.tag
  BY SMT, <1>1, TaskQueueAssumption
<1>. QED  BY SMT, <1>1, <1>2 DEF Age, Stolen, EmptyAge, Index

LEMMA ContentsAre ==
  ASSUME NEW w \in Worker, bottom[w] \in Index, age[w] \in Age
  PROVE  /\ age[w].top \in Index /\ EndOf(w) \in Index
         /\ Length(w) \in Index /\ Slots(w) \subseteq Index
         /\ Contents(w) = {elems[w][i] : i \in Slots(w)}
<1>1. age[w].top \in Index
  BY AgeFacts
<1>2. EndOf(w) \in Index
  BY IndexFacts DEF EndOf
<1>3. Length(w) \in Index
  BY <1>1, <1>2, SizeFacts DEF Length
<1>4. Slots(w) = {(age[w].top + i) % N : i \in 0 .. Length(w) - 1}
  BY <1>1, <1>2, RingIs DEF Slots, Length
<1>5. Contents(w) = {elems[w][(age[w].top + i) % N] : i \in 0 .. Length(w) - 1}
  BY DEF Contents, Length, EndOf
<1>6. Slots(w) \subseteq Index
  BY <1>1, <1>2, RingFacts DEF Slots
<1>. QED  BY <1>1, <1>2, <1>3, <1>4, <1>5, <1>6

----------------------------------------------------------------------------
(* Sequences of tasks.                                                     *)

Distinct(s) == \A i, j \in DOMAIN s : s[i] = s[j] => i = j

LEMMA TailFacts ==
  ASSUME NEW s \in Seq(Task), s # <<>>
  PROVE  /\ Len(s) \in Nat /\ Len(s) > 0 /\ Tail(s) \in Seq(Task) /\ Head(s) \in Task
         /\ Len(Tail(s)) = Len(s) - 1 /\ (Len(s) > 1 <=> Tail(s) # <<>>)
         /\ Distinct(s) => Distinct(Tail(s)) /\ Range(Tail(s)) = Range(s) \ {Head(s)}
         /\ Head(s) \in Range(s)
<1>1. Len(s) \in Nat /\ Len(s) > 0 /\ Tail(s) \in Seq(Task) /\ Len(Tail(s)) = Len(s) - 1
      /\ \A i \in 1 .. Len(s) - 1 : Tail(s)[i] = s[i + 1]
  BY SMT
<1>2. Head(s) = s[1] /\ DOMAIN s = 1 .. Len(s) /\ DOMAIN Tail(s) = 1 .. Len(s) - 1
      /\ 1 \in DOMAIN s /\ \A i \in DOMAIN s : s[i] \in Task
  BY SMT, <1>1
<1>3. Len(s) > 1 <=> Tail(s) # <<>>
  <2>1. \A t \in Seq(Task) : t = <<>> <=> Len(t) = 0
    BY SMT
  <2>2. Tail(s) = <<>> <=> Len(s) - 1 = 0
    BY <1>1, <2>1
  <2>3. \A m \in Nat : m > 0 => (m > 1 <=> m - 1 # 0)
    BY SMT
  <2>. QED  BY <1>1, <2>2, <2>3
<1>4. Distinct(s) => Distinct(Tail(s))
  <2>. SUFFICES ASSUME Distinct(s), NEW i \in 1 .. Len(s) - 1, NEW j \in 1 .. Len(s) - 1,
                       Tail(s)[i] = Tail(s)[j]
                PROVE  i = j
    BY <1>2 DEF Distinct
  <2>1. s[i + 1] = s[j + 1]
    BY <1>1
  <2>2. i + 1 \in DOMAIN s /\ j + 1 \in DOMAIN s
    BY SMT, <1>1, <1>2
  <2>3. i + 1 = j + 1
    BY <2>1, <2>2 DEF Distinct
  <2>. QED  BY SMT, <2>3
<1>5. Distinct(s) => Range(Tail(s)) = Range(s) \ {Head(s)}
  <2>. SUFFICES ASSUME Distinct(s) PROVE Range(Tail(s)) = Range(s) \ {Head(s)}
    OBVIOUS
  <2>1. ASSUME NEW x \in Range(Tail(s)) PROVE x \in Range(s) \ {Head(s)}
    <3>1. PICK i \in 1 .. Len(s) - 1 : x = Tail(s)[i]
      BY <1>2 DEF Range
    <3>2. x = s[i + 1] /\ i + 1 \in DOMAIN s /\ i + 1 # 1
      BY SMT, <1>1, <1>2, <3>1
    <3>. QED  BY <1>2, <3>2 DEF Range, Distinct
  <2>2. ASSUME NEW x \in Range(s) \ {Head(s)} PROVE x \in Range(Tail(s))
    <3>1. PICK i \in DOMAIN s : x = s[i]
      BY DEF Range
    <3>2. i # 1
      BY <1>2, <3>1
    <3>3. i - 1 \in DOMAIN Tail(s) /\ (i - 1) + 1 = i
      BY SMT, <1>1, <1>2, <3>2
    <3>4. x = Tail(s)[i - 1]
      BY <1>1, <1>2, <3>1, <3>3
    <3>. QED  BY <3>3, <3>4 DEF Range
  <2>. QED  BY <2>1, <2>2
<1>6. Head(s) \in Range(s)
  BY <1>2 DEF Range
<1>. QED  BY <1>1, <1>2, <1>3, <1>4, <1>5, <1>6

\* A list cut in two.
LEMMA CutFacts ==
  ASSUME NEW s \in Seq(Task), NEW n \in Nat, 0 < n, n < Len(s)
  PROVE  /\ SubSeq(s, 1, n) \in Seq(Task) /\ SubSeq(s, n + 1, Len(s)) \in Seq(Task)
         /\ Len(SubSeq(s, 1, n)) = n /\ SubSeq(s, 1, n) # <<>>
         /\ Range(SubSeq(s, 1, n)) \cup Range(SubSeq(s, n + 1, Len(s))) = Range(s)
         /\ Distinct(s) => /\ Distinct(SubSeq(s, 1, n)) /\ Distinct(SubSeq(s, n + 1, Len(s)))
                           /\ Range(SubSeq(s, 1, n)) \cap Range(SubSeq(s, n + 1, Len(s))) = {}
<1>. DEFINE p == SubSeq(s, 1, n) r == SubSeq(s, n + 1, Len(s)) m == Len(s)
<1>1. m \in Nat /\ DOMAIN s = 1 .. m /\ n < m
  BY SMT
<1>2. p \in Seq(Task) /\ Len(p) = n /\ p # <<>> /\ DOMAIN p = 1 .. n
      /\ \A i \in 1 .. n : p[i] = s[i]
  BY SMT
<1>3. r \in Seq(Task) /\ DOMAIN r = 1 .. m - n
      /\ \A i \in 1 .. m - n : r[i] = s[i + n]
  BY SMT
<1>. HIDE DEF p, r, m
<1>4. \A i \in 1 .. n : i \in 1 .. m
  BY SMT, <1>1
<1>5. \A i \in 1 .. m - n : i + n \in 1 .. m /\ i + n \notin 1 .. n
  BY SMT, <1>1
<1>6. \A i \in 1 .. m : i \in 1 .. n \/ (i - n \in 1 .. m - n /\ (i - n) + n = i)
  BY SMT, <1>1
<1>7. \A i, j \in 1 .. m - n : i + n = j + n => i = j
  BY SMT, <1>1
<1>8. Range(p) \cup Range(r) = Range(s)
  <2>1. Range(p) \subseteq Range(s)
    BY <1>1, <1>2, <1>4 DEF Range
  <2>2. Range(r) \subseteq Range(s)
    BY <1>1, <1>3, <1>5 DEF Range
  <2>3. Range(s) \subseteq Range(p) \cup Range(r)
    <3>. SUFFICES ASSUME NEW i \in 1 .. m PROVE s[i] \in Range(p) \cup Range(r)
      BY <1>1 DEF Range
    <3>1. CASE i \in 1 .. n
      BY <1>2, <3>1 DEF Range
    <3>2. CASE i - n \in 1 .. m - n /\ (i - n) + n = i
      <4>1. s[i] = r[i - n]
        BY <1>3, <3>2
      <4>. QED  BY <1>3, <3>2, <4>1 DEF Range
    <3>. QED  BY <1>6, <3>1, <3>2
  <2>. QED  BY <2>1, <2>2, <2>3
<1>9. ASSUME Distinct(s) PROVE Distinct(p) /\ Distinct(r) /\ Range(p) \cap Range(r) = {}
  <2>1. Distinct(p)
    BY <1>1, <1>2, <1>4, <1>9 DEF Distinct
  <2>2. Distinct(r)
    BY <1>1, <1>3, <1>5, <1>7, <1>9 DEF Distinct
  <2>3. Range(p) \cap Range(r) = {}
    <3>. SUFFICES ASSUME NEW x, x \in Range(p), x \in Range(r) PROVE FALSE
      OBVIOUS
    <3>0. PICK i \in 1 .. n, j \in 1 .. m - n : x = p[i] /\ x = r[j]
      BY <1>2, <1>3 DEF Range
    <3>1. s[i] = s[j + n] /\ i \in DOMAIN s /\ j + n \in DOMAIN s /\ i # j + n
      BY <1>1, <1>2, <1>3, <1>4, <1>5, <3>0
    <3>. QED  BY <1>9, <3>1 DEF Distinct
  <2>. QED  BY <2>1, <2>2, <2>3
<1>. QED  BY <1>2, <1>3, <1>8, <1>9 DEF p, r

\* Two lists in a row.
LEMMA ConcatFacts ==
  ASSUME NEW s \in Seq(Task), NEW u \in Seq(Task)
  PROVE  /\ s \o u \in Seq(Task) /\ Range(s \o u) = Range(s) \cup Range(u)
         /\ Distinct(s) /\ Distinct(u) /\ Range(s) \cap Range(u) = {} => Distinct(s \o u)
<1>. DEFINE c == s \o u m == Len(s) k == Len(u)
<1>1. m \in Nat /\ k \in Nat /\ DOMAIN s = 1 .. m /\ DOMAIN u = 1 .. k
  BY SMT
<1>2. c \in Seq(Task) /\ DOMAIN c = 1 .. m + k
      /\ (\A i \in 1 .. m : c[i] = s[i]) /\ \A i \in 1 .. k : c[i + m] = u[i]
  BY SMT
<1>. HIDE DEF c, m, k
<1>3. \A i \in 1 .. m + k : i \in 1 .. m \/ (i - m \in 1 .. k /\ (i - m) + m = i)
  BY SMT, <1>1
<1>4. (\A i \in 1 .. m : i \in 1 .. m + k) /\ \A i \in 1 .. k : i + m \in 1 .. m + k
  BY SMT, <1>1
<1>5. Range(c) = Range(s) \cup Range(u)
  <2>1. Range(s) \subseteq Range(c)
    BY <1>1, <1>2, <1>4 DEF Range
  <2>2. Range(u) \subseteq Range(c)
    BY <1>1, <1>2, <1>4 DEF Range
  <2>3. ASSUME NEW i \in 1 .. m + k PROVE c[i] \in Range(s) \cup Range(u)
    <3>1. CASE i \in 1 .. m
      BY <1>1, <1>2, <3>1 DEF Range
    <3>2. CASE i - m \in 1 .. k /\ (i - m) + m = i
      <4>1. c[i] = u[i - m]
        BY <1>2, <3>2
      <4>. QED  BY <1>1, <3>2, <4>1 DEF Range
    <3>. QED  BY <1>3, <3>1, <3>2
  <2>. QED  BY <1>2, <2>1, <2>2, <2>3 DEF Range
<1>6. ASSUME Distinct(s), Distinct(u), Range(s) \cap Range(u) = {},
             NEW i \in 1 .. m + k, NEW j \in 1 .. m + k, c[i] = c[j]
      PROVE  i = j
  <2>1. \A h \in 1 .. m : c[h] \in Range(s)
    BY <1>1, <1>2 DEF Range
  <2>2. ASSUME NEW h \in 1 .. m + k, h - m \in 1 .. k, (h - m) + m = h
        PROVE  c[h] = u[h - m] /\ c[h] \in Range(u)
    <3>1. c[h] = u[h - m]
      BY <1>2, <2>2
    <3>. QED  BY <1>1, <2>2, <3>1 DEF Range
  <2>3. CASE i \in 1 .. m /\ j \in 1 .. m
    BY <1>1, <1>2, <1>6, <2>3 DEF Distinct
  <2>4. CASE i \notin 1 .. m /\ j \notin 1 .. m
    <3>1. i - m \in 1 .. k /\ (i - m) + m = i /\ j - m \in 1 .. k /\ (j - m) + m = j
      BY <1>3, <2>4
    <3>2. u[i - m] = u[j - m]
      BY <1>6, <2>2, <3>1
    <3>3. i - m = j - m
      BY <1>1, <1>6, <3>1, <3>2 DEF Distinct
    <3>. QED  BY <3>1, <3>3
  <2>5. CASE i \in 1 .. m /\ j \notin 1 .. m
    BY <1>3, <1>6, <2>1, <2>2, <2>5
  <2>6. CASE i \notin 1 .. m /\ j \in 1 .. m
    BY <1>3, <1>6, <2>1, <2>2, <2>6
  <2>. QED  BY <2>3, <2>4, <2>5, <2>6
<1>. QED  BY <1>2, <1>5, <1>6 DEF c, Distinct

LEMMA SingleFacts ==
  ASSUME NEW x \in Task
  PROVE  <<x>> \in Seq(Task) /\ Range(<<x>>) = {x} /\ Distinct(<<x>>)
<1>1. <<x>> \in Seq(Task) /\ DOMAIN <<x>> = {1} /\ <<x>>[1] = x
  BY SMT
<1>. QED  BY <1>1 DEF Range, Distinct

LEMMA EmptyFacts == <<>> \in Seq(Task) /\ Range(<<>>) = {} /\ Distinct(<<>>)
<1>1. <<>> \in Seq(Task) /\ DOMAIN <<>> = {}
  BY SMT
<1>. QED  BY <1>1 DEF Range, Distinct

----------------------------------------------------------------------------
(* Types and frames.                                                       *)

Label == {"scan", "trim", "pop", "dec", "readTop", "getAge", "cas", "setAge", "push",
          "pushElem", "pushBottom", "overflow", "steal", "stealBottom", "stealElem",
          "stealCas", "take", "reattach", "offer", "offered", "peekBottom", "peekTop",
          "withdraw", "done"}
QueueType ==
  /\ elems \in [Worker -> [Index -> Task \cup {NoTask}]]
  /\ bottom \in [Worker -> Index] /\ age \in [Worker -> Age]
ControlType == pc \in [Worker -> Label] /\ loc \in [Worker -> Locals]
WorkType ==
  /\ overflow \in Seq(Task)
  /\ hold \in [Worker -> Task \cup {NoTask}] /\ found \in [Worker -> Task \cup {NoTask}]
  /\ prefix \in [Worker -> Seq(Task)]
  /\ created \in 0 .. MaxTasks /\ scanned \subseteq Task
Types == QueueType /\ ControlType /\ WorkType

LEMMA TypesAre ==
  TypeOK <=> Types /\ offered \in 0 .. NWorkers /\ steals \in 0 .. MaxSteals + NWorkers
  BY DEF TypeOK, Types, QueueType, ControlType, WorkType, Label, Index

LEMMA KeptFacts == Kept \in Nat /\ Kept > 0 /\ Kept < N - 2
<1>1. max_elems \div 4 \in Nat /\ max_elems \div 4 < N - 3
  BY SMT, TaskQueueAssumption DEF max_elems
<1>. QED  BY SMT, <1>1, TaskQueueAssumption DEF Kept, Max1, objsFromOverflow

\* Where a worker goes.
LEMMA PcStep ==
  ASSUME NEW w \in Worker, pc \in [Worker -> Label], WorkerNext(w)
  PROVE  pc' \in [Worker -> Label]
<1>. USE DEF Label
<1>1. CASE Discover(w)
  BY <1>1 DEF Discover, Step
<1>2. CASE Scanned(w)
  BY <1>2 DEF Scanned, Step
<1>3. CASE push(w)
  BY <1>3 DEF push
<1>4. CASE PushElem(w)
  BY <1>4 DEF PushElem, Step
<1>5. CASE PushBottom(w)
  BY <1>5 DEF PushBottom, Pushed
<1>6. CASE push_on_overflow_list(w)
  BY <1>6 DEF push_on_overflow_list, Step
<1>7. CASE trim_queues(w)
  BY <1>7 DEF trim_queues
<1>8. CASE pop_local(w)
  BY <1>8 DEF pop_local
<1>9. CASE DecrementBottom(w)
  BY <1>9 DEF DecrementBottom, Step
<1>10. CASE ReadTop(w)
  BY <1>10 DEF ReadTop, Claim
<1>11. CASE GetAge(w)
  BY <1>11 DEF GetAge, Step
<1>12. CASE pop_local_slow(w)
  BY <1>12 DEF pop_local_slow, Claim, set_age
<1>13. CASE SetAge(w)
  BY <1>13 DEF SetAge, Step, set_age
<1>14. CASE pop_global(w)
  BY <1>14 DEF pop_global, Step
<1>15. CASE GiveUp(w)
  BY <1>15 DEF GiveUp, Step
<1>16. CASE StealBottom(w)
  BY <1>16 DEF StealBottom, NextTry
<1>17. CASE StealElem(w)
  BY <1>17 DEF StealElem, Step
<1>18. CASE StealCas(w)
  BY <1>18 DEF StealCas, NextTry, Claim
<1>19. CASE take_from_overflow_list(w)
  BY <1>19 DEF take_from_overflow_list
<1>20. CASE Reattach(w)
  BY <1>20 DEF Reattach, Step
<1>21. CASE offer_termination(w)
  BY <1>21 DEF offer_termination, Step
<1>22. CASE TestOffered(w)
  BY <1>22 DEF TestOffered
<1>23. CASE peek(w)
  BY <1>23 DEF peek, Step
<1>24. CASE PeekTop(w)
  BY <1>24 DEF PeekTop
<1>25. CASE Withdraw(w)
  BY <1>25 DEF Withdraw, Step
<1>. QED
  BY <1>1, <1>2, <1>3, <1>4, <1>5, <1>6, <1>7, <1>8, <1>9, <1>10, <1>11, <1>12,
     <1>13, <1>14, <1>15, <1>16, <1>17, <1>18, <1>19, <1>20, <1>21, <1>22, <1>23,
     <1>24, <1>25 DEF WorkerNext

LEMMA LocalsAre ==
  ASSUME NEW l \in Locals
  PROVE  /\ l.localBot \in Index /\ l.oldAge \in Age /\ l.t \in Task \cup {NoTask}
         /\ l.k \in Worker /\ l.i \in 0 .. MaxTries
         /\ \A b \in Index : [l EXCEPT !.localBot = b] \in Locals
         /\ \A a \in Age : [l EXCEPT !.oldAge = a] \in Locals
         /\ \A t \in Task \cup {NoTask} : [l EXCEPT !.t = t] \in Locals
         /\ \A k \in Worker : [l EXCEPT !.k = k] \in Locals
         /\ \A i \in 0 .. MaxTries : [l EXCEPT !.i = i] \in Locals
<1>. DEFINE X == Task \cup {NoTask} R == 0 .. MaxTries
<1>1. Locals = [localBot : Index, oldAge : Age, t : X, k : Worker, i : R]
  BY DEF Locals, Index
<1>. HIDE DEF X, R
<1>2. /\ l.localBot \in Index /\ l.oldAge \in Age /\ l.t \in X /\ l.k \in Worker /\ l.i \in R
  BY SMT, <1>1
<1>3. /\ \A b \in Index : [l EXCEPT !.localBot = b] \in Locals
      /\ \A a \in Age : [l EXCEPT !.oldAge = a] \in Locals
      /\ \A t \in X : [l EXCEPT !.t = t] \in Locals
  BY SMT, <1>1
<1>4. /\ \A k \in Worker : [l EXCEPT !.k = k] \in Locals
      /\ \A i \in R : [l EXCEPT !.i = i] \in Locals
  BY SMT, <1>1
<1>. QED  BY <1>2, <1>3, <1>4 DEF X, R

LEMMA NoLocalsAre == NoLocals \in Locals
<1>1. 0 \in Index /\ NoAge \in Age /\ 0 \in Worker /\ 0 \in 0 .. MaxTries
  BY SMT, TaskQueueAssumption DEF Index, Age, NoAge, Worker
<1>. QED  BY SMT, <1>1 DEF Locals, NoLocals, Index

\* What a worker remembers.
LEMMA LocStep ==
  ASSUME NEW w \in Worker, Types, WorkerNext(w)
  PROVE  loc' \in [Worker -> Locals]
<1>. USE NoLocalsAre DEF Types, QueueType, ControlType
<1>1. CASE Discover(w)
  BY <1>1 DEF Discover, Step
<1>2. CASE Scanned(w)
  BY <1>2 DEF Scanned, Step
<1>3. CASE push(w)
  BY <1>3 DEF push
<1>4. CASE PushElem(w)
  BY <1>4 DEF PushElem, Step
<1>5. CASE PushBottom(w)
  BY <1>5 DEF PushBottom, Pushed
<1>6. CASE push_on_overflow_list(w)
  BY <1>6 DEF push_on_overflow_list, Step
<1>7. CASE trim_queues(w)
  BY <1>7 DEF trim_queues
<1>8. CASE pop_local(w)
  BY <1>8 DEF pop_local
<1>9. CASE DecrementBottom(w)
  BY <1>9 DEF DecrementBottom, Step
<1>10. CASE ReadTop(w)
  <2>1. loc' = loc \/ loc' = [loc EXCEPT ![w] = [loc[w] EXCEPT !.t = elems[w][bottom[w]]]]
    BY <1>10 DEF ReadTop
  <2>2. elems[w][bottom[w]] \in Task \cup {NoTask}
    OBVIOUS
  <2>3. [loc[w] EXCEPT !.t = elems[w][bottom[w]]] \in Locals
    BY <2>2, LocalsAre
  <2>. QED  BY <2>1, <2>3
<1>11. CASE GetAge(w)
  <2>1. loc' = [loc EXCEPT ![w] = [loc[w] EXCEPT !.oldAge = age[w]]]
    BY <1>11 DEF GetAge
  <2>. QED  BY <2>1, LocalsAre
<1>12. CASE pop_local_slow(w)
  BY <1>12 DEF pop_local_slow, Claim, set_age
<1>13. CASE SetAge(w)
  BY <1>13 DEF SetAge, Step, set_age
<1>14. CASE pop_global(w)
  <2>1. PICK k \in Worker \ {w} : loc' = [loc EXCEPT ![w].k = k, ![w].oldAge = age[k]]
    BY <1>14 DEF pop_global
  <2>2. [loc[w] EXCEPT !.k = k] \in Locals
    BY LocalsAre
  <2>3. [[loc[w] EXCEPT !.k = k] EXCEPT !.oldAge = age[k]] \in Locals
    BY <2>2, LocalsAre
  <2>4. loc' = [loc EXCEPT ![w] = [[loc[w] EXCEPT !.k = k] EXCEPT !.oldAge = age[k]]]
    BY <2>1
  <2>. QED  BY <2>3, <2>4
<1>15. CASE GiveUp(w)
  BY <1>15 DEF GiveUp, Step
<1>16. CASE StealBottom(w)
  <2>1. CASE loc' = [loc EXCEPT ![w] = [NoLocals EXCEPT !.i = loc[w].i + 1]] /\ loc[w].i + 1 < MaxTries
    <3>1. loc[w].i + 1 \in 0 .. MaxTries
      BY SMT, <2>1, LocalsAre, TaskQueueAssumption
    <3>. QED  BY <2>1, <3>1, LocalsAre, NoLocalsAre
  <2>. QED  BY <1>16, <2>1 DEF StealBottom, NextTry
<1>17. CASE StealElem(w)
  <2>1. elems[loc[w].k][loc[w].oldAge.top] \in Task \cup {NoTask}
    <3>1. loc[w].k \in Worker /\ loc[w].oldAge.top \in Index
      BY LocalsAre, SMT DEF Age, Index
    <3>. QED  BY <3>1
  <2>2. loc' = [loc EXCEPT ![w] = [loc[w] EXCEPT !.t = elems[loc[w].k][loc[w].oldAge.top]]]
    BY <1>17 DEF StealElem
  <2>. QED  BY <2>1, <2>2, LocalsAre
<1>18. CASE StealCas(w)
  <2>1. CASE loc' = [loc EXCEPT ![w] = [NoLocals EXCEPT !.i = loc[w].i + 1]] /\ loc[w].i + 1 < MaxTries
    <3>1. loc[w].i + 1 \in 0 .. MaxTries
      BY SMT, <2>1, LocalsAre, TaskQueueAssumption
    <3>. QED  BY <2>1, <3>1, LocalsAre, NoLocalsAre
  <2>. QED  BY <1>18, <2>1 DEF StealCas, NextTry
<1>19. CASE take_from_overflow_list(w)
  BY <1>19 DEF take_from_overflow_list
<1>20. CASE Reattach(w)
  BY <1>20 DEF Reattach, Step
<1>21. CASE offer_termination(w)
  BY <1>21 DEF offer_termination, Step
<1>22. CASE TestOffered(w)
  BY <1>22 DEF TestOffered
<1>23. CASE peek(w)
  <2>1. loc' = [loc EXCEPT ![w] = [loc[w] EXCEPT !.localBot = bottom[loc[w].k]]]
    BY <1>23 DEF peek
  <2>. QED  BY <2>1, LocalsAre
<1>24. CASE PeekTop(w)
  <2>1. CASE loc' = [loc EXCEPT ![w] = [NoLocals EXCEPT !.k = loc[w].k + 1]] /\ loc[w].k < NWorkers - 1
    <3>1. loc[w].k + 1 \in Worker
      BY SMT, <2>1, LocalsAre, TaskQueueAssumption DEF Worker
    <3>. QED  BY <2>1, <3>1, LocalsAre
  <2>. QED  BY <1>24, <2>1 DEF PeekTop
<1>25. CASE Withdraw(w)
  BY <1>25 DEF Withdraw, Step
<1>. QED
  BY <1>1, <1>2, <1>3, <1>4, <1>5, <1>6, <1>7, <1>8, <1>9, <1>10, <1>11, <1>12,
     <1>13, <1>14, <1>15, <1>16, <1>17, <1>18, <1>19, <1>20, <1>21, <1>22, <1>23,
     <1>24, <1>25 DEF WorkerNext

\* What is on the queues.
LEMMA QueueTypeStep ==
  ASSUME NEW w \in Worker, Types, WorkerNext(w)
  PROVE  QueueType'
<1>. USE IndexFacts, LocalsAre DEF Types, QueueType, ControlType, queueVars
<1>1. CASE Discover(w)
  BY <1>1 DEF Discover, Step
<1>2. CASE Scanned(w)
  BY <1>2 DEF Scanned, Step
<1>3. CASE push(w)
  BY <1>3 DEF push
<1>4. CASE PushElem(w)
  <2>1. ToPush(w) \in Task \cup {NoTask}
    BY SMT DEF ToPush, WorkType
  <2>2. elems' = [elems EXCEPT ![w] = [elems[w] EXCEPT ![bottom[w]] = ToPush(w)]]
    BY <1>4 DEF PushElem
  <2>3. [elems[w] EXCEPT ![bottom[w]] = ToPush(w)] \in [Index -> Task \cup {NoTask}]
    BY <2>1
  <2>4. elems' \in [Worker -> [Index -> Task \cup {NoTask}]]
    BY <2>2, <2>3
  <2>. QED  BY <1>4, <2>4 DEF PushElem
<1>5. CASE PushBottom(w)
  BY <1>5 DEF PushBottom, Pushed
<1>6. CASE push_on_overflow_list(w)
  BY <1>6 DEF push_on_overflow_list, Step
<1>7. CASE trim_queues(w)
  BY <1>7 DEF trim_queues
<1>8. CASE pop_local(w)
  BY <1>8 DEF pop_local
<1>9. CASE DecrementBottom(w)
  BY <1>9 DEF DecrementBottom, Step
<1>10. CASE ReadTop(w)
  BY <1>10 DEF ReadTop, Claim
<1>11. CASE GetAge(w)
  BY <1>11 DEF GetAge, Step
<1>12. CASE pop_local_slow(w)
  <2>1. age' = age \/ age' = [age EXCEPT ![w] = EmptyAge(bottom[w], loc[w].oldAge)]
    BY <1>12 DEF pop_local_slow, set_age
  <2>2. EmptyAge(bottom[w], loc[w].oldAge) \in Age
    BY AgeFacts, LocalsAre
  <2>3. elems' = elems /\ bottom' = bottom
    BY <1>12 DEF pop_local_slow
  <2>4. age' \in [Worker -> Age]
    BY <2>1, <2>2
  <2>. QED  BY <2>3, <2>4
<1>13. CASE SetAge(w)
  <2>1. EmptyAge(bottom[w], loc[w].oldAge) \in Age
    BY AgeFacts, LocalsAre
  <2>. QED  BY <1>13, <2>1 DEF SetAge, set_age
<1>14. CASE pop_global(w)
  BY <1>14 DEF pop_global, Step
<1>15. CASE GiveUp(w)
  BY <1>15 DEF GiveUp, Step
<1>16. CASE StealBottom(w)
  BY <1>16 DEF StealBottom, NextTry
<1>17. CASE StealElem(w)
  BY <1>17 DEF StealElem, Step
<1>18. CASE StealCas(w)
  <2>1. age' = age \/ age' = [age EXCEPT ![loc[w].k] = Stolen(age[loc[w].k])]
    BY <1>18 DEF StealCas
  <2>2. loc[w].k \in Worker
    BY LocalsAre
  <2>3. Stolen(age[loc[w].k]) \in Age
    <3>1. age[loc[w].k] \in Age /\ bottom[w] \in Index
      BY <2>2
    <3>. QED  BY <3>1, AgeFacts
  <2>4. elems' = elems /\ bottom' = bottom
    BY <1>18 DEF StealCas
  <2>5. age' \in [Worker -> Age]
    BY <2>1, <2>2, <2>3
  <2>. QED  BY <2>4, <2>5
<1>19. CASE take_from_overflow_list(w)
  BY <1>19 DEF take_from_overflow_list
<1>20. CASE Reattach(w)
  BY <1>20 DEF Reattach, Step
<1>21. CASE offer_termination(w)
  BY <1>21 DEF offer_termination, Step
<1>22. CASE TestOffered(w)
  BY <1>22 DEF TestOffered
<1>23. CASE peek(w)
  BY <1>23 DEF peek, Step
<1>24. CASE PeekTop(w)
  BY <1>24 DEF PeekTop
<1>25. CASE Withdraw(w)
  BY <1>25 DEF Withdraw, Step
<1>. QED
  BY <1>1, <1>2, <1>3, <1>4, <1>5, <1>6, <1>7, <1>8, <1>9, <1>10, <1>11, <1>12,
     <1>13, <1>14, <1>15, <1>16, <1>17, <1>18, <1>19, <1>20, <1>21, <1>22, <1>23,
     <1>24, <1>25 DEF WorkerNext

\* Whoever puts an object on the overflow list has found one.
LEMMA WorkTypeStep ==
  ASSUME NEW w \in Worker, Types, HandInv(w), WorkerNext(w)
  PROVE  WorkType'
<1>. USE LocalsAre DEF Types, WorkType, workVars
<1>1. CASE Discover(w)
  <2>1. created + 1 \in 0 .. MaxTasks /\ created + 1 \in Task
    BY SMT, <1>1, TaskQueueAssumption DEF Discover, Task
  <2>. QED  BY <1>1, <2>1 DEF Discover
<1>2. CASE Scanned(w)
  <2>1. hold[w] \in Task \cup {NoTask}
    OBVIOUS
  <2>. QED  BY <1>2, <2>1 DEF Scanned
<1>3. CASE push(w)
  BY <1>3 DEF push
<1>4. CASE PushElem(w)
  BY <1>4 DEF PushElem, Step
<1>5. CASE PushBottom(w)
  <2>1. prefix[w] # <<>> => Tail(prefix[w]) \in Seq(Task)
    BY SMT
  <2>. QED  BY <1>5, <2>1 DEF PushBottom, Pushed
<1>6. CASE push_on_overflow_list(w)
  <2>1. found[w] \in Task
    BY <1>6 DEF push_on_overflow_list, Step, HandInv
  <2>2. <<found[w]>> \o overflow \in Seq(Task)
    BY SMT, <2>1
  <2>. QED  BY <1>6, <2>2 DEF push_on_overflow_list
<1>7. CASE trim_queues(w)
  BY <1>7 DEF trim_queues
<1>8. CASE pop_local(w)
  BY <1>8 DEF pop_local
<1>9. CASE DecrementBottom(w)
  BY <1>9 DEF DecrementBottom, Step
<1>10. CASE ReadTop(w)
  <2>1. elems[w][bottom[w]] \in Task \cup {NoTask}
    BY DEF QueueType
  <2>. QED  BY <1>10, <2>1 DEF ReadTop, Claim
<1>11. CASE GetAge(w)
  BY <1>11 DEF GetAge, Step
<1>12. CASE pop_local_slow(w)
  <2>1. loc[w].t \in Task \cup {NoTask}
    BY DEF ControlType
  <2>. QED  BY <1>12, <2>1 DEF pop_local_slow, Claim
<1>13. CASE SetAge(w)
  BY <1>13 DEF SetAge, Step, set_age
<1>14. CASE pop_global(w)
  BY <1>14 DEF pop_global, Step
<1>15. CASE GiveUp(w)
  BY <1>15 DEF GiveUp, Step
<1>16. CASE StealBottom(w)
  BY <1>16 DEF StealBottom, NextTry
<1>17. CASE StealElem(w)
  BY <1>17 DEF StealElem, Step
<1>18. CASE StealCas(w)
  <2>1. loc[w].t \in Task \cup {NoTask}
    BY DEF ControlType
  <2>. QED  BY <1>18, <2>1 DEF StealCas, Claim
<1>19. CASE take_from_overflow_list(w)
  <2>1. <<>> \in Seq(Task)
    BY SMT
  <2>. QED  BY <1>19, <2>1 DEF take_from_overflow_list
<1>20. CASE Reattach(w)
  <2>. DEFINE n == Max1(objsFromOverflow)
              p == SubSeq(prefix[w], 1, n) s == SubSeq(prefix[w], n + 1, Len(prefix[w]))
  <2>1. n \in Nat
    BY KeptFacts DEF Kept
  <2>. HIDE DEF n
  <2>2. prefix[w] \in Seq(Task)
    OBVIOUS
  <2>3. p \in Seq(Task) /\ s \in Seq(Task)
    <3>1. Len(prefix[w]) > n
      BY <1>20 DEF Reattach, Step, HandInv, Kept, n
    <3>. QED  BY SMT, <2>1, <2>2, <3>1
  <2>4. s \o overflow \in Seq(Task)
    BY SMT, <2>3
  <2>5. overflow' = s \o overflow /\ prefix' = [prefix EXCEPT ![w] = p]
    BY <1>20 DEF Reattach, Rejoined, n
  <2>. QED  BY <1>20, <2>3, <2>4, <2>5 DEF Reattach
<1>21. CASE offer_termination(w)
  BY <1>21 DEF offer_termination, Step
<1>22. CASE TestOffered(w)
  BY <1>22 DEF TestOffered
<1>23. CASE peek(w)
  BY <1>23 DEF peek, Step
<1>24. CASE PeekTop(w)
  BY <1>24 DEF PeekTop
<1>25. CASE Withdraw(w)
  BY <1>25 DEF Withdraw, Step
<1>. QED
  BY <1>1, <1>2, <1>3, <1>4, <1>5, <1>6, <1>7, <1>8, <1>9, <1>10, <1>11, <1>12,
     <1>13, <1>14, <1>15, <1>16, <1>17, <1>18, <1>19, <1>20, <1>21, <1>22, <1>23,
     <1>24, <1>25 DEF WorkerNext

----------------------------------------------------------------------------
(* What a step leaves alone.                                               *)

\* A thief that is ahead of the others takes the oldest element of another queue.
Steals(w, v) ==
  /\ pc[w] = "stealCas" /\ v = loc[w].k /\ loc[w].oldAge = age[v]
  /\ age'[v] = Stolen(age[v])

Alone(w, v) ==
  /\ pc'[v] = pc[v] /\ loc'[v] = loc[v] /\ hold'[v] = hold[v] /\ found'[v] = found[v]
  /\ prefix'[v] = prefix[v] /\ bottom'[v] = bottom[v] /\ elems'[v] = elems[v]
  /\ age'[v] = age[v] \/ Steals(w, v)

\* The elements of the queue of w stay where they are in most steps of w.
Kept1 == {"pushBottom", "readTop", "cas", "setAge"}
QueueKept(w) ==
  /\ pc[w] \notin Kept1 => Length(w)' = Length(w) /\ EndOf(w)' = EndOf(w) /\ age'[w] = age[w]
  /\ pc[w] \notin Kept1 \cup {"dec"} => bottom'[w] = bottom[w]
  /\ pc[w] # "pushElem" => elems'[w] = elems[w]

\* A worker leaves the variables of the others alone, unless it steals.
LEMMA AloneStep ==
  ASSUME NEW w \in Worker, Types, WorkerNext(w)
  PROVE  \A v \in Worker \ {w} : Alone(w, v)
<1>. USE DEF Types, QueueType, ControlType, WorkType, queueVars, workVars, Alone
<1>1. CASE Discover(w)
  BY <1>1 DEF Discover, Step
<1>2. CASE Scanned(w)
  BY <1>2 DEF Scanned, Step
<1>3. CASE push(w)
  BY <1>3 DEF push
<1>4. CASE PushElem(w)
  BY <1>4 DEF PushElem, Step
<1>5. CASE PushBottom(w)
  BY <1>5 DEF PushBottom, Pushed
<1>6. CASE push_on_overflow_list(w)
  BY <1>6 DEF push_on_overflow_list, Step
<1>7. CASE trim_queues(w)
  BY <1>7 DEF trim_queues
<1>8. CASE pop_local(w)
  BY <1>8 DEF pop_local
<1>9. CASE DecrementBottom(w)
  BY <1>9 DEF DecrementBottom, Step
<1>10. CASE ReadTop(w)
  BY <1>10 DEF ReadTop, Claim
<1>11. CASE GetAge(w)
  BY <1>11 DEF GetAge, Step
<1>12. CASE pop_local_slow(w)
  BY <1>12 DEF pop_local_slow, Claim, set_age
<1>13. CASE SetAge(w)
  BY <1>13 DEF SetAge, Step, set_age
<1>14. CASE pop_global(w)
  BY <1>14 DEF pop_global, Step
<1>15. CASE GiveUp(w)
  BY <1>15 DEF GiveUp, Step
<1>16. CASE StealBottom(w)
  BY <1>16 DEF StealBottom, NextTry
<1>17. CASE StealElem(w)
  BY <1>17 DEF StealElem, Step
<1>18. CASE StealCas(w)
  <2>. TAKE v \in Worker \ {w}
  <2>1. loc[w].k \in Worker
    BY LocalsAre
  <2>2. age'[v] = age[v] \/ Steals(w, v)
    <3>1. CASE age' = age
      BY <3>1
    <3>2. CASE age' = [age EXCEPT ![loc[w].k] = Stolen(@)] /\ loc[w].oldAge = age[loc[w].k]
      <4>1. pc[w] = "stealCas"
        BY <1>18 DEF StealCas
      <4>2. CASE v = loc[w].k
        BY <2>1, <3>2, <4>1, <4>2 DEF Steals
      <4>3. CASE v # loc[w].k
        BY <2>1, <3>2, <4>3
      <4>. QED  BY <4>2, <4>3
    <3>. QED  BY <1>18, <3>1, <3>2 DEF StealCas, Unchanged
  <2>3. pc'[v] = pc[v] /\ loc'[v] = loc[v] /\ hold'[v] = hold[v]
    BY <1>18 DEF StealCas, NextTry, Claim
  <2>. QED  BY <1>18, <2>2, <2>3 DEF StealCas
<1>19. CASE take_from_overflow_list(w)
  BY <1>19 DEF take_from_overflow_list
<1>20. CASE Reattach(w)
  BY <1>20 DEF Reattach, Step
<1>21. CASE offer_termination(w)
  BY <1>21 DEF offer_termination, Step
<1>22. CASE TestOffered(w)
  BY <1>22 DEF TestOffered
<1>23. CASE peek(w)
  BY <1>23 DEF peek, Step
<1>24. CASE PeekTop(w)
  BY <1>24 DEF PeekTop
<1>25. CASE Withdraw(w)
  BY <1>25 DEF Withdraw, Step
<1>. QED
  BY <1>1, <1>2, <1>3, <1>4, <1>5, <1>6, <1>7, <1>8, <1>9, <1>10, <1>11, <1>12,
     <1>13, <1>14, <1>15, <1>16, <1>17, <1>18, <1>19, <1>20, <1>21, <1>22, <1>23,
     <1>24, <1>25 DEF WorkerNext

\* Nor does it disturb its own queue outside push() and pop_local().
LEMMA QueueKeptStep ==
  ASSUME NEW w \in Worker, Types, ThiefInv(w), WorkerNext(w)
  PROVE  QueueKept(w)
<1>. USE DEF Types, QueueType, ControlType, queueVars, QueueKept, Kept1, Length,
           EndOf, Popping
<1>1. CASE Discover(w)
  BY <1>1 DEF Discover, Step
<1>2. CASE Scanned(w)
  BY <1>2 DEF Scanned, Step
<1>3. CASE push(w)
  BY <1>3 DEF push
<1>4. CASE PushElem(w)
  BY <1>4 DEF PushElem, Step
<1>5. CASE PushBottom(w)
  BY <1>5 DEF PushBottom, Pushed
<1>6. CASE push_on_overflow_list(w)
  BY <1>6 DEF push_on_overflow_list, Step
<1>7. CASE trim_queues(w)
  BY <1>7 DEF trim_queues
<1>8. CASE pop_local(w)
  BY <1>8 DEF pop_local
<1>9. CASE DecrementBottom(w)
  <2>1. bottom[w] \in Index
    OBVIOUS
  <2>2. increment_index(decrement_index(bottom[w])) = bottom[w]
    BY <2>1, IndexFacts
  <2>. QED  BY <1>9, <2>2 DEF DecrementBottom, Step
<1>10. CASE ReadTop(w)
  BY <1>10 DEF ReadTop
<1>11. CASE GetAge(w)
  BY <1>11 DEF GetAge, Step
<1>12. CASE pop_local_slow(w)
  BY <1>12 DEF pop_local_slow, Claim, set_age
<1>13. CASE SetAge(w)
  BY <1>13 DEF SetAge, Step, set_age
<1>14. CASE pop_global(w)
  BY <1>14 DEF pop_global, Step
<1>15. CASE GiveUp(w)
  BY <1>15 DEF GiveUp, Step
<1>16. CASE StealBottom(w)
  BY <1>16 DEF StealBottom, NextTry
<1>17. CASE StealElem(w)
  BY <1>17 DEF StealElem, Step
<1>18. CASE StealCas(w)
  <2>1. age'[w] = age[w]
    BY <1>18 DEF StealCas, ThiefInv, Stealing
  <2>2. pc'[w] \notin {"readTop", "getAge", "cas", "setAge"} /\ pc[w] = "stealCas"
    BY <1>18 DEF StealCas, NextTry
  <2>. QED  BY <1>18, <2>1, <2>2 DEF StealCas
<1>19. CASE take_from_overflow_list(w)
  BY <1>19 DEF take_from_overflow_list
<1>20. CASE Reattach(w)
  BY <1>20 DEF Reattach, Step
<1>21. CASE offer_termination(w)
  BY <1>21 DEF offer_termination, Step
<1>22. CASE TestOffered(w)
  BY <1>22 DEF TestOffered
<1>23. CASE peek(w)
  BY <1>23 DEF peek, Step
<1>24. CASE PeekTop(w)
  BY <1>24 DEF PeekTop
<1>25. CASE Withdraw(w)
  BY <1>25 DEF Withdraw, Step
<1>. QED
  BY <1>1, <1>2, <1>3, <1>4, <1>5, <1>6, <1>7, <1>8, <1>9, <1>10, <1>11, <1>12,
     <1>13, <1>14, <1>15, <1>16, <1>17, <1>18, <1>19, <1>20, <1>21, <1>22, <1>23,
     <1>24, <1>25 DEF WorkerNext

----------------------------------------------------------------------------
(* The ends of a queue.                                                    *)

LEMMA EndFacts ==
  ASSUME Types, NEW w \in Worker
  PROVE  /\ age[w] \in Age /\ age[w].top \in Index /\ bottom[w] \in Index /\ EndOf(w) \in Index
         /\ Length(w) \in Index /\ (Length(w) = 0 <=> EndOf(w) = age[w].top)
         /\ (Length(w) = N - 1 <=> increment_index(EndOf(w)) = age[w].top)
<1>1. age[w] \in Age /\ bottom[w] \in Index
  BY DEF Types, QueueType
<1>2. age[w].top \in Index /\ EndOf(w) \in Index /\ Length(w) \in Index
  BY <1>1, ContentsAre
<1>. QED  BY <1>1, <1>2, SizeFacts DEF Length

\* One more element at the bottom.
LEMMA PushEnds ==
  ASSUME Types, NEW w \in Worker, EndsInv(w), PushBottom(w)
  PROVE  /\ EndOf(w) = bottom[w] /\ EndOf(w)' = increment_index(bottom[w]) /\ age' = age
         /\ Length(w)' = Length(w) + 1 /\ Length(w) < N - 2
<1>1. pc[w] = "pushBottom" /\ pc'[w] \in {"scan", "push", "trim"} /\ age' = age
      /\ bottom'[w] = increment_index(bottom[w])
  BY DEF PushBottom, Pushed, Types, ControlType, QueueType
<1>2. EndOf(w) = bottom[w] /\ EndOf(w)' = increment_index(bottom[w])
  BY <1>1 DEF EndOf, Popping
<1>3. Length(w) < N - 2 /\ Length(w) \in Index
  BY <1>1, EndFacts DEF EndsInv
<1>4. Length(w) # N - 1
  BY SMT, <1>3, TaskQueueAssumption DEF Index
<1>5. bottom[w] \in Index /\ age[w].top \in Index
  BY EndFacts
<1>6. dirty_size(bottom[w], age[w].top) # N - 1 =>
        dirty_size(increment_index(bottom[w]), age[w].top) = dirty_size(bottom[w], age[w].top) + 1
  BY <1>5, SizeFacts
<1>7. Length(w) = dirty_size(bottom[w], age[w].top)
      /\ Length(w)' = dirty_size(increment_index(bottom[w]), age[w].top)
  BY <1>1, <1>2 DEF Length
<1>. QED  BY <1>1, <1>2, <1>3, <1>4, <1>6, <1>7

\* What pop_local() finds after it has moved the bottom.
LEMMA PopEnds ==
  ASSUME Types, NEW w \in Worker, EndsInv(w), pc[w] = "readTop"
  PROVE  /\ EndOf(w) = increment_index(bottom[w])
         /\ Uncontested(w) => /\ dirty_size(bottom[w], age[w].top) = Length(w) - 1
                              /\ Length(w) > 1
         /\ ~Uncontested(w) => Length(w) <= 1
<1>. DEFINE d == dirty_size(bottom[w], age[w].top)
<1>1. EndOf(w) = increment_index(bottom[w])
  BY DEF EndOf, Popping
<1>2. age[w].top \in Index /\ bottom[w] \in Index /\ Length(w) \in Index
  BY EndFacts
<1>3. d \in Index /\ (d # N - 1 => Length(w) = d + 1) /\ (d = N - 1 <=> EndOf(w) = age[w].top)
  <2>1. /\ d \in Index /\ (d = N - 1 <=> increment_index(bottom[w]) = age[w].top)
        /\ d # N - 1 => dirty_size(increment_index(bottom[w]), age[w].top) = d + 1
    BY <1>2, SizeFacts
  <2>2. Length(w) = dirty_size(increment_index(bottom[w]), age[w].top)
    BY <1>1 DEF Length
  <2>. QED  BY <1>1, <2>1, <2>2
<1>4. Length(w) = 0 <=> EndOf(w) = age[w].top
  BY EndFacts
<1>5. Uncontested(w) <=> d # N - 1 /\ d > 0
  BY SMT, <1>3, TaskQueueAssumption DEF Uncontested, size, Index
<1>. HIDE DEF d
<1>6. Uncontested(w) => d = Length(w) - 1 /\ Length(w) > 1
  BY SMT, <1>2, <1>3, <1>5, TaskQueueAssumption DEF Index
<1>7. ~Uncontested(w) => Length(w) <= 1
  BY SMT, <1>2, <1>3, <1>4, <1>5, TaskQueueAssumption DEF Index
<1>. QED  BY <1>1, <1>6, <1>7 DEF d

\* pop_local_slow() leaves an empty queue, with another tag.
LEMMA EmptyEnds ==
  ASSUME Types, NEW w \in Worker, EndsInv(w), pc[w] \in {"cas", "setAge"}, set_age(w),
         bottom' = bottom, pc'[w] \in {"scan", "trim"},
         pc[w] = "setAge" \/ bottom[w] # loc[w].oldAge.top \/ age[w] = loc[w].oldAge
  PROVE  /\ EndOf(w)' = bottom[w] /\ Length(w)' = 0 /\ age'[w].top = bottom[w]
         /\ age'[w] # age[w]
         /\ EndOf(w) = increment_index(bottom[w])
<1>1. EndOf(w) = increment_index(bottom[w]) /\ EndOf(w)' = bottom[w]
  BY DEF EndOf, Popping
<1>2. age[w] \in Age /\ bottom[w] \in Index /\ loc[w].oldAge \in Age
  BY EndFacts, LocalsAre DEF Types, ControlType
<1>3. age'[w] = EmptyAge(bottom[w], loc[w].oldAge)
  BY DEF set_age, Types, QueueType
<1>4. age'[w].top = bottom[w]
  BY SMT, <1>2, <1>3, AgeFacts
<1>5. Length(w)' = 0
  <2>1. dirty_size(bottom[w], bottom[w]) = 0
    BY <1>2, SizeFacts
  <2>. QED  BY <1>1, <1>4, <2>1 DEF Length
<1>6. age'[w] # age[w]
  <2>1. CASE age[w] = loc[w].oldAge
    BY SMT, <1>2, <1>3, <2>1, AgeFacts
  <2>2. CASE age[w] # loc[w].oldAge
    <3>1. Length(w) = 0
      <4>1. CASE pc[w] = "setAge"
        BY <4>1 DEF EndsInv
      <4>2. CASE pc[w] = "cas"
        <5>1. Length(w) # 1 /\ Length(w) <= 1 /\ Length(w) \in Index
          BY <2>2, <4>2, EndFacts DEF EndsInv
        <5>. QED  BY SMT, <5>1, TaskQueueAssumption DEF Index
      <4>. QED  BY <4>1, <4>2
    <3>2. age[w].top = increment_index(bottom[w])
      BY <1>1, <3>1, EndFacts
    <3>. QED  BY <1>2, <1>4, <3>2, IndexFacts
  <2>. QED  BY <2>1, <2>2
<1>. QED  BY <1>1, <1>4, <1>5, <1>6

----------------------------------------------------------------------------
(* What a step does to the invariants of the worker itself.                *)

\* The ends of its queue.
LEMMA EndsStep ==
  ASSUME NEW w \in Worker, Types, EndsInv(w), HandInv(w), QueueKept(w), WorkerNext(w)
  PROVE  EndsInv(w)'
<1>. USE DEF Types, ControlType, QueueType, EndsInv, QueueKept, Kept1, Idle,
           Peeking, Stealing
<1>1. CASE Discover(w)
  BY <1>1 DEF Discover, Step
<1>2. CASE Scanned(w)
  BY <1>2 DEF Scanned, Step
<1>3. CASE push(w)
  <2>1. pc[w] = "push" /\ bottom' = bottom /\ Length(w)' = Length(w)
        /\ pc'[w] \in {"pushElem", "overflow", "trim"}
    BY <1>3 DEF push, queueVars
  <2>2. pc'[w] = "pushElem" => HasRoom(bottom[w], age[w].top)
    BY <1>3 DEF push
  <2>3. Length(w) = dirty_size(bottom[w], age[w].top)
    BY <2>1 DEF Length, EndOf, Popping
  <2>4. Length(w) \in Index
    BY EndFacts
  <2>5. HasRoom(bottom[w], age[w].top) => Length(w) < N - 2
    BY SMT, <2>3, <2>4, TaskQueueAssumption DEF HasRoom, max_elems, Index
  <2>. QED  BY <2>1, <2>2, <2>5
<1>4. CASE PushElem(w)
  <2>1. ToPush(w)' = ToPush(w)
    BY <1>4 DEF PushElem, ToPush, workVars
  <2>2. bottom[w] \in Index
    OBVIOUS
  <2>3. elems'[w][bottom[w]] = ToPush(w)
    BY <1>4, <2>2 DEF PushElem
  <2>. QED  BY <1>4, <2>1, <2>3 DEF PushElem, Step
<1>5. CASE PushBottom(w)
  <2>1. pc'[w] \in {"scan", "push", "trim"}
    BY <1>5 DEF PushBottom, Pushed
  <2>2. Length(w)' = Length(w) + 1 /\ Length(w) < N - 2 /\ Length(w) \in Index
    BY <1>5, PushEnds, EndFacts
  <2>3. Length(w)' < N - 1
    BY SMT, <2>2, TaskQueueAssumption DEF Index
  <2>. QED  BY <2>1, <2>3
<1>6. CASE push_on_overflow_list(w)
  BY <1>6 DEF push_on_overflow_list, Step
<1>7. CASE trim_queues(w)
  <2>1. pc[w] = "trim" /\ Length(w)' = Length(w) /\ pc'[w] \in {"pop", "steal"}
    BY <1>7 DEF trim_queues
  <2>2. Length(w) = dirty_size(bottom[w], age[w].top) /\ Length(w) \in Index
    BY <2>1, EndFacts DEF Length, EndOf, Popping
  <2>3. pc'[w] = "steal" => ~(size(bottom[w], age[w].top) > 0)
    BY <1>7 DEF trim_queues
  <2>4. ~(size(bottom[w], age[w].top) > 0) => Length(w) = 0
    BY SMT, <2>2, TaskQueueAssumption DEF size, Index
  <2>. QED  BY <2>1, <2>3, <2>4
<1>8. CASE pop_local(w)
  BY <1>8 DEF pop_local
<1>9. CASE DecrementBottom(w)
  BY <1>9 DEF DecrementBottom, Step
<1>10. CASE ReadTop(w)
  <2>1. pc[w] = "readTop" /\ bottom' = bottom /\ age' = age /\ elems' = elems
    BY <1>10 DEF ReadTop, queueVars
  <2>2. Length(w) \in Index /\ Length(w) < N - 1
    BY EndFacts
  <2>3. CASE Uncontested(w)
    <3>1. pc'[w] = "scan"
      BY <1>10, <2>3 DEF ReadTop
    <3>2. Length(w)' = dirty_size(bottom[w], age[w].top)
      BY <2>1, <3>1 DEF Length, EndOf, Popping
    <3>3. Length(w)' = Length(w) - 1
      BY <2>1, <2>3, <3>2, PopEnds
    <3>4. Length(w)' < N - 1
      BY SMT, <2>2, <3>3, TaskQueueAssumption DEF Index
    <3>. QED  BY <3>1, <3>4
  <2>4. CASE ~Uncontested(w)
    <3>1. pc'[w] = "getAge" /\ loc' = [loc EXCEPT ![w].t = elems[w][bottom[w]]]
      BY <1>10, <2>4 DEF ReadTop
    <3>2. Length(w)' = Length(w)
      BY <2>1, <3>1 DEF Length, EndOf, Popping
    <3>3. Length(w) <= 1
      BY <2>1, <2>4, PopEnds
    <3>4. loc'[w].t = elems[w][bottom[w]]
      BY SMT, <3>1 DEF Locals
    <3>. QED  BY <2>1, <2>2, <3>1, <3>2, <3>3, <3>4
  <2>. QED  BY <2>3, <2>4
<1>11. CASE GetAge(w)
  <2>1. loc'[w].t = loc[w].t /\ loc'[w].oldAge = age[w]
    BY SMT, <1>11 DEF GetAge, Locals
  <2>. QED  BY <1>11, <2>1 DEF GetAge, Step, queueVars
<1>12. CASE pop_local_slow(w)
  <2>1. pc[w] = "cas" /\ bottom' = bottom
    BY <1>12 DEF pop_local_slow
  <2>2. CASE pc'[w] = "setAge"
    <3>1. age' = age /\ age[w] # loc[w].oldAge
      BY <1>12, <2>2 DEF pop_local_slow
    <3>2. Length(w)' = Length(w)
      BY <2>1, <2>2, <3>1 DEF Length, EndOf, Popping
    <3>3. Length(w) # 1 /\ Length(w) <= 1 /\ Length(w) \in Index
      BY <2>1, <3>1, EndFacts
    <3>4. Length(w) = 0
      BY SMT, <3>3, TaskQueueAssumption DEF Index
    <3>5. 0 < N - 1
      BY SMT, TaskQueueAssumption
    <3>. QED  BY <2>2, <3>2, <3>4, <3>5
  <2>3. CASE pc'[w] # "setAge"
    <3>1. pc'[w] \in {"scan", "trim"} /\ set_age(w)
          /\ (bottom[w] # loc[w].oldAge.top \/ age[w] = loc[w].oldAge)
      BY <1>12, <2>3 DEF pop_local_slow
    <3>2. Length(w)' = 0
      BY <2>1, <3>1, EmptyEnds DEF Types
    <3>3. 0 < N - 1
      BY SMT, TaskQueueAssumption
    <3>. QED  BY <3>1, <3>2, <3>3
  <2>. QED  BY <2>2, <2>3
<1>13. CASE SetAge(w)
  <2>1. pc[w] = "setAge" /\ bottom' = bottom /\ pc'[w] = "trim" /\ set_age(w)
    BY <1>13 DEF SetAge, Step
  <2>2. Length(w)' = 0
    BY <2>1, EmptyEnds
  <2>3. 0 < N - 1
    BY SMT, TaskQueueAssumption
  <2>. QED  BY <2>1, <2>2, <2>3
<1>14. CASE pop_global(w)
  BY <1>14 DEF pop_global, Step
<1>15. CASE GiveUp(w)
  BY <1>15 DEF GiveUp, Step
<1>16. CASE StealBottom(w)
  BY <1>16 DEF StealBottom, NextTry
<1>17. CASE StealElem(w)
  BY <1>17 DEF StealElem, Step
<1>18. CASE StealCas(w)
  BY <1>18 DEF StealCas, NextTry, Claim
<1>19. CASE take_from_overflow_list(w)
  BY <1>19 DEF take_from_overflow_list
<1>20. CASE Reattach(w)
  BY <1>20 DEF Reattach, Step
<1>21. CASE offer_termination(w)
  BY <1>21 DEF offer_termination, Step
<1>22. CASE TestOffered(w)
  BY <1>22 DEF TestOffered
<1>23. CASE peek(w)
  BY <1>23 DEF peek, Step
<1>24. CASE PeekTop(w)
  BY <1>24 DEF PeekTop
<1>25. CASE Withdraw(w)
  BY <1>25 DEF Withdraw, Step
<1>. QED
  BY <1>1, <1>2, <1>3, <1>4, <1>5, <1>6, <1>7, <1>8, <1>9, <1>10, <1>11, <1>12,
     <1>13, <1>14, <1>15, <1>16, <1>17, <1>18, <1>19, <1>20, <1>21, <1>22, <1>23,
     <1>24, <1>25 DEF WorkerNext

\* What it has in hand.
LEMMA HandStep ==
  ASSUME NEW w \in Worker, Types, EndsInv(w), HandInv(w), QueueKept(w),
         pc[w] = "stealCas" /\ loc[w].oldAge = age[loc[w].k] => loc[w].t \in Task, WorkerNext(w)
  PROVE  HandInv(w)'
<1>. USE DEF Types, ControlType, WorkType, HandInv, QueueKept, Kept1, Pushing,
           workVars
<1>1. CASE Discover(w)
  <2>1. created + 1 # NoTask
    BY SMT, <1>1 DEF NoTask
  <2>. QED  BY <1>1, <2>1 DEF Discover, Step
<1>2. CASE Scanned(w)
  BY <1>2 DEF Scanned, Step
<1>3. CASE push(w)
  <2>1. pc[w] = "push" /\ UNCHANGED workVars /\ Length(w)' = Length(w)
        /\ pc'[w] = IF HasRoom(bottom[w], age[w].top) THEN "pushElem"
                    ELSE IF found[w] # NoTask THEN "overflow" ELSE "trim"
    BY <1>3 DEF push
  <2>2. ASSUME found[w] = NoTask PROVE HasRoom(bottom[w], age[w].top)
    <3>1. Length(w) = dirty_size(bottom[w], age[w].top) /\ Length(w) \in Index
      BY <2>1, EndFacts DEF Length, EndOf, Popping
    <3>2. prefix[w] \in Seq(Task)
      OBVIOUS
    <3>3. Length(w) = 0 \/ Length(w) + Len(prefix[w]) <= Kept
      BY <2>1, <2>2
    <3>. QED  BY SMT, <3>1, <3>2, <3>3, KeptFacts, TaskQueueAssumption DEF HasRoom, max_elems, Index
  <2>. QED  BY <2>1, <2>2
<1>4. CASE PushElem(w)
  BY <1>4 DEF PushElem, Step
<1>5. CASE PushBottom(w)
  <2>1. pc[w] = "pushBottom" /\ Length(w)' = Length(w) + 1 /\ Length(w) \in Index
    BY <1>5, PushEnds, EndFacts DEF PushBottom
  <2>2. CASE found[w] # NoTask
    BY <1>5, <2>2 DEF PushBottom, Pushed
  <2>3. CASE found[w] = NoTask /\ prefix[w] # <<>>
    <3>1. /\ prefix' = [prefix EXCEPT ![w] = Tail(@)] /\ hold' = hold /\ found' = found
          /\ pc'[w] = IF Len(prefix[w]) > 1 THEN "push" ELSE "trim"
      BY <1>5, <2>3 DEF PushBottom, Pushed
    <3>2. prefix'[w] = Tail(prefix[w]) /\ prefix[w] \in Seq(Task)
      BY <3>1
    <3>3. Len(prefix[w]) \in Nat /\ Len(Tail(prefix[w])) = Len(prefix[w]) - 1
          /\ (Len(prefix[w]) > 1 <=> Tail(prefix[w]) # <<>>)
      BY <2>3, <3>2, TailFacts
    <3>4. Length(w)' + Len(Tail(prefix[w])) = Length(w) + Len(prefix[w])
      <4>1. \A a \in Index, b \in Nat : (a + 1) + (b - 1) = a + b
        BY SMT, TaskQueueAssumption DEF Index
      <4>. QED  BY <2>1, <3>3, <4>1
    <3>. QED  BY <2>1, <2>3, <3>1, <3>2, <3>3, <3>4
  <2>4. CASE found[w] = NoTask /\ prefix[w] = <<>>
    BY <1>5, <2>4 DEF PushBottom, Pushed
  <2>. QED  BY <2>2, <2>3, <2>4
<1>6. CASE push_on_overflow_list(w)
  BY <1>6 DEF push_on_overflow_list, Step
<1>7. CASE trim_queues(w)
  BY <1>7 DEF trim_queues
<1>8. CASE pop_local(w)
  BY <1>8 DEF pop_local
<1>9. CASE DecrementBottom(w)
  BY <1>9 DEF DecrementBottom, Step
<1>10. CASE ReadTop(w)
  BY <1>10 DEF ReadTop, Claim
<1>11. CASE GetAge(w)
  BY <1>11 DEF GetAge, Step
<1>12. CASE pop_local_slow(w)
  BY <1>12 DEF pop_local_slow, Claim, set_age
<1>13. CASE SetAge(w)
  BY <1>13 DEF SetAge, Step, set_age
<1>14. CASE pop_global(w)
  BY <1>14 DEF pop_global, Step
<1>15. CASE GiveUp(w)
  BY <1>15 DEF GiveUp, Step
<1>16. CASE StealBottom(w)
  BY <1>16 DEF StealBottom, NextTry
<1>17. CASE StealElem(w)
  BY <1>17 DEF StealElem, Step
<1>18. CASE StealCas(w)
  <2>1. Length(w)' = Length(w) /\ Length(w) = 0 /\ pc[w] = "stealCas"
    BY <1>18 DEF StealCas, EndsInv, Idle, Stealing
  <2>2. NoTask \notin Task
    BY SMT DEF Task, NoTask
  <2>3. CASE Unchanged(age[loc[w].k], loc[w].oldAge) /\ Claim(w, loc[w].t) /\ pc'[w] = "push"
    BY <1>18, <2>1, <2>2, <2>3 DEF StealCas, Claim, Unchanged
  <2>4. CASE NextTry(w) /\ UNCHANGED hold
    BY <1>18, <2>1, <2>4 DEF StealCas, NextTry
  <2>. QED  BY <1>18, <2>3, <2>4 DEF StealCas
<1>19. CASE take_from_overflow_list(w)
  <2>1. pc[w] = "take" /\ Length(w)' = 0 /\ hold' = hold /\ found' = found /\ hold[w] = NoTask
        /\ found[w] = NoTask /\ prefix[w] = <<>>
    BY <1>19 DEF take_from_overflow_list, EndsInv, Idle
  <2>2. CASE overflow = <<>>
    BY <1>19, <2>1, <2>2 DEF take_from_overflow_list
  <2>3. CASE overflow # <<>>
    <3>1. prefix'[w] = overflow /\ pc'[w] = IF Len(overflow) > Kept THEN "reattach" ELSE "push"
      BY <1>19, <2>3 DEF take_from_overflow_list, Kept
    <3>2. ~(Len(overflow) > Kept) => 0 + Len(overflow) <= Kept
      BY SMT, KeptFacts
    <3>. QED  BY <2>1, <2>3, <3>1, <3>2
  <2>. QED  BY <2>2, <2>3
<1>20. CASE Reattach(w)
  <2>1. pc[w] = "reattach" /\ Length(w)' = 0 /\ hold' = hold /\ found' = found
        /\ pc'[w] = "push" /\ prefix'[w] = SubSeq(prefix[w], 1, Kept) /\ Len(prefix[w]) > Kept
        /\ prefix[w] \in Seq(Task)
    BY <1>20 DEF Reattach, Step, EndsInv, Idle, Kept
  <2>2. Len(SubSeq(prefix[w], 1, Kept)) = Kept /\ SubSeq(prefix[w], 1, Kept) # <<>>
    <3>1. 0 < Kept /\ Kept \in Nat /\ Kept < Len(prefix[w])
      BY SMT, <2>1, KeptFacts
    <3>. HIDE DEF HandInv, QueueKept
    <3>. QED  BY <2>1, <3>1, CutFacts
  <2>3. 0 + Kept <= Kept
    BY SMT, KeptFacts
  <2>4. prefix[w] # <<>>
    BY SMT, <2>1, KeptFacts
  <2>. QED  BY <2>1, <2>2, <2>3, <2>4
<1>21. CASE offer_termination(w)
  BY <1>21 DEF offer_termination, Step
<1>22. CASE TestOffered(w)
  BY <1>22 DEF TestOffered
<1>23. CASE peek(w)
  BY <1>23 DEF peek, Step
<1>24. CASE PeekTop(w)
  BY <1>24 DEF PeekTop
<1>25. CASE Withdraw(w)
  BY <1>25 DEF Withdraw, Step
<1>. QED
  BY <1>1, <1>2, <1>3, <1>4, <1>5, <1>6, <1>7, <1>8, <1>9, <1>10, <1>11, <1>12,
     <1>13, <1>14, <1>15, <1>16, <1>17, <1>18, <1>19, <1>20, <1>21, <1>22, <1>23,
     <1>24, <1>25 DEF WorkerNext

\* What it knows of the queue from which it steals.
LEMMA ThiefStep ==
  ASSUME NEW w \in Worker, Types, ThiefInv(w), WorkerNext(w)
  PROVE  ThiefInv(w)'
<1>. USE DEF Types, ControlType, QueueType, ThiefInv, Stealing
<1>1. CASE Discover(w)
  BY <1>1 DEF Discover, Step
<1>2. CASE Scanned(w)
  BY <1>2 DEF Scanned, Step
<1>3. CASE push(w)
  BY <1>3 DEF push
<1>4. CASE PushElem(w)
  BY <1>4 DEF PushElem, Step
<1>5. CASE PushBottom(w)
  BY <1>5 DEF PushBottom, Pushed
<1>6. CASE push_on_overflow_list(w)
  BY <1>6 DEF push_on_overflow_list, Step
<1>7. CASE trim_queues(w)
  BY <1>7 DEF trim_queues
<1>8. CASE pop_local(w)
  BY <1>8 DEF pop_local
<1>9. CASE DecrementBottom(w)
  BY <1>9 DEF DecrementBottom, Step
<1>10. CASE ReadTop(w)
  BY <1>10 DEF ReadTop, Claim
<1>11. CASE GetAge(w)
  BY <1>11 DEF GetAge, Step
<1>12. CASE pop_local_slow(w)
  BY <1>12 DEF pop_local_slow, Claim, set_age
<1>13. CASE SetAge(w)
  BY <1>13 DEF SetAge, Step, set_age
<1>14. CASE pop_global(w)
  <2>1. PICK k \in Worker \ {w} : loc' = [loc EXCEPT ![w].k = k, ![w].oldAge = age[k]]
    BY <1>14 DEF pop_global
  <2>2. loc'[w].k = k
    BY SMT, <2>1 DEF Locals
  <2>. QED  BY <1>14, <2>2 DEF pop_global, Step
<1>15. CASE GiveUp(w)
  BY <1>15 DEF GiveUp, Step
<1>16. CASE StealBottom(w)
  <2>. DEFINE k == loc[w].k
  <2>1. pc[w] = "stealBottom" /\ age' = age /\ bottom' = bottom /\ k # w /\ k \in Worker
    BY <1>16, LocalsAre DEF StealBottom, queueVars
  <2>2. CASE size(bottom[k], loc[w].oldAge.top) = 0
    BY <1>16, <2>2 DEF StealBottom, NextTry
  <2>3. CASE size(bottom[k], loc[w].oldAge.top) # 0
    <3>1. pc' = [pc EXCEPT ![w] = "stealElem"] /\ loc' = loc
      BY <1>16, <2>3 DEF StealBottom
    <3>2. Length(k)' = Length(k)
      BY <2>1, <3>1 DEF Length, EndOf, Popping
    <3>3. ASSUME loc[w].oldAge = age[k] PROVE Length(k) > 0
      <4>. DEFINE d == dirty_size(bottom[k], age[k].top)
      <4>1. bottom[k] \in Index /\ age[k].top \in Index
        BY <2>1, EndFacts
      <4>2. d \in Index /\ (d # N - 1 => dirty_size(increment_index(bottom[k]), age[k].top) = d + 1)
        BY <4>1, SizeFacts
      <4>3. Length(k) = d \/ Length(k) = dirty_size(increment_index(bottom[k]), age[k].top)
        BY DEF Length, EndOf
      <4>4. size(bottom[k], age[k].top) # 0
        BY <2>3, <3>3
      <4>. QED  BY SMT, <4>2, <4>3, <4>4, TaskQueueAssumption DEF size, Index
    <3>. QED  BY <2>1, <3>1, <3>2, <3>3
  <2>. QED  BY <2>2, <2>3
<1>17. CASE StealElem(w)
  <2>. DEFINE k == loc[w].k
  <2>1. /\ pc[w] = "stealElem" /\ age' = age /\ bottom' = bottom /\ elems' = elems /\ k # w
        /\ pc' = [pc EXCEPT ![w] = "stealCas"] /\ k \in Worker
    BY <1>17, LocalsAre DEF StealElem, Step, queueVars
  <2>2. /\ loc'[w].k = k /\ loc'[w].oldAge = loc[w].oldAge
        /\ loc'[w].t = elems[k][loc[w].oldAge.top]
    BY SMT, <1>17 DEF StealElem, Locals
  <2>3. Length(k)' = Length(k)
    BY <2>1, <2>2 DEF Length, EndOf, Popping
  <2>. QED  BY <2>1, <2>2, <2>3
<1>18. CASE StealCas(w)
  BY <1>18 DEF StealCas, NextTry, Claim
<1>19. CASE take_from_overflow_list(w)
  BY <1>19 DEF take_from_overflow_list
<1>20. CASE Reattach(w)
  BY <1>20 DEF Reattach, Step
<1>21. CASE offer_termination(w)
  BY <1>21 DEF offer_termination, Step
<1>22. CASE TestOffered(w)
  BY <1>22 DEF TestOffered
<1>23. CASE peek(w)
  BY <1>23 DEF peek, Step
<1>24. CASE PeekTop(w)
  BY <1>24 DEF PeekTop
<1>25. CASE Withdraw(w)
  BY <1>25 DEF Withdraw, Step
<1>. QED
  BY <1>1, <1>2, <1>3, <1>4, <1>5, <1>6, <1>7, <1>8, <1>9, <1>10, <1>11, <1>12,
     <1>13, <1>14, <1>15, <1>16, <1>17, <1>18, <1>19, <1>20, <1>21, <1>22, <1>23,
     <1>24, <1>25 DEF WorkerNext

----------------------------------------------------------------------------
(* What a step does to the invariants of the others.                       *)

\* A queue from which somebody steals is not empty, and gets shorter by one.
LEMMA StealEnds ==
  ASSUME Types, NEW w \in Worker, NEW v \in Worker \ {w}, ThiefInv(w), Alone(w, v), Steals(w, v)
  PROVE  /\ EndOf(v)' = EndOf(v) /\ Length(v) > 0 /\ Length(v) \in Index
         /\ Length(v)' = Length(v) - 1 /\ age'[v].top = increment_index(age[v].top)
         /\ EndOf(v) # age[v].top /\ age'[v] # age[v]
         /\ loc[w].t = elems[v][age[v].top]
<1>1. EndOf(v)' = EndOf(v)
  BY DEF Alone, EndOf, Popping
<1>2. Length(v) > 0 /\ loc[w].t = elems[v][age[v].top]
  BY DEF Steals, ThiefInv
<1>3. age[v] \in Age /\ age[v].top \in Index /\ EndOf(v) \in Index /\ Length(v) \in Index
      /\ bottom[v] \in Index /\ (Length(v) = 0 <=> EndOf(v) = age[v].top)
  BY EndFacts
<1>4. age'[v].top = increment_index(age[v].top) /\ age'[v] # age[v]
  BY <1>3, AgeFacts DEF Steals
<1>5. Length(v) # 0
  BY SMT, <1>2, <1>3, TaskQueueAssumption DEF Index
<1>6. dirty_size(EndOf(v), age[v].top) # 0 =>
        dirty_size(EndOf(v), increment_index(age[v].top)) = dirty_size(EndOf(v), age[v].top) - 1
  BY <1>3, SizeFacts
<1>7. Length(v)' = Length(v) - 1
  BY <1>1, <1>4, <1>5, <1>6 DEF Length
<1>. QED  BY <1>1, <1>2, <1>3, <1>4, <1>5, <1>7

LEMMA AloneLength ==
  ASSUME NEW w \in Worker, NEW v \in Worker \ {w}, Alone(w, v), age'[v] = age[v]
  PROVE  Length(v)' = Length(v) /\ EndOf(v)' = EndOf(v)
  BY DEF Alone, Length, EndOf, Popping

\* The ends of the other queues, and what the other workers have in hand.
LEMMA OthersKept ==
  ASSUME Types, NEW w \in Worker, NEW v \in Worker \ {w}, Alone(w, v),
         EndsInv(v), HandInv(v), ThiefInv(w)
  PROVE  EndsInv(v)' /\ HandInv(v)'
<1>1. ToPush(v)' = ToPush(v)
  BY DEF Alone, ToPush
<1>2. CASE age'[v] = age[v]
  BY <1>1, <1>2, AloneLength DEF Alone, EndsInv, HandInv
<1>3. CASE Steals(w, v)
  <2>1. Length(v)' = Length(v) - 1 /\ Length(v) > 0 /\ Length(v) \in Index
    BY <1>3, StealEnds
  <2>2. prefix[v] \in Seq(Task)
    BY DEF Types, WorkType
  <2>3. Len(prefix[v]) \in Nat
    BY SMT, <2>2
  <2>4. /\ Length(v) < N - 1 => Length(v)' < N - 1
        /\ Length(v) < N - 2 => Length(v)' < N - 2
        /\ Length(v) <= 1 => Length(v)' <= 1 /\ Length(v)' # 1
        /\ Length(v) # 0
        /\ Length(v) + Len(prefix[v]) <= Kept => Length(v)' + Len(prefix[v]) <= Kept
    BY SMT, <2>1, <2>3, KeptFacts, TaskQueueAssumption DEF Index
  <2>5. EndsInv(v)'
    BY <1>1, <2>4 DEF Alone, EndsInv
  <2>6. HandInv(v)'
    BY <2>4 DEF Alone, HandInv
  <2>. QED  BY <2>5, <2>6
<1>. QED  BY <1>2, <1>3 DEF Alone

\* The oldest element of a queue stays unless the age changes.
TopKept(k) ==
  age'[k] = age[k] /\ Length(k) > 0 =>
    Length(k)' > 0 /\ elems'[k][age[k].top] = elems[k][age[k].top]

LEMMA TopStep ==
  ASSUME Types, NEW w \in Worker, WorkerNext(w), EndsInv(w), ThiefInv(w), QueueKept(w)
  PROVE  TopKept(w)
<1>. USE DEF TopKept
<1>1. CASE pc[w] \notin Kept1 \cup {"pushElem"}
  BY <1>1 DEF QueueKept
<1>2. CASE pc[w] = "pushElem"
  <2>1. PushElem(w)
    BY <1>2 DEF WorkerNext, Discover, Scanned, push, PushElem, PushBottom, push_on_overflow_list,
       trim_queues, pop_local, DecrementBottom, ReadTop, GetAge, pop_local_slow, SetAge,
       pop_global, GiveUp, StealBottom, StealElem, StealCas, take_from_overflow_list, Reattach,
       offer_termination, TestOffered, peek, PeekTop, Withdraw, Step
  <2>2. EndOf(w) = bottom[w]
    BY <1>2 DEF EndOf, Popping
  <2>3. Length(w) > 0 => bottom[w] # age[w].top
    <3>1. Length(w) \in Index /\ (Length(w) = 0 <=> bottom[w] = age[w].top)
      BY <2>2, EndFacts
    <3>2. Length(w) > 0 => Length(w) # 0
      BY SMT, <3>1, TaskQueueAssumption DEF Index
    <3>. QED  BY <3>1, <3>2
  <2>4. elems' = [elems EXCEPT ![w] = [elems[w] EXCEPT ![bottom[w]] = ToPush(w)]]
    BY <2>1 DEF PushElem
  <2>5. elems[w] \in [Index -> Task \cup {NoTask}] /\ age[w].top \in Index
    BY EndFacts DEF Types, QueueType
  <2>6. bottom[w] # age[w].top => elems'[w][age[w].top] = elems[w][age[w].top]
    BY <2>4, <2>5 DEF Types, QueueType
  <2>. QED  BY <1>2, <2>3, <2>6 DEF QueueKept, Kept1
<1>3. CASE pc[w] = "pushBottom"
  <2>1. PushBottom(w)
    BY <1>3 DEF WorkerNext, Discover, Scanned, push, PushElem, PushBottom, push_on_overflow_list,
       trim_queues, pop_local, DecrementBottom, ReadTop, GetAge, pop_local_slow, SetAge,
       pop_global, GiveUp, StealBottom, StealElem, StealCas, take_from_overflow_list, Reattach,
       offer_termination, TestOffered, peek, PeekTop, Withdraw, Step
  <2>2. Length(w)' = Length(w) + 1 /\ Length(w) \in Index
    BY <2>1, PushEnds, EndFacts
  <2>3. Length(w)' > 0
    BY SMT, <2>2, TaskQueueAssumption DEF Index
  <2>. QED  BY <1>3, <2>3 DEF QueueKept
<1>4. CASE pc[w] = "readTop"
  <2>1. ReadTop(w)
    BY <1>4 DEF WorkerNext, Discover, Scanned, push, PushElem, PushBottom, push_on_overflow_list,
       trim_queues, pop_local, DecrementBottom, ReadTop, GetAge, pop_local_slow, SetAge,
       pop_global, GiveUp, StealBottom, StealElem, StealCas, take_from_overflow_list, Reattach,
       offer_termination, TestOffered, peek, PeekTop, Withdraw, Step
  <2>2. bottom' = bottom /\ age' = age
    BY <2>1 DEF ReadTop, queueVars
  <2>3. CASE Uncontested(w)
    <3>1. pc'[w] = "scan"
      BY <2>1, <2>3 DEF ReadTop, Types, ControlType
    <3>2. Length(w)' = dirty_size(bottom[w], age[w].top)
      BY <2>2, <3>1 DEF Length, EndOf, Popping
    <3>3. Length(w)' = Length(w) - 1 /\ Length(w) > 1 /\ Length(w) \in Index
      BY <1>4, <2>3, <3>2, PopEnds, EndFacts
    <3>4. Length(w)' > 0
      BY SMT, <3>3, TaskQueueAssumption DEF Index
    <3>. QED  BY <1>4, <3>4 DEF QueueKept
  <2>4. CASE ~Uncontested(w)
    <3>1. pc'[w] = "getAge"
      BY <2>1, <2>4 DEF ReadTop, Types, ControlType
    <3>2. Length(w)' = Length(w)
      BY <1>4, <2>2, <3>1 DEF Length, EndOf, Popping
    <3>. QED  BY <1>4, <3>2 DEF QueueKept
  <2>. QED  BY <2>3, <2>4
<1>5. CASE pc[w] \in {"cas", "setAge"}
  <2>1. pop_local_slow(w) \/ SetAge(w)
    BY <1>5 DEF WorkerNext, Discover, Scanned, push, PushElem, PushBottom, push_on_overflow_list,
       trim_queues, pop_local, DecrementBottom, ReadTop, GetAge, pop_local_slow, SetAge,
       pop_global, GiveUp, StealBottom, StealElem, StealCas, take_from_overflow_list, Reattach,
       offer_termination, TestOffered, peek, PeekTop, Withdraw, Step
  <2>2. bottom' = bottom
    BY <2>1 DEF pop_local_slow, SetAge
  <2>3. CASE pc'[w] = "setAge"
    <3>1. age' = age
      BY <2>1, <2>3 DEF pop_local_slow, SetAge, Step, Types, ControlType
    <3>2. Length(w)' = Length(w)
      BY <1>5, <2>2, <2>3, <3>1 DEF Length, EndOf, Popping
    <3>. QED  BY <1>5, <3>2 DEF QueueKept
  <2>4. CASE pc'[w] # "setAge"
    <3>1. /\ pc'[w] \in {"scan", "trim"} /\ set_age(w)
          /\ pc[w] = "setAge" \/ bottom[w] # loc[w].oldAge.top \/ age[w] = loc[w].oldAge
      BY <2>1, <2>4 DEF pop_local_slow, SetAge, Step, Types, ControlType
    <3>2. age'[w] # age[w]
      BY <1>5, <2>2, <3>1, EmptyEnds
    <3>. QED  BY <3>2
  <2>. QED  BY <2>3, <2>4
<1>. QED  BY <1>1, <1>2, <1>3, <1>4, <1>5 DEF Kept1

\* What the other thieves know of the queues.
LEMMA ThievesKept ==
  ASSUME Types, NEW w \in Worker, WorkerNext(w), NEW v \in Worker \ {w}, TagsFresh,
         \A u \in Worker : EndsInv(u) /\ ThiefInv(u),
         \A u \in Worker \ {w} : Alone(w, u), QueueKept(w)
  PROVE  ThiefInv(v)'
<1>. DEFINE k == loc[v].k
<1>1. k \in Worker /\ loc'[v] = loc[v] /\ pc'[v] = pc[v]
  BY LocalsAre DEF Types, ControlType, Alone
<1>2. TopKept(k)
  <2>1. CASE k = w
    BY <2>1, TopStep
  <2>2. CASE k # w
    <3>1. elems'[k] = elems[k]
      BY <1>1, <2>2 DEF Alone
    <3>2. age'[k] = age[k] => Length(k)' = Length(k)
      <4>. SUFFICES ASSUME NEW j \in Worker \ {w}, age'[j] = age[j] PROVE Length(j)' = Length(j)
        BY <1>1, <2>2
      <4>. QED  BY AloneLength
    <3>. QED  BY <1>1, <3>1, <3>2 DEF TopKept
  <2>. QED  BY <2>1, <2>2
<1>3. pc[v] \in Stealing => age'[k] = age[k] \/ age'[k] # loc[v].oldAge
  BY DEF TagsFresh
<1>4. ThiefInv(v)
  OBVIOUS
<1>. QED  BY <1>1, <1>2, <1>3, <1>4 DEF ThiefInv, TopKept, Stealing

----------------------------------------------------------------------------
(* What a step does to the contents of the queues.                         *)

Once(w) == \A i, j \in Slots(w) : elems[w][i] = elems[w][j] => i = j

\* The contents of a queue, as a set of slots, and after the step.
LEMMA ContentsFacts ==
  ASSUME Types, Types', NEW w \in Worker
  PROVE  /\ Contents(w) = {elems[w][i] : i \in Slots(w)}
         /\ Contents(w)' = {elems'[w][i] : i \in Slots(w)'}
         /\ Slots(w) \subseteq Index /\ Slots(w)' \subseteq Index
         /\ Slots(w) = Ring(age[w].top, EndOf(w))
         /\ Slots(w)' = Ring(age'[w].top, EndOf(w)')
<1>2. age[w].top \in Index /\ EndOf(w) \in Index /\ bottom[w] \in Index
  BY EndFacts
<1>3. age'[w].top \in Index /\ EndOf(w)' \in Index
  <2>1. age'[w] \in Age /\ bottom'[w] \in Index
    BY DEF Types, QueueType
  <2>2. increment_index(bottom'[w]) \in Index
    BY <2>1, IndexFacts
  <2>. QED  BY <2>1, <2>2, AgeFacts DEF EndOf
<1>4. Slots(w) = Ring(age[w].top, EndOf(w)) /\ Slots(w)' = Ring(age'[w].top, EndOf(w)')
  BY DEF Slots
<1>5. Slots(w) \subseteq Index /\ Slots(w)' \subseteq Index
  BY <1>4 DEF Ring
<1>6. Contents(w) = {elems[w][(age[w].top + i) % N] : i \in 0 .. dirty_size(EndOf(w), age[w].top) - 1}
  BY DEF Contents, EndOf
<1>7. Contents(w)' = {elems'[w][(age'[w].top + i) % N] :
                       i \in 0 .. dirty_size(EndOf(w)', age'[w].top) - 1}
  BY DEF Contents, EndOf
<1>8. Contents(w) = {elems[w][i] : i \in Slots(w)}
  <2>1. Ring(age[w].top, EndOf(w))
        = {(age[w].top + i) % N : i \in 0 .. dirty_size(EndOf(w), age[w].top) - 1}
    BY <1>2, RingIs
  <2>. QED  BY <1>4, <1>6, <2>1
<1>9. Contents(w)' = {elems'[w][i] : i \in Slots(w)'}
  <2>1. Ring(age'[w].top, EndOf(w)')
        = {(age'[w].top + i) % N : i \in 0 .. dirty_size(EndOf(w)', age'[w].top) - 1}
    BY <1>3, RingIs
  <2>. QED  BY <1>4, <1>7, <2>1
<1>. QED  BY <1>4, <1>5, <1>8, <1>9

LEMMA ContentsSame ==
  ASSUME Types, Types', NEW w \in Worker, EndOf(w)' = EndOf(w), age'[w] = age[w],
         \A i \in Slots(w) : elems'[w][i] = elems[w][i], Once(w)
  PROVE  Contents(w)' = Contents(w) /\ Once(w)'
<1>1. Slots(w)' = Slots(w)
  BY DEF Slots
<1>2. Contents(w) = {elems[w][i] : i \in Slots(w)} /\ Contents(w)' = {elems'[w][i] : i \in Slots(w)'}
  BY ContentsFacts
<1>3. Contents(w)' = Contents(w)
  BY <1>1, <1>2
<1>4. Once(w)'
  BY <1>1 DEF Once
<1>. QED  BY <1>3, <1>4

\* An element less, at either end.
LEMMA ContentsLess ==
  ASSUME Types, Types', NEW w \in Worker, NEW s \in Slots(w), Slots(w)' = Slots(w) \ {s},
         elems'[w] = elems[w], Once(w)
  PROVE  /\ elems[w][s] \in Contents(w) /\ Contents(w)' = Contents(w) \ {elems[w][s]}
         /\ Once(w)'
<1>1. Contents(w) = {elems[w][i] : i \in Slots(w)} /\ Contents(w)' = {elems[w][i] : i \in Slots(w) \ {s}}
  BY ContentsFacts
<1>. QED  BY <1>1 DEF Once

LEMMA ContentsMore ==
  ASSUME Types, Types', NEW w \in Worker, NEW s \in Index, Slots(w)' = Slots(w) \cup {s},
         elems'[w] = elems[w], Once(w), elems[w][s] \notin Contents(w)
  PROVE  Contents(w)' = Contents(w) \cup {elems[w][s]} /\ Once(w)'
<1>1. Contents(w) = {elems[w][i] : i \in Slots(w)}
      /\ Contents(w)' = {elems[w][i] : i \in Slots(w) \cup {s}}
  BY ContentsFacts
<1>. QED  BY <1>1 DEF Once

\* A thief takes the element at the top.
LEMMA StealContents ==
  ASSUME Types, Types', NEW w \in Worker, NEW v \in Worker \ {w}, ThiefInv(w), Alone(w, v),
         Steals(w, v), Once(v)
  PROVE  /\ loc[w].t \in Contents(v) /\ Contents(v)' = Contents(v) \ {loc[w].t}
         /\ Once(v)'
<1>1. /\ EndOf(v)' = EndOf(v) /\ age'[v].top = increment_index(age[v].top)
      /\ EndOf(v) # age[v].top /\ loc[w].t = elems[v][age[v].top]
  BY StealEnds
<1>2. EndOf(v) \in Index /\ age[v].top \in Index
  BY EndFacts
<1>3. age[v].top \in Ring(age[v].top, EndOf(v))
      /\ Ring(increment_index(age[v].top), EndOf(v)) = Ring(age[v].top, EndOf(v)) \ {age[v].top}
  BY <1>1, <1>2, RingFacts
<1>4. age[v].top \in Slots(v) /\ Slots(v)' = Slots(v) \ {age[v].top}
  BY <1>1, <1>3 DEF Slots
<1>. QED  BY <1>1, <1>4, ContentsLess DEF Alone

\* push() writes to a free slot.
LEMMA WriteContents ==
  ASSUME Types, Types', NEW w \in Worker, QueueKept(w), PushElem(w), Once(w)
  PROVE  Contents(w)' = Contents(w) /\ Once(w)'
<1>1. pc[w] = "pushElem" /\ elems' = [elems EXCEPT ![w] = [elems[w] EXCEPT ![bottom[w]] = ToPush(w)]]
  BY DEF PushElem, Step
<1>2. EndOf(w) = bottom[w]
  BY <1>1 DEF EndOf, Popping
<1>3. bottom[w] \in Index /\ age[w].top \in Index
  BY EndFacts
<1>4. bottom[w] \notin Slots(w) /\ Slots(w) \subseteq Index
  BY <1>2, <1>3, RingFacts DEF Slots
<1>5. \A i \in Index : i # bottom[w] => elems'[w][i] = elems[w][i]
  BY <1>1 DEF Types, QueueType
<1>6. EndOf(w)' = EndOf(w) /\ age'[w] = age[w]
  BY <1>1 DEF QueueKept, Kept1
<1>. QED  BY <1>4, <1>5, <1>6, ContentsSame

LEMMA PushContents ==
  ASSUME Types, Types', NEW w \in Worker, EndsInv(w), PushBottom(w), Once(w),
         ToPush(w) \notin Contents(w)
  PROVE  Contents(w)' = Contents(w) \cup {ToPush(w)} /\ Once(w)'
<1>1. EndOf(w) = bottom[w] /\ EndOf(w)' = increment_index(bottom[w]) /\ age' = age /\ Length(w) < N - 2
  BY PushEnds
<1>2. /\ bottom[w] \in Index /\ age[w].top \in Index /\ Length(w) \in Index
      /\ (Length(w) = N - 1 <=> increment_index(EndOf(w)) = age[w].top)
  BY EndFacts
<1>3. Length(w) # N - 1
  BY SMT, <1>1, <1>2, TaskQueueAssumption DEF Index
<1>4. Ring(age[w].top, increment_index(bottom[w])) = Ring(age[w].top, bottom[w]) \cup {bottom[w]}
  BY <1>1, <1>2, <1>3, RingFacts
<1>5. Slots(w)' = Slots(w) \cup {bottom[w]}
  BY <1>1, <1>4 DEF Slots
<1>6. elems[w][bottom[w]] = ToPush(w) /\ elems' = elems
  BY DEF PushBottom, EndsInv
<1>. QED  BY <1>2, <1>5, <1>6, ContentsMore

\* pop_local() takes the element at the bottom, which is the last one or not.
LEMMA PopSlots ==
  ASSUME Types, NEW w \in Worker, EndsInv(w), Popping(w), Length(w) # 0
  PROVE  /\ bottom[w] \in Slots(w)
         /\ Ring(age[w].top, bottom[w]) = Slots(w) \ {bottom[w]}
<1>1. EndOf(w) = increment_index(bottom[w])
  BY DEF EndOf
<1>2. /\ bottom[w] \in Index /\ age[w].top \in Index
      /\ (Length(w) = 0 <=> EndOf(w) = age[w].top)
  BY EndFacts
<1>3. /\ Ring(age[w].top, increment_index(bottom[w])) = Ring(age[w].top, bottom[w]) \cup {bottom[w]}
      /\ bottom[w] \notin Ring(age[w].top, bottom[w])
  BY <1>1, <1>2, RingFacts
<1>. QED  BY <1>1, <1>3 DEF Slots

LEMMA PopContents ==
  ASSUME Types, Types', NEW w \in Worker, EndsInv(w), ReadTop(w), Uncontested(w), Once(w)
  PROVE  /\ elems[w][bottom[w]] \in Contents(w)
         /\ Contents(w)' = Contents(w) \ {elems[w][bottom[w]]} /\ Once(w)'
<1>1. pc[w] = "readTop" /\ pc'[w] = "scan" /\ bottom' = bottom /\ age' = age /\ elems' = elems
  BY DEF ReadTop, queueVars, Types, ControlType
<1>2. Length(w) > 1 /\ Length(w) \in Index
  BY <1>1, PopEnds, EndFacts
<1>3. Length(w) # 0
  BY SMT, <1>2, TaskQueueAssumption DEF Index
<1>4. bottom[w] \in Slots(w) /\ Ring(age[w].top, bottom[w]) = Slots(w) \ {bottom[w]}
  BY <1>1, <1>3, PopSlots DEF Popping
<1>5. Slots(w)' = Slots(w) \ {bottom[w]}
  BY <1>1, <1>4 DEF Slots, EndOf, Popping
<1>. QED  BY <1>1, <1>4, <1>5, ContentsLess

LEMMA LastContents ==
  ASSUME Types, Types', NEW w \in Worker, EndsInv(w), pc[w] = "cas", set_age(w), bottom' = bottom,
         pc'[w] = "scan", bottom[w] = loc[w].oldAge.top, age[w] = loc[w].oldAge, elems' = elems,
         Once(w)
  PROVE  loc[w].t \in Contents(w) /\ Contents(w)' = Contents(w) \ {loc[w].t} /\ Once(w)'
<1>1. EndOf(w)' = bottom[w] /\ age'[w].top = bottom[w] /\ EndOf(w) = increment_index(bottom[w])
  BY EmptyEnds
<1>2. bottom[w] \in Index /\ age[w].top = bottom[w] /\ Length(w) \in Index /\ Length(w) <= 1
      /\ (Length(w) = 0 <=> EndOf(w) = age[w].top)
  BY EndFacts DEF EndsInv
<1>3. Length(w) # 0
  BY <1>1, <1>2, IndexFacts
<1>4. Length(w) = 1
  BY SMT, <1>2, <1>3, TaskQueueAssumption DEF Index
<1>5. loc[w].t = elems[w][bottom[w]]
  BY <1>4 DEF EndsInv
<1>6. bottom[w] \in Slots(w) /\ Ring(age[w].top, bottom[w]) = Slots(w) \ {bottom[w]}
  BY <1>3, PopSlots DEF Popping
<1>7. Ring(bottom[w], bottom[w]) = {}
  BY <1>2, RingFacts
<1>8. Slots(w)' = {} /\ Slots(w) \ {bottom[w]} = {}
  BY <1>1, <1>2, <1>6, <1>7 DEF Slots
<1>. QED  BY <1>5, <1>6, <1>8, ContentsLess

LEMMA EmptyContents ==
  ASSUME Types, Types', NEW w \in Worker, EndsInv(w), pc[w] \in {"cas", "setAge"}, set_age(w),
         bottom' = bottom, pc'[w] = "trim", elems' = elems,
         pc[w] = "setAge" \/ bottom[w] # loc[w].oldAge.top
  PROVE  Contents(w)' = Contents(w) /\ Once(w)'
<1>1. EndOf(w)' = bottom[w] /\ age'[w].top = bottom[w] /\ EndOf(w) = increment_index(bottom[w])
  BY EmptyEnds
<1>2. bottom[w] \in Index /\ Length(w) \in Index /\ (Length(w) = 0 <=> EndOf(w) = age[w].top)
      /\ EndOf(w) \in Index
  BY EndFacts
<1>3. Length(w) = 0
  <2>1. CASE pc[w] = "setAge"
    BY <2>1 DEF EndsInv
  <2>2. CASE pc[w] = "cas"
    <3>1. bottom[w] # age[w].top \/ age[w] # loc[w].oldAge
      BY <2>2
    <3>2. Length(w) <= 1 /\ (Length(w) = 1 => age[w] = loc[w].oldAge)
      BY <2>2 DEF EndsInv
    <3>3. bottom[w] # age[w].top => Length(w) # 1
      <4>1. Length(w) = 1 => dirty_size(bottom[w], age[w].top) = 0
        <5>1. age[w].top \in Index
          BY EndFacts
        <5>2. /\ dirty_size(bottom[w], age[w].top) \in Index
              /\ (dirty_size(bottom[w], age[w].top) = N - 1 <=> increment_index(bottom[w]) = age[w].top)
              /\ dirty_size(bottom[w], age[w].top) # N - 1 =>
                   dirty_size(increment_index(bottom[w]), age[w].top) = dirty_size(bottom[w], age[w].top) + 1
          BY <1>2, <5>1, SizeFacts
        <5>3. Length(w) = dirty_size(increment_index(bottom[w]), age[w].top)
          BY <1>1 DEF Length
        <5>4. Length(w) = 1 => dirty_size(bottom[w], age[w].top) # N - 1
          BY <1>1, <1>2, <5>2, SMT
        <5>. QED  BY SMT, <5>2, <5>3, <5>4, TaskQueueAssumption DEF Index
      <4>2. age[w].top \in Index
        BY EndFacts
      <4>. QED  BY <1>2, <4>1, <4>2, SizeFacts
    <3>4. Length(w) # 1
      BY <3>1, <3>2, <3>3
    <3>. QED  BY SMT, <1>2, <3>2, <3>4, TaskQueueAssumption DEF Index
  <2>. QED  BY <2>1, <2>2
<1>4. Ring(age[w].top, age[w].top) = {} /\ Ring(bottom[w], bottom[w]) = {}
  BY <1>2, EndFacts, RingFacts
<1>5. Slots(w) = {} /\ Slots(w)' = {}
  BY <1>1, <1>2, <1>3, <1>4 DEF Slots
<1>6. Contents(w) = {elems[w][i] : i \in Slots(w)} /\ Contents(w)' = {elems'[w][i] : i \in Slots(w)'}
  BY ContentsFacts
<1>. QED  BY <1>5, <1>6 DEF Once

----------------------------------------------------------------------------
(* Where the tasks are.                                                    *)

Unknown == <<"unknown", 0>>
Queue(w) == <<"queue", w>>
Hand(w) == <<"hand", w>>
Overflow == <<"overflow", 0>>
Done == <<"done", 0>>

LEMMA Places ==
  /\ Unknown \in Place /\ Overflow \in Place /\ Done \in Place
  /\ \A v \in Worker : Queue(v) \in Place /\ Hand(v) \in Place
  /\ \A p \in Place : \/ p = Unknown \/ p = Overflow \/ p = Done
                      \/ \E v \in Worker : p = Queue(v) \/ p = Hand(v)
  BY SMT DEF Place, Unknown, Overflow, Done, Queue, Hand

LEMMA Different ==
  /\ Unknown # Overflow /\ Unknown # Done /\ Overflow # Done
  /\ \A v \in Worker : /\ Queue(v) \notin {Unknown, Overflow, Done}
                       /\ Hand(v) \notin {Unknown, Overflow, Done}
  /\ \A u, v \in Worker : Queue(u) # Hand(v)
  /\ \A u, v \in Worker : u # v => Queue(u) # Queue(v) /\ Hand(u) # Hand(v)
  BY SMT DEF Unknown, Overflow, Done, Queue, Hand

LEMMA TasksAre ==
  /\ Tasks(Unknown) = Task \ (1 .. created) /\ Tasks(Overflow) = Range(overflow)
  /\ Tasks(Done) = scanned
  /\ \A v \in Worker : Tasks(Queue(v)) = Contents(v) /\ Tasks(Hand(v)) = InHand(v)
  BY SMT DEF Tasks, Unknown, Overflow, Done, Queue, Hand

\* A task moves from one place to another; the others stay.
Moved(S, p, q) ==
  /\ S \subseteq At[p] /\ p # q
  /\ At'[p] = At[p] \ S /\ At'[q] = At[q] \cup S
  /\ \A r \in Place \ {p, q} : At'[r] = At[r]

LEMMA MoveKeeps ==
  ASSUME NEW p \in Place, NEW q \in Place, NEW S, Moved(S, p, q), Partition(At)
  PROVE  Partition(At)'
<1>2. ASSUME NEW r \in Place, NEW u \in Place, r # u, NEW x \in At'[r], x \in At'[u]
      PROVE  FALSE
  <2>1. At[r] \cap At[u] = {} /\ (r # p => At[r] \cap At[p] = {}) /\ (u # p => At[u] \cap At[p] = {})
    BY <1>2 DEF Partition
  <2>2. CASE r # q /\ u # q
    BY <1>2, <2>1, <2>2 DEF Moved
  <2>3. CASE r = q
    <3>1. x \in At[r] \/ x \in S
      BY <1>2, <2>3 DEF Moved
    <3>2. x \in At[u] /\ (u = p => x \notin S)
      BY <1>2, <2>3 DEF Moved
    <3>. QED  BY <2>1, <3>1, <3>2 DEF Moved
  <2>4. CASE u = q
    <3>1. x \in At[u] \/ x \in S
      BY <1>2, <2>4 DEF Moved
    <3>2. x \in At[r] /\ (r = p => x \notin S)
      BY <1>2, <2>4 DEF Moved
    <3>. QED  BY <2>1, <3>1, <3>2 DEF Moved
  <2>. QED  BY <2>2, <2>3, <2>4
<1>3. \A x \in Task : \E r \in Place : x \in At'[r]
  <2>. TAKE x \in Task
  <2>1. PICK r \in Place : x \in At[r]
    BY DEF Partition
  <2>2. CASE r # p
    BY <2>1, <2>2 DEF Moved
  <2>3. CASE r = p /\ x \in S
    BY <2>1, <2>3 DEF Moved
  <2>4. CASE r = p /\ x \notin S
    BY <2>1, <2>4 DEF Moved
  <2>. QED  BY <2>2, <2>3, <2>4
<1>4. \A r \in Place : At'[r] \subseteq Task
  <2>1. \A r \in Place : At[r] \subseteq Task
    BY DEF Partition
  <2>. QED  BY <2>1 DEF Moved
<1>5. UNION {At'[r] : r \in Place} = Task
  BY <1>3, <1>4
<1>6. \A r, u \in Place : r # u => At'[r] \cap At'[u] = {}
  BY <1>2
<1>. QED  BY <1>5, <1>6 DEF Partition

LEMMA Apart ==
  ASSUME Partition(At), NEW w \in Worker
  PROVE  /\ InHand(w) \cap Contents(w) = {} /\ InHand(w) \cap Range(overflow) = {}
         /\ InHand(w) \cap (Task \ (1 .. created)) = {} /\ InHand(w) \subseteq Task
         /\ \A v \in Worker : Contents(v) \subseteq Task
<1>1. \A p \in Place : At[p] = Tasks(p)
  BY DEF At
<1>2. \A p, q \in Place : p # q => Tasks(p) \cap Tasks(q) = {}
  BY <1>1 DEF Partition
<1>3. \A p \in Place : Tasks(p) \subseteq Task
  BY <1>1 DEF Partition
<1>4. /\ Tasks(Hand(w)) \cap Tasks(Queue(w)) = {} /\ Tasks(Hand(w)) \cap Tasks(Overflow) = {}
      /\ Tasks(Hand(w)) \cap Tasks(Unknown) = {}
  <2>1. Hand(w) # Queue(w) /\ Hand(w) # Overflow /\ Hand(w) # Unknown
    BY Different
  <2>. QED  BY <1>2, <2>1, Places
<1>5. Tasks(Hand(w)) \subseteq Task /\ \A v \in Worker : Tasks(Queue(v)) \subseteq Task
  BY <1>3, Places
<1>. QED  BY <1>4, <1>5, TasksAre

\* The same after the step.
LEMMA TasksAreThen ==
  /\ Tasks(Unknown)' = Task \ (1 .. created') /\ Tasks(Overflow)' = Range(overflow')
  /\ Tasks(Done)' = scanned'
  /\ \A v \in Worker : Tasks(Queue(v))' = Contents(v)' /\ Tasks(Hand(v))' = InHand(v)'
  BY SMT DEF Tasks, Unknown, Overflow, Done, Queue, Hand

LEMMA AtIs == \A p \in Place : At[p] = Tasks(p) /\ At'[p] = Tasks(p)'
  BY DEF At

LEMMA FindMove ==
  ASSUME NEW w \in Worker, NEW S, S \subseteq Task \ (1 .. created), Task \ (1 .. created') = (Task \ (1 .. created)) \ S,
         InHand(w)' = InHand(w) \cup S,
         \A v \in Worker \ {w} : InHand(v)' = InHand(v),
         \A v \in Worker : Contents(v)' = Contents(v),
         overflow' = overflow,
         scanned' = scanned
  PROVE  Moved(S, Unknown, Hand(w))
<1>1. Unknown \in Place /\ Hand(w) \in Place /\ Unknown # Hand(w)
  BY Places, Different
<1>2. S \subseteq Tasks(Unknown) /\ Tasks(Unknown)' = Tasks(Unknown) \ S /\ Tasks(Hand(w))' = Tasks(Hand(w)) \cup S
  BY TasksAre, TasksAreThen
<1>3. ASSUME NEW r \in Place \ {Unknown, Hand(w)}
      PROVE  Tasks(r)' = Tasks(r)
  <2>1. CASE r = Unknown
    BY <1>3, <2>1, TasksAre, TasksAreThen
  <2>2. CASE r = Overflow
    BY <1>3, <2>2, TasksAre, TasksAreThen
  <2>3. CASE r = Done
    BY <1>3, <2>3, TasksAre, TasksAreThen
  <2>4. ASSUME NEW v \in Worker, r = Queue(v) PROVE Tasks(r)' = Tasks(r)
    BY <1>3, <2>4, TasksAre, TasksAreThen
  <2>5. ASSUME NEW v \in Worker, r = Hand(v) PROVE Tasks(r)' = Tasks(r)
    BY <1>3, <2>5, TasksAre, TasksAreThen
  <2>. QED  BY <2>1, <2>2, <2>3, <2>4, <2>5, Places
<1>. QED  BY <1>1, <1>2, <1>3, AtIs DEF Moved

LEMMA DoneMove ==
  ASSUME NEW w \in Worker, NEW S, S \subseteq InHand(w), scanned' = scanned \cup S,
         InHand(w)' = InHand(w) \ S,
         \A v \in Worker \ {w} : InHand(v)' = InHand(v),
         \A v \in Worker : Contents(v)' = Contents(v),
         created' = created,
         overflow' = overflow
  PROVE  Moved(S, Hand(w), Done)
<1>1. Hand(w) \in Place /\ Done \in Place /\ Hand(w) # Done
  BY Places, Different
<1>2. S \subseteq Tasks(Hand(w)) /\ Tasks(Hand(w))' = Tasks(Hand(w)) \ S /\ Tasks(Done)' = Tasks(Done) \cup S
  BY TasksAre, TasksAreThen
<1>3. ASSUME NEW r \in Place \ {Hand(w), Done}
      PROVE  Tasks(r)' = Tasks(r)
  <2>1. CASE r = Unknown
    BY <1>3, <2>1, TasksAre, TasksAreThen
  <2>2. CASE r = Overflow
    BY <1>3, <2>2, TasksAre, TasksAreThen
  <2>3. CASE r = Done
    BY <1>3, <2>3, TasksAre, TasksAreThen
  <2>4. ASSUME NEW v \in Worker, r = Queue(v) PROVE Tasks(r)' = Tasks(r)
    BY <1>3, <2>4, TasksAre, TasksAreThen
  <2>5. ASSUME NEW v \in Worker, r = Hand(v) PROVE Tasks(r)' = Tasks(r)
    BY <1>3, <2>5, TasksAre, TasksAreThen
  <2>. QED  BY <2>1, <2>2, <2>3, <2>4, <2>5, Places
<1>. QED  BY <1>1, <1>2, <1>3, AtIs DEF Moved

LEMMA PushMove ==
  ASSUME NEW w \in Worker, NEW S, S \subseteq InHand(w), Contents(w)' = Contents(w) \cup S,
         InHand(w)' = InHand(w) \ S,
         \A v \in Worker \ {w} : InHand(v)' = InHand(v),
         \A v \in Worker \ {w} : Contents(v)' = Contents(v),
         created' = created,
         overflow' = overflow,
         scanned' = scanned
  PROVE  Moved(S, Hand(w), Queue(w))
<1>1. Hand(w) \in Place /\ Queue(w) \in Place /\ Hand(w) # Queue(w)
  BY Places, Different
<1>2. S \subseteq Tasks(Hand(w)) /\ Tasks(Hand(w))' = Tasks(Hand(w)) \ S /\ Tasks(Queue(w))' = Tasks(Queue(w)) \cup S
  BY TasksAre, TasksAreThen
<1>3. ASSUME NEW r \in Place \ {Hand(w), Queue(w)}
      PROVE  Tasks(r)' = Tasks(r)
  <2>1. CASE r = Unknown
    BY <1>3, <2>1, TasksAre, TasksAreThen
  <2>2. CASE r = Overflow
    BY <1>3, <2>2, TasksAre, TasksAreThen
  <2>3. CASE r = Done
    BY <1>3, <2>3, TasksAre, TasksAreThen
  <2>4. ASSUME NEW v \in Worker, r = Queue(v) PROVE Tasks(r)' = Tasks(r)
    BY <1>3, <2>4, TasksAre, TasksAreThen
  <2>5. ASSUME NEW v \in Worker, r = Hand(v) PROVE Tasks(r)' = Tasks(r)
    BY <1>3, <2>5, TasksAre, TasksAreThen
  <2>. QED  BY <2>1, <2>2, <2>3, <2>4, <2>5, Places
<1>. QED  BY <1>1, <1>2, <1>3, AtIs DEF Moved

LEMMA ListMove ==
  ASSUME NEW w \in Worker, NEW S, S \subseteq InHand(w), Range(overflow') = Range(overflow) \cup S,
         InHand(w)' = InHand(w) \ S,
         \A v \in Worker \ {w} : InHand(v)' = InHand(v),
         \A v \in Worker : Contents(v)' = Contents(v),
         created' = created,
         scanned' = scanned
  PROVE  Moved(S, Hand(w), Overflow)
<1>1. Hand(w) \in Place /\ Overflow \in Place /\ Hand(w) # Overflow
  BY Places, Different
<1>2. S \subseteq Tasks(Hand(w)) /\ Tasks(Hand(w))' = Tasks(Hand(w)) \ S /\ Tasks(Overflow)' = Tasks(Overflow) \cup S
  BY TasksAre, TasksAreThen
<1>3. ASSUME NEW r \in Place \ {Hand(w), Overflow}
      PROVE  Tasks(r)' = Tasks(r)
  <2>1. CASE r = Unknown
    BY <1>3, <2>1, TasksAre, TasksAreThen
  <2>2. CASE r = Overflow
    BY <1>3, <2>2, TasksAre, TasksAreThen
  <2>3. CASE r = Done
    BY <1>3, <2>3, TasksAre, TasksAreThen
  <2>4. ASSUME NEW v \in Worker, r = Queue(v) PROVE Tasks(r)' = Tasks(r)
    BY <1>3, <2>4, TasksAre, TasksAreThen
  <2>5. ASSUME NEW v \in Worker, r = Hand(v) PROVE Tasks(r)' = Tasks(r)
    BY <1>3, <2>5, TasksAre, TasksAreThen
  <2>. QED  BY <2>1, <2>2, <2>3, <2>4, <2>5, Places
<1>. QED  BY <1>1, <1>2, <1>3, AtIs DEF Moved

LEMMA DrainMove ==
  ASSUME NEW w \in Worker, NEW S, S \subseteq Range(overflow), Range(overflow') = Range(overflow) \ S,
         InHand(w)' = InHand(w) \cup S,
         \A v \in Worker \ {w} : InHand(v)' = InHand(v),
         \A v \in Worker : Contents(v)' = Contents(v),
         created' = created,
         scanned' = scanned
  PROVE  Moved(S, Overflow, Hand(w))
<1>1. Overflow \in Place /\ Hand(w) \in Place /\ Overflow # Hand(w)
  BY Places, Different
<1>2. S \subseteq Tasks(Overflow) /\ Tasks(Overflow)' = Tasks(Overflow) \ S /\ Tasks(Hand(w))' = Tasks(Hand(w)) \cup S
  BY TasksAre, TasksAreThen
<1>3. ASSUME NEW r \in Place \ {Overflow, Hand(w)}
      PROVE  Tasks(r)' = Tasks(r)
  <2>1. CASE r = Unknown
    BY <1>3, <2>1, TasksAre, TasksAreThen
  <2>2. CASE r = Overflow
    BY <1>3, <2>2, TasksAre, TasksAreThen
  <2>3. CASE r = Done
    BY <1>3, <2>3, TasksAre, TasksAreThen
  <2>4. ASSUME NEW v \in Worker, r = Queue(v) PROVE Tasks(r)' = Tasks(r)
    BY <1>3, <2>4, TasksAre, TasksAreThen
  <2>5. ASSUME NEW v \in Worker, r = Hand(v) PROVE Tasks(r)' = Tasks(r)
    BY <1>3, <2>5, TasksAre, TasksAreThen
  <2>. QED  BY <2>1, <2>2, <2>3, <2>4, <2>5, Places
<1>. QED  BY <1>1, <1>2, <1>3, AtIs DEF Moved

LEMMA PopMove ==
  ASSUME NEW w \in Worker, NEW u \in Worker, NEW S, S \subseteq Contents(u), Contents(u)' = Contents(u) \ S,
         InHand(w)' = InHand(w) \cup S,
         \A v \in Worker \ {w} : InHand(v)' = InHand(v),
         \A v \in Worker \ {u} : Contents(v)' = Contents(v),
         created' = created,
         overflow' = overflow,
         scanned' = scanned
  PROVE  Moved(S, Queue(u), Hand(w))
<1>1. Queue(u) \in Place /\ Hand(w) \in Place /\ Queue(u) # Hand(w)
  BY Places, Different
<1>2. S \subseteq Tasks(Queue(u)) /\ Tasks(Queue(u))' = Tasks(Queue(u)) \ S /\ Tasks(Hand(w))' = Tasks(Hand(w)) \cup S
  BY TasksAre, TasksAreThen
<1>3. ASSUME NEW r \in Place \ {Queue(u), Hand(w)}
      PROVE  Tasks(r)' = Tasks(r)
  <2>1. CASE r = Unknown
    BY <1>3, <2>1, TasksAre, TasksAreThen
  <2>2. CASE r = Overflow
    BY <1>3, <2>2, TasksAre, TasksAreThen
  <2>3. CASE r = Done
    BY <1>3, <2>3, TasksAre, TasksAreThen
  <2>4. ASSUME NEW v \in Worker, r = Queue(v) PROVE Tasks(r)' = Tasks(r)
    BY <1>3, <2>4, TasksAre, TasksAreThen
  <2>5. ASSUME NEW v \in Worker, r = Hand(v) PROVE Tasks(r)' = Tasks(r)
    BY <1>3, <2>5, TasksAre, TasksAreThen
  <2>. QED  BY <2>1, <2>2, <2>3, <2>4, <2>5, Places
<1>. QED  BY <1>1, <1>2, <1>3, AtIs DEF Moved

LEMMA NoMove ==
  ASSUME \A v \in Worker : InHand(v)' = InHand(v), \A v \in Worker : Contents(v)' = Contents(v),
         overflow' = overflow, created' = created, scanned' = scanned
  PROVE  At' = At
<1>1. ASSUME NEW r \in Place PROVE Tasks(r)' = Tasks(r)
  <2>1. CASE r \in {Unknown, Overflow, Done}
    BY <2>1, TasksAre, TasksAreThen
  <2>2. ASSUME NEW v \in Worker, r = Queue(v) PROVE Tasks(r)' = Tasks(r)
    BY <2>2, TasksAre, TasksAreThen
  <2>3. ASSUME NEW v \in Worker, r = Hand(v) PROVE Tasks(r)' = Tasks(r)
    BY <2>3, TasksAre, TasksAreThen
  <2>. QED  BY <2>1, <2>2, <2>3, Places
<1>. QED  BY <1>1 DEF At

\* The moves that a worker makes.
Moves(w) ==
  \/ At' = At
  \/ \E t : Moved({t}, Unknown, Hand(w))
  \/ \E t : Moved({t}, Hand(w), Done)
  \/ \E t : Moved({t}, Hand(w), Queue(w))
  \/ \E t : \E v \in Worker : Moved({t}, Queue(v), Hand(w))
  \/ \E S : Moved(S, Hand(w), Overflow)
  \/ \E S : Moved(S, Overflow, Hand(w))

LEMMA HandsAlone ==
  ASSUME NEW w \in Worker, \A v \in Worker \ {w} : Alone(w, v)
  PROVE  \A v \in Worker \ {w} : InHand(v)' = InHand(v)
  BY DEF Alone, InHand

LEMMA OtherQueues ==
  ASSUME Types, Types', NEW w \in Worker, \A v \in Worker \ {w} : Alone(w, v),
         pc[w] # "stealCas", \A v \in Worker : Once(v)
  PROVE  \A v \in Worker \ {w} : Contents(v)' = Contents(v) /\ Once(v)'
<1>. TAKE v \in Worker \ {w}
<1>1. age'[v] = age[v] /\ elems'[v] = elems[v]
  BY DEF Alone, Steals
<1>2. EndOf(v)' = EndOf(v)
  BY <1>1, AloneLength
<1>. QED  BY <1>1, <1>2, ContentsSame

LEMMA QueuesKept ==
  ASSUME Types, Types', NEW w \in Worker, \A v \in Worker \ {w} : Alone(w, v), WorkerNext(w),
         pc[w] \notin {"pushBottom", "readTop", "cas", "setAge", "stealCas"},
         QueueKept(w), \A v \in Worker : Once(v)
  PROVE  \A v \in Worker : Contents(v)' = Contents(v) /\ Once(v)'
<1>1. \A v \in Worker \ {w} : Contents(v)' = Contents(v) /\ Once(v)'
  BY OtherQueues
<1>2. CASE pc[w] # "pushElem"
  <2>1. EndOf(w)' = EndOf(w) /\ age'[w] = age[w] /\ elems'[w] = elems[w]
    BY <1>2 DEF QueueKept, Kept1
  <2>. QED  BY <1>1, <2>1, ContentsSame
<1>3. CASE pc[w] = "pushElem"
  <2>1. PushElem(w)
    BY <1>3 DEF WorkerNext, Discover, Scanned, push, PushBottom, push_on_overflow_list,
       trim_queues, pop_local, DecrementBottom, ReadTop, GetAge, pop_local_slow, SetAge,
       pop_global, GiveUp, StealBottom, StealElem, StealCas, take_from_overflow_list,
       Reattach, offer_termination, TestOffered, peek, PeekTop, Withdraw, Step
  <2>. QED  BY <1>1, <2>1, WriteContents
<1>. QED  BY <1>2, <1>3

\* What is pushed leaves the hand.
LEMMA PushHand ==
  ASSUME Types, NEW w \in Worker, HandInv(w), PushBottom(w), Distinct(prefix[w]),
         hold[w] # NoTask => hold[w] # found[w]
  PROVE  ToPush(w) \in InHand(w) /\ InHand(w)' = InHand(w) \ {ToPush(w)}
<1>1. pc[w] = "pushBottom" /\ Pushed(w)
  BY DEF PushBottom
<1>2. hold \in [Worker -> Task \cup {NoTask}] /\ found \in [Worker -> Task \cup {NoTask}]
      /\ prefix \in [Worker -> Seq(Task)] /\ prefix[w] \in Seq(Task)
  BY DEF Types, WorkType
<1>3. CASE found[w] # NoTask
  <2>1. prefix[w] = <<>> /\ found'[w] = NoTask /\ hold' = hold /\ prefix' = prefix
    BY <1>1, <1>2, <1>3 DEF Pushed, HandInv
  <2>. QED  BY <1>3, <2>1, EmptyFacts DEF InHand, ToPush
<1>4. CASE found[w] = NoTask /\ prefix[w] # <<>>
  <2>1. hold[w] = NoTask /\ found' = found /\ hold' = hold /\ prefix'[w] = Tail(prefix[w])
    BY <1>1, <1>2, <1>4 DEF Pushed, HandInv
  <2>2. Head(prefix[w]) \in Range(prefix[w]) /\ Head(prefix[w]) \in Task
        /\ Range(Tail(prefix[w])) = Range(prefix[w]) \ {Head(prefix[w])}
    BY <1>2, <1>4, TailFacts
  <2>3. InHand(w) = Range(prefix[w]) /\ InHand(w)' = Range(Tail(prefix[w]))
    BY <1>4, <2>1 DEF InHand
  <2>. QED  BY <1>4, <2>2, <2>3 DEF ToPush
<1>5. CASE found[w] = NoTask /\ prefix[w] = <<>>
  <2>1. hold[w] # NoTask /\ found' = found /\ prefix' = prefix /\ hold'[w] = NoTask
    BY <1>1, <1>2, <1>5 DEF Pushed, HandInv, Pushing
  <2>. QED  BY <1>5, <2>1, EmptyFacts DEF InHand, ToPush
<1>. QED  BY <1>3, <1>4, <1>5

\* Every step of a worker moves tasks, or leaves them all where they are.
LEMMA MoveStep ==
  ASSUME NEW w \in Worker, Types, Types', EndsInv(w), HandInv(w), ThiefInv(w), QueueKept(w),
         \A v \in Worker \ {w} : Alone(w, v), \A v \in Worker : Once(v), Partition(At),
         Distinct(prefix[w]), hold[w] # NoTask => hold[w] # found[w], WorkerNext(w)
  PROVE  Moves(w) /\ \A v \in Worker : Once(v)'
<1>1. CASE Discover(w)
  <2>1. \A v \in Worker : Contents(v)' = Contents(v) /\ Once(v)'
    BY <1>1, QueuesKept DEF Discover, Step, WorkerNext
  <2>2. hold \in [Worker -> Task \cup {NoTask}] /\ found \in [Worker -> Task \cup {NoTask}]
        /\ prefix \in [Worker -> Seq(Task)] /\ prefix[w] \in Seq(Task)
        /\ overflow \in Seq(Task)
    BY DEF Types, WorkType
  <2>3. created \in 0 .. MaxTasks /\ created < MaxTasks /\ created' = created + 1
    BY <1>1 DEF Discover, Types, WorkType
  <2>4. {created + 1} \subseteq Task \ (1 .. created) /\ created + 1 # NoTask
        /\ Task \ (1 .. created') = (Task \ (1 .. created)) \ {created + 1}
    BY SMT, <2>3, TaskQueueAssumption DEF Task, NoTask
  <2>5. found[w] = NoTask /\ found'[w] = created + 1 /\ hold' = hold /\ prefix' = prefix
    BY <1>1, <2>2 DEF Discover, Step, HandInv, Pushing
  <2>6. InHand(w)' = InHand(w) \cup {created + 1}
    BY <2>4, <2>5 DEF InHand
  <2>7. Moved({created + 1}, Unknown, Hand(w))
    BY <1>1, <2>1, <2>4, <2>6, HandsAlone, FindMove DEF Discover
  <2>. QED  BY <2>1, <2>7 DEF Moves
<1>2. CASE Scanned(w)
  <2>1. \A v \in Worker : Contents(v)' = Contents(v) /\ Once(v)'
    BY <1>2, QueuesKept DEF Scanned, Step, WorkerNext
  <2>2. hold \in [Worker -> Task \cup {NoTask}] /\ found \in [Worker -> Task \cup {NoTask}]
        /\ prefix \in [Worker -> Seq(Task)] /\ prefix[w] \in Seq(Task)
        /\ overflow \in Seq(Task)
    BY DEF Types, WorkType
  <2>3. /\ found[w] = NoTask /\ prefix[w] = <<>> /\ found' = found /\ prefix' = prefix
        /\ hold'[w] = NoTask /\ scanned' = scanned \cup ({hold[w]} \ {NoTask})
        /\ overflow' = overflow /\ created' = created
    BY <1>2, <2>2 DEF Scanned, Step, HandInv, Pushing
  <2>4. InHand(w) = {hold[w]} \ {NoTask} /\ InHand(w)' = {}
    BY <2>3, EmptyFacts DEF InHand
  <2>5. CASE hold[w] = NoTask
    <3>1. At' = At
      BY <2>1, <2>3, <2>4, <2>5, HandsAlone, NoMove
    <3>. QED  BY <2>1, <3>1 DEF Moves
  <2>6. CASE hold[w] # NoTask
    <3>1. {hold[w]} \subseteq InHand(w) /\ InHand(w)' = InHand(w) \ {hold[w]}
          /\ scanned' = scanned \cup {hold[w]}
      BY <2>3, <2>4, <2>6
    <3>2. Moved({hold[w]}, Hand(w), Done)
      BY <2>1, <2>3, <3>1, HandsAlone, DoneMove
    <3>. QED  BY <2>1, <3>2 DEF Moves
  <2>. QED  BY <2>5, <2>6
<1>3. CASE push(w)
  <2>1. \A v \in Worker : Contents(v)' = Contents(v) /\ Once(v)'
    BY <1>3, QueuesKept DEF push, WorkerNext
  <2>2. InHand(w)' = InHand(w) /\ overflow' = overflow /\ created' = created /\ scanned' = scanned
    BY <1>3 DEF push, workVars, InHand
  <2>3. At' = At
    BY <2>1, <2>2, HandsAlone, NoMove
  <2>. QED  BY <2>1, <2>3 DEF Moves
<1>4. CASE PushElem(w)
  <2>1. \A v \in Worker : Contents(v)' = Contents(v) /\ Once(v)'
    BY <1>4, QueuesKept DEF PushElem, Step, WorkerNext
  <2>2. InHand(w)' = InHand(w) /\ overflow' = overflow /\ created' = created /\ scanned' = scanned
    BY <1>4 DEF PushElem, workVars, InHand
  <2>3. At' = At
    BY <2>1, <2>2, HandsAlone, NoMove
  <2>. QED  BY <2>1, <2>3 DEF Moves
<1>5. CASE PushBottom(w)
  <2>1. pc[w] = "pushBottom"
    BY <1>5 DEF PushBottom
  <2>2. \A v \in Worker \ {w} : Contents(v)' = Contents(v) /\ Once(v)'
    BY <2>1, OtherQueues
  <2>3. ToPush(w) \in InHand(w) /\ InHand(w)' = InHand(w) \ {ToPush(w)}
    BY <1>5, PushHand
  <2>4. Contents(w)' = Contents(w) \cup {ToPush(w)} /\ Once(w)'
    BY <1>5, <2>3, PushContents, Apart
  <2>5. Moved({ToPush(w)}, Hand(w), Queue(w))
    BY <1>5, <2>2, <2>3, <2>4, HandsAlone, PushMove DEF PushBottom
  <2>. QED  BY <2>2, <2>4, <2>5 DEF Moves
<1>6. CASE push_on_overflow_list(w)
  <2>1. \A v \in Worker : Contents(v)' = Contents(v) /\ Once(v)'
    BY <1>6, QueuesKept DEF push_on_overflow_list, Step, WorkerNext
  <2>2. hold \in [Worker -> Task \cup {NoTask}] /\ found \in [Worker -> Task \cup {NoTask}]
        /\ prefix \in [Worker -> Seq(Task)] /\ prefix[w] \in Seq(Task)
        /\ overflow \in Seq(Task)
    BY DEF Types, WorkType
  <2>3. /\ found[w] # NoTask /\ prefix[w] = <<>> /\ found'[w] = NoTask /\ hold' = hold
        /\ prefix' = prefix /\ overflow' = <<found[w]>> \o overflow
        /\ created' = created /\ scanned' = scanned
    BY <1>6, <2>2 DEF push_on_overflow_list, Step, HandInv, Pushing
  <2>4. {found[w]} \subseteq InHand(w) /\ InHand(w)' = InHand(w) \ {found[w]}
    BY <2>3, EmptyFacts DEF InHand
  <2>5. found[w] \in Task
    BY <2>2, <2>3
  <2>6. <<found[w]>> \in Seq(Task) /\ Range(<<found[w]>>) = {found[w]}
    BY <2>5, SingleFacts
  <2>7. Range(<<found[w]>> \o overflow) = Range(<<found[w]>>) \cup Range(overflow)
    BY <2>2, <2>6, ConcatFacts
  <2>8. Moved({found[w]}, Hand(w), Overflow)
    <3>1. Range(overflow') = Range(overflow) \cup {found[w]}
      BY <2>3, <2>6, <2>7
    <3>. QED  BY <2>1, <2>3, <2>4, <3>1, HandsAlone, ListMove
  <2>. QED  BY <2>1, <2>8 DEF Moves
<1>7. CASE trim_queues(w)
  <2>1. \A v \in Worker : Contents(v)' = Contents(v) /\ Once(v)'
    BY <1>7, QueuesKept DEF trim_queues, WorkerNext
  <2>2. InHand(w)' = InHand(w) /\ overflow' = overflow /\ created' = created /\ scanned' = scanned
    BY <1>7 DEF trim_queues, workVars, InHand
  <2>3. At' = At
    BY <2>1, <2>2, HandsAlone, NoMove
  <2>. QED  BY <2>1, <2>3 DEF Moves
<1>8. CASE pop_local(w)
  <2>1. \A v \in Worker : Contents(v)' = Contents(v) /\ Once(v)'
    BY <1>8, QueuesKept DEF pop_local, WorkerNext
  <2>2. InHand(w)' = InHand(w) /\ overflow' = overflow /\ created' = created /\ scanned' = scanned
    BY <1>8 DEF pop_local, workVars, InHand
  <2>3. At' = At
    BY <2>1, <2>2, HandsAlone, NoMove
  <2>. QED  BY <2>1, <2>3 DEF Moves
<1>9. CASE DecrementBottom(w)
  <2>1. \A v \in Worker : Contents(v)' = Contents(v) /\ Once(v)'
    BY <1>9, QueuesKept DEF DecrementBottom, Step, WorkerNext
  <2>2. InHand(w)' = InHand(w) /\ overflow' = overflow /\ created' = created /\ scanned' = scanned
    BY <1>9 DEF DecrementBottom, workVars, InHand
  <2>3. At' = At
    BY <2>1, <2>2, HandsAlone, NoMove
  <2>. QED  BY <2>1, <2>3 DEF Moves
<1>10. CASE ReadTop(w)
  <2>1. pc[w] = "readTop"
    BY <1>10 DEF ReadTop
  <2>2. \A v \in Worker \ {w} : Contents(v)' = Contents(v) /\ Once(v)'
    BY <2>1, OtherQueues
  <2>3. CASE Uncontested(w)
    <3>1. /\ hold'[w] = elems[w][bottom[w]] /\ found' = found /\ prefix' = prefix
          /\ overflow' = overflow /\ created' = created /\ scanned' = scanned
      BY <1>10, <2>3 DEF ReadTop, Claim, Types, WorkType
    <3>2. elems[w][bottom[w]] \in Contents(w) /\ Once(w)'
          /\ Contents(w)' = Contents(w) \ {elems[w][bottom[w]]}
      BY <1>10, <2>3, PopContents
    <3>3. found[w] = NoTask /\ hold[w] = NoTask /\ prefix[w] = <<>>
      BY <2>1 DEF HandInv, Pushing
    <3>4. elems[w][bottom[w]] \in Task
      BY <3>2, Apart
    <3>5. elems[w][bottom[w]] # NoTask
      BY SMT, <3>4 DEF Task, NoTask
    <3>6. InHand(w)' = InHand(w) \cup {elems[w][bottom[w]]}
      BY <3>1, <3>3, <3>5 DEF InHand
    <3>7. Moved({elems[w][bottom[w]]}, Queue(w), Hand(w))
      BY <2>2, <3>1, <3>2, <3>6, HandsAlone, PopMove
    <3>. QED  BY <2>2, <3>2, <3>7 DEF Moves
  <2>4. CASE ~Uncontested(w)
    <3>1. /\ pc'[w] = "getAge" /\ age' = age /\ elems' = elems /\ bottom' = bottom
          /\ hold' = hold /\ found' = found /\ prefix' = prefix
          /\ overflow' = overflow /\ created' = created /\ scanned' = scanned
      BY <1>10, <2>4 DEF ReadTop, queueVars, Types, ControlType
    <3>2. EndOf(w)' = EndOf(w)
      BY <2>1, <3>1 DEF EndOf, Popping
    <3>3. Contents(w)' = Contents(w) /\ Once(w)'
      BY <3>1, <3>2, ContentsSame
    <3>4. InHand(w)' = InHand(w)
      BY <3>1 DEF InHand
    <3>5. At' = At
      BY <2>2, <3>1, <3>3, <3>4, HandsAlone, NoMove
    <3>. QED  BY <2>2, <3>3, <3>5 DEF Moves
  <2>. QED  BY <2>3, <2>4
<1>11. CASE GetAge(w)
  <2>1. \A v \in Worker : Contents(v)' = Contents(v) /\ Once(v)'
    BY <1>11, QueuesKept DEF GetAge, Step, WorkerNext
  <2>2. InHand(w)' = InHand(w) /\ overflow' = overflow /\ created' = created /\ scanned' = scanned
    BY <1>11 DEF GetAge, workVars, InHand
  <2>3. At' = At
    BY <2>1, <2>2, HandsAlone, NoMove
  <2>. QED  BY <2>1, <2>3 DEF Moves
<1>12. CASE pop_local_slow(w)
  <2>1. pc[w] = "cas"
    BY <1>12 DEF pop_local_slow
  <2>2. \A v \in Worker \ {w} : Contents(v)' = Contents(v) /\ Once(v)'
    BY <2>1, OtherQueues
  <2>. DEFINE same == loc[w].oldAge = age[w]
              here == bottom[w] = loc[w].oldAge.top
  <2>3. CASE here /\ same
    <3>1. /\ hold'[w] = loc[w].t /\ found' = found /\ prefix' = prefix
          /\ overflow' = overflow /\ created' = created /\ scanned' = scanned
          /\ set_age(w) /\ bottom' = bottom /\ elems' = elems /\ pc'[w] = "scan"
      BY <1>12, <2>3 DEF pop_local_slow, Claim, Types, WorkType, ControlType
    <3>2. loc[w].t \in Contents(w) /\ Contents(w)' = Contents(w) \ {loc[w].t} /\ Once(w)'
      BY <2>1, <2>3, <3>1, LastContents
    <3>3. found[w] = NoTask /\ hold[w] = NoTask /\ prefix[w] = <<>>
      BY <2>1 DEF HandInv, Pushing
    <3>4. loc[w].t \in Task
      BY <3>2, Apart
    <3>5. loc[w].t # NoTask
      BY SMT, <3>4 DEF Task, NoTask
    <3>6. InHand(w)' = InHand(w) \cup {loc[w].t}
      BY <3>1, <3>3, <3>5 DEF InHand
    <3>7. Moved({loc[w].t}, Queue(w), Hand(w))
      BY <2>2, <3>1, <3>2, <3>6, HandsAlone, PopMove
    <3>. QED  BY <2>2, <3>2, <3>7 DEF Moves
  <2>4. CASE here /\ ~same
    <3>1. /\ pc'[w] = "setAge" /\ age' = age /\ elems' = elems /\ bottom' = bottom
          /\ hold' = hold /\ found' = found /\ prefix' = prefix
          /\ overflow' = overflow /\ created' = created /\ scanned' = scanned
      BY <1>12, <2>4 DEF pop_local_slow, Types, ControlType
    <3>2. Contents(w)' = Contents(w) /\ Once(w)'
      <4>1. EndOf(w)' = EndOf(w)
        BY <2>1, <3>1 DEF EndOf, Popping
      <4>. QED  BY <3>1, <4>1, ContentsSame
    <3>3. InHand(w)' = InHand(w)
      BY <3>1 DEF InHand
    <3>4. At' = At
      BY <2>2, <3>1, <3>2, <3>3, HandsAlone, NoMove
    <3>. QED  BY <2>2, <3>2, <3>4 DEF Moves
  <2>5. CASE ~here
    <3>1. /\ pc'[w] = "trim" /\ set_age(w) /\ elems' = elems /\ bottom' = bottom
          /\ hold' = hold /\ found' = found /\ prefix' = prefix
          /\ overflow' = overflow /\ created' = created /\ scanned' = scanned
      BY <1>12, <2>5 DEF pop_local_slow, Types, ControlType
    <3>2. Contents(w)' = Contents(w) /\ Once(w)'
      BY <2>1, <2>5, <3>1, EmptyContents
    <3>3. InHand(w)' = InHand(w)
      BY <3>1 DEF InHand
    <3>4. At' = At
      BY <2>2, <3>1, <3>2, <3>3, HandsAlone, NoMove
    <3>. QED  BY <2>2, <3>2, <3>4 DEF Moves
  <2>. QED  BY <2>3, <2>4, <2>5
<1>13. CASE SetAge(w)
  <2>1. pc[w] = "setAge"
    BY <1>13 DEF SetAge, Step
  <2>2. \A v \in Worker \ {w} : Contents(v)' = Contents(v) /\ Once(v)'
    BY <2>1, OtherQueues
  <2>3. /\ pc'[w] = "trim" /\ set_age(w) /\ elems' = elems /\ bottom' = bottom
        /\ hold' = hold /\ found' = found /\ prefix' = prefix
        /\ overflow' = overflow /\ created' = created /\ scanned' = scanned
    BY <1>13 DEF SetAge, Step, workVars, Types, ControlType
  <2>4. Contents(w)' = Contents(w) /\ Once(w)'
    BY <2>1, <2>3, EmptyContents
  <2>5. InHand(w)' = InHand(w)
    BY <2>3 DEF InHand
  <2>6. At' = At
    BY <2>2, <2>3, <2>4, <2>5, HandsAlone, NoMove
  <2>. QED  BY <2>2, <2>4, <2>6 DEF Moves
<1>14. CASE pop_global(w)
  <2>1. \A v \in Worker : Contents(v)' = Contents(v) /\ Once(v)'
    BY <1>14, QueuesKept DEF pop_global, Step, WorkerNext
  <2>2. InHand(w)' = InHand(w) /\ overflow' = overflow /\ created' = created /\ scanned' = scanned
    BY <1>14 DEF pop_global, workVars, InHand
  <2>3. At' = At
    BY <2>1, <2>2, HandsAlone, NoMove
  <2>. QED  BY <2>1, <2>3 DEF Moves
<1>15. CASE GiveUp(w)
  <2>1. \A v \in Worker : Contents(v)' = Contents(v) /\ Once(v)'
    BY <1>15, QueuesKept DEF GiveUp, Step, WorkerNext
  <2>2. InHand(w)' = InHand(w) /\ overflow' = overflow /\ created' = created /\ scanned' = scanned
    BY <1>15 DEF GiveUp, workVars, InHand
  <2>3. At' = At
    BY <2>1, <2>2, HandsAlone, NoMove
  <2>. QED  BY <2>1, <2>3 DEF Moves
<1>16. CASE StealBottom(w)
  <2>1. \A v \in Worker : Contents(v)' = Contents(v) /\ Once(v)'
    BY <1>16, QueuesKept DEF StealBottom, WorkerNext
  <2>2. InHand(w)' = InHand(w) /\ overflow' = overflow /\ created' = created /\ scanned' = scanned
    BY <1>16 DEF StealBottom, workVars, InHand
  <2>3. At' = At
    BY <2>1, <2>2, HandsAlone, NoMove
  <2>. QED  BY <2>1, <2>3 DEF Moves
<1>17. CASE StealElem(w)
  <2>1. \A v \in Worker : Contents(v)' = Contents(v) /\ Once(v)'
    BY <1>17, QueuesKept DEF StealElem, Step, WorkerNext
  <2>2. InHand(w)' = InHand(w) /\ overflow' = overflow /\ created' = created /\ scanned' = scanned
    BY <1>17 DEF StealElem, workVars, InHand
  <2>3. At' = At
    BY <2>1, <2>2, HandsAlone, NoMove
  <2>. QED  BY <2>1, <2>3 DEF Moves
<1>18. CASE StealCas(w)
  <2>0. pc[w] = "stealCas" /\ loc[w].k \in Worker \ {w}
    BY <1>18, LocalsAre DEF StealCas, ThiefInv, Stealing, Types, ControlType
  <2>1. PICK k \in Worker \ {w} : k = loc[w].k
    BY <2>0
  <2>2. EndOf(w)' = EndOf(w) /\ age'[w] = age[w] /\ elems'[w] = elems[w]
    BY <2>0 DEF QueueKept, Kept1
  <2>3. Contents(w)' = Contents(w) /\ Once(w)'
    BY <2>2, ContentsSame
  <2>4. \A v \in Worker \ {w, k} : Contents(v)' = Contents(v) /\ Once(v)'
    <3>. TAKE v \in Worker \ {w, k}
    <3>1. age'[v] = age[v] /\ elems'[v] = elems[v]
      BY <2>1 DEF Alone, Steals
    <3>2. EndOf(v)' = EndOf(v)
      BY <3>1, AloneLength
    <3>. QED  BY <3>1, <3>2, ContentsSame
  <2>5. CASE age[k] = loc[w].oldAge
    <3>1. /\ hold'[w] = loc[w].t /\ found' = found /\ prefix' = prefix
          /\ overflow' = overflow /\ created' = created /\ scanned' = scanned
      BY <1>18, <2>1, <2>5 DEF StealCas, Claim, Unchanged, Types, WorkType
    <3>2. loc[w].t \in Contents(k) /\ Contents(k)' = Contents(k) \ {loc[w].t} /\ Once(k)'
      <4>1. age' = [age EXCEPT ![k] = Stolen(@)]
        BY <1>18, <2>1, <2>5 DEF StealCas, Unchanged
      <4>2. Steals(w, k)
        BY <2>0, <2>1, <2>5, <4>1 DEF Steals, Types, QueueType
      <4>3. Alone(w, k)
        BY <2>1
      <4>. QED  BY <2>1, <4>2, <4>3, StealContents
    <3>3. found[w] = NoTask /\ hold[w] = NoTask /\ prefix[w] = <<>>
      BY <2>0 DEF HandInv, Pushing
    <3>4. loc[w].t \in Task
      BY <2>1, <3>2, Apart
    <3>5. loc[w].t # NoTask
      BY SMT, <3>4 DEF Task, NoTask
    <3>6. InHand(w)' = InHand(w) \cup {loc[w].t}
      BY <3>1, <3>3, <3>5 DEF InHand
    <3>7. \A v \in Worker \ {k} : Contents(v)' = Contents(v)
      BY <2>3, <2>4
    <3>8. \A v \in Worker : Once(v)'
      BY <2>3, <2>4, <3>2
    <3>9. Moved({loc[w].t}, Queue(k), Hand(w))
      BY <2>1, <3>1, <3>2, <3>6, <3>7, HandsAlone, PopMove
    <3>. QED  BY <2>1, <3>8, <3>9 DEF Moves
  <2>6. CASE age[k] # loc[w].oldAge
    <3>1. /\ age' = age /\ elems' = elems /\ bottom' = bottom
          /\ hold' = hold /\ found' = found /\ prefix' = prefix
          /\ overflow' = overflow /\ created' = created /\ scanned' = scanned
      BY <1>18, <2>1, <2>6 DEF StealCas, Unchanged
    <3>2. \A v \in Worker : Contents(v)' = Contents(v) /\ Once(v)'
      <4>1. Contents(k)' = Contents(k) /\ Once(k)'
        <5>1. age'[k] = age[k] /\ elems'[k] = elems[k]
          BY <3>1
        <5>2. EndOf(k)' = EndOf(k)
          BY <2>1, <5>1, AloneLength
        <5>. QED  BY <2>1, <5>1, <5>2, ContentsSame
      <4>. QED  BY <2>3, <2>4, <4>1
    <3>3. InHand(w)' = InHand(w)
      BY <3>1 DEF InHand
    <3>4. At' = At
      BY <3>1, <3>2, <3>3, HandsAlone, NoMove
    <3>. QED  BY <3>2, <3>4 DEF Moves
  <2>. QED  BY <2>5, <2>6
<1>19. CASE take_from_overflow_list(w)
  <2>1. \A v \in Worker : Contents(v)' = Contents(v) /\ Once(v)'
    BY <1>19, QueuesKept DEF take_from_overflow_list, WorkerNext
  <2>2. hold \in [Worker -> Task \cup {NoTask}] /\ found \in [Worker -> Task \cup {NoTask}]
        /\ prefix \in [Worker -> Seq(Task)] /\ prefix[w] \in Seq(Task)
        /\ overflow \in Seq(Task)
    BY DEF Types, WorkType
  <2>3. found[w] = NoTask /\ hold[w] = NoTask /\ prefix[w] = <<>> /\ hold' = hold /\ found' = found
        /\ created' = created /\ scanned' = scanned
    BY <1>19 DEF take_from_overflow_list, HandInv, Pushing
  <2>4. CASE overflow = <<>>
    <3>1. overflow' = overflow /\ InHand(w)' = InHand(w)
      BY <1>19, <2>4 DEF take_from_overflow_list, InHand
    <3>2. At' = At
      BY <2>1, <2>3, <3>1, HandsAlone, NoMove
    <3>. QED  BY <2>1, <3>2 DEF Moves
  <2>5. CASE overflow # <<>>
    <3>1. overflow' = <<>> /\ prefix'[w] = overflow
      BY <1>19, <2>2, <2>5 DEF take_from_overflow_list
    <3>2. InHand(w) = {} /\ InHand(w)' = Range(overflow) /\ Range(overflow') = {}
      BY <2>3, <3>1, EmptyFacts DEF InHand
    <3>3. InHand(w)' = InHand(w) \cup Range(overflow)
          /\ Range(overflow') = Range(overflow) \ Range(overflow)
      BY <3>2
    <3>4. Moved(Range(overflow), Overflow, Hand(w))
      BY <2>1, <2>3, <3>3, HandsAlone, DrainMove
    <3>. QED  BY <2>1, <3>4 DEF Moves
  <2>. QED  BY <2>4, <2>5
<1>20. CASE Reattach(w)
  <2>1. \A v \in Worker : Contents(v)' = Contents(v) /\ Once(v)'
    BY <1>20, QueuesKept DEF Reattach, Step, WorkerNext
  <2>2. hold \in [Worker -> Task \cup {NoTask}] /\ found \in [Worker -> Task \cup {NoTask}]
        /\ prefix \in [Worker -> Seq(Task)] /\ prefix[w] \in Seq(Task)
        /\ overflow \in Seq(Task)
    BY DEF Types, WorkType
  <2>. DEFINE kept == SubSeq(prefix[w], 1, Kept)
              rest == SubSeq(prefix[w], Kept + 1, Len(prefix[w]))
  <2>3. /\ overflow' = rest \o overflow /\ prefix'[w] = kept /\ Len(prefix[w]) > Kept
        /\ hold' = hold /\ found' = found /\ created' = created /\ scanned' = scanned
    BY <1>20, <2>2 DEF Reattach, Rejoined, Kept, Step, HandInv
  <2>4. Kept \in Nat /\ 0 < Kept /\ Kept < Len(prefix[w]) /\ 0 < Len(prefix[w])
    BY SMT, <2>2, <2>3, KeptFacts
  <2>5. /\ rest \in Seq(Task) /\ Range(kept) \cup Range(rest) = Range(prefix[w])
        /\ Range(kept) \cap Range(rest) = {}
    BY <2>2, <2>4, CutFacts
  <2>6. prefix[w] # <<>>
    BY SMT, <2>2, <2>4
  <2>7. hold[w] = NoTask /\ found[w] = NoTask
    BY <2>6 DEF HandInv
  <2>. HIDE DEF kept, rest
  <2>8. Range(rest) \subseteq InHand(w) /\ InHand(w)' = InHand(w) \ Range(rest)
    BY <2>3, <2>5, <2>7 DEF InHand
  <2>9. Range(overflow') = Range(overflow) \cup Range(rest)
    <3>1. Range(rest \o overflow) = Range(rest) \cup Range(overflow)
      BY <2>2, <2>5, ConcatFacts
    <3>. QED  BY <2>3, <3>1
  <2>10. Moved(Range(rest), Hand(w), Overflow)
    BY <2>1, <2>3, <2>8, <2>9, HandsAlone, ListMove
  <2>. QED  BY <2>1, <2>10 DEF Moves
<1>21. CASE offer_termination(w)
  <2>1. \A v \in Worker : Contents(v)' = Contents(v) /\ Once(v)'
    BY <1>21, QueuesKept DEF offer_termination, Step, WorkerNext
  <2>2. InHand(w)' = InHand(w) /\ overflow' = overflow /\ created' = created /\ scanned' = scanned
    BY <1>21 DEF offer_termination, workVars, InHand
  <2>3. At' = At
    BY <2>1, <2>2, HandsAlone, NoMove
  <2>. QED  BY <2>1, <2>3 DEF Moves
<1>22. CASE TestOffered(w)
  <2>1. \A v \in Worker : Contents(v)' = Contents(v) /\ Once(v)'
    BY <1>22, QueuesKept DEF TestOffered, WorkerNext
  <2>2. InHand(w)' = InHand(w) /\ overflow' = overflow /\ created' = created /\ scanned' = scanned
    BY <1>22 DEF TestOffered, workVars, InHand
  <2>3. At' = At
    BY <2>1, <2>2, HandsAlone, NoMove
  <2>. QED  BY <2>1, <2>3 DEF Moves
<1>23. CASE peek(w)
  <2>1. \A v \in Worker : Contents(v)' = Contents(v) /\ Once(v)'
    BY <1>23, QueuesKept DEF peek, Step, WorkerNext
  <2>2. InHand(w)' = InHand(w) /\ overflow' = overflow /\ created' = created /\ scanned' = scanned
    BY <1>23 DEF peek, workVars, InHand
  <2>3. At' = At
    BY <2>1, <2>2, HandsAlone, NoMove
  <2>. QED  BY <2>1, <2>3 DEF Moves
<1>24. CASE PeekTop(w)
  <2>1. \A v \in Worker : Contents(v)' = Contents(v) /\ Once(v)'
    BY <1>24, QueuesKept DEF PeekTop, WorkerNext
  <2>2. InHand(w)' = InHand(w) /\ overflow' = overflow /\ created' = created /\ scanned' = scanned
    BY <1>24 DEF PeekTop, workVars, InHand
  <2>3. At' = At
    BY <2>1, <2>2, HandsAlone, NoMove
  <2>. QED  BY <2>1, <2>3 DEF Moves
<1>25. CASE Withdraw(w)
  <2>1. \A v \in Worker : Contents(v)' = Contents(v) /\ Once(v)'
    BY <1>25, QueuesKept DEF Withdraw, Step, WorkerNext
  <2>2. InHand(w)' = InHand(w) /\ overflow' = overflow /\ created' = created /\ scanned' = scanned
    BY <1>25 DEF Withdraw, workVars, InHand
  <2>3. At' = At
    BY <2>1, <2>2, HandsAlone, NoMove
  <2>. QED  BY <2>1, <2>3 DEF Moves
<1>. QED
  BY <1>1, <1>2, <1>3, <1>4, <1>5, <1>6, <1>7, <1>8, <1>9, <1>10, <1>11, <1>12,
     <1>13, <1>14, <1>15, <1>16, <1>17, <1>18, <1>19, <1>20, <1>21, <1>22, <1>23,
     <1>24, <1>25 DEF WorkerNext

----------------------------------------------------------------------------
(* The lists, the end and the counters.                                    *)

ListsKept(w) ==
  /\ Distinct(overflow') /\ Distinct(prefix'[w])
  /\ hold'[w] # NoTask => hold'[w] # found'[w]

\* No step puts a task on a list twice.
LEMMA ListStep ==
  ASSUME NEW w \in Worker, Types, HandInv(w), Partition(At), Distinct(overflow),
         Distinct(prefix[w]), hold[w] # NoTask => hold[w] # found[w], WorkerNext(w)
  PROVE  ListsKept(w)
<1>. USE DEF ListsKept, workVars
<1>1. CASE Discover(w)
  <2>1. hold \in [Worker -> Task \cup {NoTask}] /\ found \in [Worker -> Task \cup {NoTask}]
        /\ prefix \in [Worker -> Seq(Task)] /\ prefix[w] \in Seq(Task)
        /\ overflow \in Seq(Task)
    BY DEF Types, WorkType
  <2>2. created \in 0 .. MaxTasks /\ created < MaxTasks
    BY <1>1 DEF Discover, Types, WorkType
  <2>3. created + 1 \in Task \ (1 .. created)
    BY SMT, <2>2, TaskQueueAssumption DEF Task
  <2>4. created + 1 \notin InHand(w)
    BY <2>3, Apart
  <2>5. hold[w] # NoTask => hold[w] # created + 1
    BY <2>4 DEF InHand
  <2>. QED  BY <1>1, <2>1, <2>5 DEF Discover
<1>2. CASE Scanned(w)
  <2>1. hold \in [Worker -> Task \cup {NoTask}] /\ found \in [Worker -> Task \cup {NoTask}]
        /\ prefix \in [Worker -> Seq(Task)] /\ prefix[w] \in Seq(Task)
        /\ overflow \in Seq(Task)
    BY DEF Types, WorkType
  <2>. QED  BY <1>2, <2>1 DEF Scanned
<1>3. CASE push(w)
  BY <1>3 DEF push
<1>4. CASE PushElem(w)
  BY <1>4 DEF PushElem, Step
<1>5. CASE PushBottom(w)
  <2>1. hold \in [Worker -> Task \cup {NoTask}] /\ found \in [Worker -> Task \cup {NoTask}]
        /\ prefix \in [Worker -> Seq(Task)] /\ prefix[w] \in Seq(Task)
        /\ overflow \in Seq(Task)
    BY DEF Types, WorkType
  <2>2. Distinct(Tail(prefix[w])) \/ prefix[w] = <<>>
    BY <2>1, TailFacts
  <2>3. overflow' = overflow
    BY <1>5 DEF PushBottom
  <2>4. CASE found[w] # NoTask
    BY <1>5, <2>1, <2>3, <2>4 DEF PushBottom, Pushed
  <2>5. CASE found[w] = NoTask /\ prefix[w] # <<>>
    BY <1>5, <2>1, <2>2, <2>3, <2>5 DEF PushBottom, Pushed
  <2>6. CASE found[w] = NoTask /\ prefix[w] = <<>>
    BY <1>5, <2>1, <2>3, <2>6 DEF PushBottom, Pushed
  <2>. QED  BY <2>4, <2>5, <2>6
<1>6. CASE push_on_overflow_list(w)
  <2>1. hold \in [Worker -> Task \cup {NoTask}] /\ found \in [Worker -> Task \cup {NoTask}]
        /\ prefix \in [Worker -> Seq(Task)] /\ prefix[w] \in Seq(Task)
        /\ overflow \in Seq(Task)
    BY DEF Types, WorkType
  <2>2. found[w] \in Task /\ found[w] # NoTask
    BY <1>6, <2>1 DEF push_on_overflow_list, Step, HandInv
  <2>3. found[w] \in InHand(w)
    BY <2>2 DEF InHand
  <2>4. found[w] \notin Range(overflow)
    BY <2>3, Apart
  <2>5. <<found[w]>> \in Seq(Task) /\ Range(<<found[w]>>) = {found[w]} /\ Distinct(<<found[w]>>)
    BY <2>2, SingleFacts
  <2>6. Range(<<found[w]>>) \cap Range(overflow) = {}
    BY <2>4, <2>5
  <2>7. Distinct(<<found[w]>> \o overflow)
    BY <2>1, <2>5, <2>6, ConcatFacts
  <2>. QED  BY <1>6, <2>1, <2>7 DEF push_on_overflow_list
<1>7. CASE trim_queues(w)
  BY <1>7 DEF trim_queues
<1>8. CASE pop_local(w)
  BY <1>8 DEF pop_local
<1>9. CASE DecrementBottom(w)
  BY <1>9 DEF DecrementBottom, Step
<1>10. CASE ReadTop(w)
  <2>1. hold \in [Worker -> Task \cup {NoTask}] /\ found \in [Worker -> Task \cup {NoTask}]
        /\ prefix \in [Worker -> Seq(Task)] /\ prefix[w] \in Seq(Task)
        /\ overflow \in Seq(Task)
    BY DEF Types, WorkType
  <2>2. found' = found /\ prefix' = prefix /\ overflow' = overflow /\ found[w] = NoTask
    BY <1>10 DEF ReadTop, HandInv, Pushing
  <2>. QED  BY <2>2
<1>11. CASE GetAge(w)
  BY <1>11 DEF GetAge, Step
<1>12. CASE pop_local_slow(w)
  <2>1. hold \in [Worker -> Task \cup {NoTask}] /\ found \in [Worker -> Task \cup {NoTask}]
        /\ prefix \in [Worker -> Seq(Task)] /\ prefix[w] \in Seq(Task)
        /\ overflow \in Seq(Task)
    BY DEF Types, WorkType
  <2>2. found' = found /\ prefix' = prefix /\ overflow' = overflow /\ found[w] = NoTask
    BY <1>12 DEF pop_local_slow, HandInv, Pushing
  <2>. QED  BY <2>2
<1>13. CASE SetAge(w)
  BY <1>13 DEF SetAge, Step, set_age
<1>14. CASE pop_global(w)
  BY <1>14 DEF pop_global, Step
<1>15. CASE GiveUp(w)
  BY <1>15 DEF GiveUp, Step
<1>16. CASE StealBottom(w)
  BY <1>16 DEF StealBottom, NextTry
<1>17. CASE StealElem(w)
  BY <1>17 DEF StealElem, Step
<1>18. CASE StealCas(w)
  <2>1. hold \in [Worker -> Task \cup {NoTask}] /\ found \in [Worker -> Task \cup {NoTask}]
        /\ prefix \in [Worker -> Seq(Task)] /\ prefix[w] \in Seq(Task)
        /\ overflow \in Seq(Task)
    BY DEF Types, WorkType
  <2>2. found' = found /\ prefix' = prefix /\ overflow' = overflow /\ found[w] = NoTask
    BY <1>18 DEF StealCas, HandInv, Pushing
  <2>. QED  BY <2>2
<1>19. CASE take_from_overflow_list(w)
  <2>1. hold \in [Worker -> Task \cup {NoTask}] /\ found \in [Worker -> Task \cup {NoTask}]
        /\ prefix \in [Worker -> Seq(Task)] /\ prefix[w] \in Seq(Task)
        /\ overflow \in Seq(Task)
    BY DEF Types, WorkType
  <2>. QED  BY <1>19, <2>1, EmptyFacts DEF take_from_overflow_list
<1>20. CASE Reattach(w)
  <2>1. hold \in [Worker -> Task \cup {NoTask}] /\ found \in [Worker -> Task \cup {NoTask}]
        /\ prefix \in [Worker -> Seq(Task)] /\ prefix[w] \in Seq(Task)
        /\ overflow \in Seq(Task)
    BY DEF Types, WorkType
  <2>. DEFINE kept == SubSeq(prefix[w], 1, Kept)
              rest == SubSeq(prefix[w], Kept + 1, Len(prefix[w]))
  <2>2. /\ overflow' = rest \o overflow /\ prefix'[w] = kept /\ Len(prefix[w]) > Kept
        /\ hold' = hold /\ found' = found
    BY <1>20, <2>1 DEF Reattach, Rejoined, Kept, Step, HandInv
  <2>3. Kept \in Nat /\ 0 < Kept /\ Kept < Len(prefix[w])
    BY SMT, <2>1, <2>2, KeptFacts
  <2>4. /\ rest \in Seq(Task) /\ Range(kept) \cup Range(rest) = Range(prefix[w])
        /\ Distinct(kept) /\ Distinct(rest)
    BY <2>1, <2>3, CutFacts
  <2>. HIDE DEF kept, rest
  <2>5. Range(prefix[w]) \cap Range(overflow) = {}
    BY Apart DEF InHand
  <2>6. Range(rest) \cap Range(overflow) = {}
    BY <2>4, <2>5
  <2>7. Distinct(rest \o overflow)
    BY <2>1, <2>4, <2>6, ConcatFacts
  <2>. QED  BY <2>2, <2>4, <2>7
<1>21. CASE offer_termination(w)
  BY <1>21 DEF offer_termination, Step
<1>22. CASE TestOffered(w)
  BY <1>22 DEF TestOffered
<1>23. CASE peek(w)
  BY <1>23 DEF peek, Step
<1>24. CASE PeekTop(w)
  BY <1>24 DEF PeekTop
<1>25. CASE Withdraw(w)
  BY <1>25 DEF Withdraw, Step
<1>. QED
  BY <1>1, <1>2, <1>3, <1>4, <1>5, <1>6, <1>7, <1>8, <1>9, <1>10, <1>11, <1>12,
     <1>13, <1>14, <1>15, <1>16, <1>17, <1>18, <1>19, <1>20, <1>21, <1>22, <1>23,
     <1>24, <1>25 DEF WorkerNext

\* Whom a step makes offer to stop, and what it does to the counters.
ControlMove(w) ==
  /\ \/ pc[w] \notin Peeking /\ pc'[w] \in Peeking /\ offered' = offered + 1
     \/ pc[w] \in Peeking /\ pc'[w] \notin Peeking /\ offered' = offered - 1
     \/ (pc[w] \in Peeking <=> pc'[w] \in Peeking) /\ offered' = offered
  /\ \/ steals < MaxSteals /\ steals' = steals
     \/ pc[w] \in Stealing /\ pc'[w] \notin Stealing /\ steals' \in {steals, steals + 1}
     \/ (pc[w] \in Stealing <=> pc'[w] \in Stealing) /\ steals' = steals
  /\ pc[w] # "done"
  /\ pc'[w] \in Peeking \cup {"offer"} =>
       overflow' = overflow /\ (pc[w] \in Peeking \cup {"offer"} \/ overflow = <<>>)
  /\ pc'[w] = "done" => pc[w] = "offered" /\ offered = NWorkers

LEMMA ControlStep ==
  ASSUME NEW w \in Worker, Types, WorkerNext(w)
  PROVE  ControlMove(w)
<1>. USE DEF ControlMove, Types, ControlType, Peeking, Stealing
<1>1. CASE Discover(w)
  BY <1>1 DEF Discover, Step
<1>2. CASE Scanned(w)
  BY <1>2 DEF Scanned, Step
<1>3. CASE push(w)
  BY <1>3 DEF push
<1>4. CASE PushElem(w)
  BY <1>4 DEF PushElem, Step
<1>5. CASE PushBottom(w)
  BY <1>5 DEF PushBottom, Pushed
<1>6. CASE push_on_overflow_list(w)
  BY <1>6 DEF push_on_overflow_list, Step
<1>7. CASE trim_queues(w)
  BY <1>7 DEF trim_queues
<1>8. CASE pop_local(w)
  BY <1>8 DEF pop_local
<1>9. CASE DecrementBottom(w)
  BY <1>9 DEF DecrementBottom, Step
<1>10. CASE ReadTop(w)
  BY <1>10 DEF ReadTop, Claim
<1>11. CASE GetAge(w)
  BY <1>11 DEF GetAge, Step
<1>12. CASE pop_local_slow(w)
  BY <1>12 DEF pop_local_slow, Claim, set_age
<1>13. CASE SetAge(w)
  BY <1>13 DEF SetAge, Step, set_age
<1>14. CASE pop_global(w)
  BY <1>14 DEF pop_global, Step
<1>15. CASE GiveUp(w)
  BY <1>15 DEF GiveUp, Step
<1>16. CASE StealBottom(w)
  BY <1>16 DEF StealBottom, NextTry
<1>17. CASE StealElem(w)
  BY <1>17 DEF StealElem, Step
<1>18. CASE StealCas(w)
  BY <1>18 DEF StealCas, NextTry, Claim
<1>19. CASE take_from_overflow_list(w)
  BY <1>19 DEF take_from_overflow_list
<1>20. CASE Reattach(w)
  BY <1>20 DEF Reattach, Step
<1>21. CASE offer_termination(w)
  BY <1>21 DEF offer_termination, Step, Offered
<1>22. CASE TestOffered(w)
  BY <1>22 DEF TestOffered, AllOffered
<1>23. CASE peek(w)
  BY <1>23 DEF peek, Step
<1>24. CASE PeekTop(w)
  BY <1>24 DEF PeekTop
<1>25. CASE Withdraw(w)
  BY <1>25 DEF Withdraw, Step, Withdrawn
<1>. QED
  BY <1>1, <1>2, <1>3, <1>4, <1>5, <1>6, <1>7, <1>8, <1>9, <1>10, <1>11, <1>12,
     <1>13, <1>14, <1>15, <1>16, <1>17, <1>18, <1>19, <1>20, <1>21, <1>22, <1>23,
     <1>24, <1>25 DEF WorkerNext

LEMMA OverflowStep ==
  ASSUME NEW w \in Worker, \A v \in Worker \ {w} : Alone(w, v), ControlMove(w), OverflowInv
  PROVE  OverflowInv'
<1>1. CASE pc'[w] \notin Peeking \cup {"offer"}
  BY <1>1 DEF OverflowInv
<1>2. CASE pc'[w] \in Peeking \cup {"offer"} /\ overflow = <<>>
  BY <1>2 DEF OverflowInv, ControlMove
<1>3. CASE pc'[w] \in Peeking \cup {"offer"} /\ pc[w] \in Peeking \cup {"offer"} /\ overflow # <<>>
  <2>1. overflow' = overflow
    BY <1>3 DEF ControlMove
  <2>2. PICK u \in Worker : pc[u] \notin Peeking \cup {"offer"}
    BY <1>3 DEF OverflowInv
  <2>3. u # w /\ pc'[u] = pc[u]
    BY <1>3, <2>2 DEF Alone
  <2>. QED  BY <2>2, <2>3 DEF OverflowInv
<1>. QED  BY <1>1, <1>2, <1>3 DEF ControlMove

Busy == Pushing \cup {"scan", "overflow", "reattach"}

\* Nobody finds anything to do after the end.
Rests(w) ==
  /\ Length(w)' = 0 /\ pc'[w] \notin Busy
  /\ overflow' = overflow /\ scanned' = scanned /\ created' = created

LEMMA RestStep ==
  ASSUME NEW w \in Worker, Types, EndsInv(w), ThiefInv(w), QueueKept(w),
         \A v \in Worker : Length(v) = 0, pc[w] \notin Busy, overflow = <<>>, WorkerNext(w)
  PROVE  Rests(w)
<1>. USE DEF Rests, Busy, Pushing, QueueKept, Kept1, Types, ControlType, workVars
<1>1. CASE Discover(w)
  BY <1>1 DEF Discover, Step
<1>2. CASE Scanned(w)
  BY <1>2 DEF Scanned, Step
<1>3. CASE push(w)
  BY <1>3 DEF push
<1>4. CASE PushElem(w)
  BY <1>4 DEF PushElem, Step
<1>5. CASE PushBottom(w)
  BY <1>5 DEF PushBottom, Pushed
<1>6. CASE push_on_overflow_list(w)
  BY <1>6 DEF push_on_overflow_list, Step
<1>7. CASE trim_queues(w)
  BY <1>7 DEF trim_queues
<1>8. CASE pop_local(w)
  BY <1>8 DEF pop_local
<1>9. CASE DecrementBottom(w)
  BY <1>9 DEF DecrementBottom, Step
<1>10. CASE ReadTop(w)
  <2>1. pc[w] = "readTop"
    BY <1>10 DEF ReadTop
  <2>2. ~Uncontested(w)
    <3>1. Uncontested(w) => Length(w) > 1
      BY <2>1, PopEnds
    <3>. QED  BY SMT, <3>1
  <2>3. /\ pc'[w] = "getAge" /\ age' = age /\ bottom' = bottom
        /\ overflow' = overflow /\ scanned' = scanned /\ created' = created
    BY <1>10, <2>2 DEF ReadTop, queueVars
  <2>4. Length(w)' = Length(w)
    BY <2>1, <2>3 DEF Length, EndOf, Popping
  <2>. QED  BY <2>3, <2>4
<1>11. CASE GetAge(w)
  BY <1>11 DEF GetAge, Step
<1>12. CASE pop_local_slow(w)
  <2>1. pc[w] = "cas" /\ bottom' = bottom /\ overflow' = overflow /\ scanned' = scanned /\ created' = created
    BY <1>12 DEF pop_local_slow
  <2>2. ~(bottom[w] = loc[w].oldAge.top /\ age[w] = loc[w].oldAge)
    <3>1. EndOf(w) = increment_index(bottom[w]) /\ bottom[w] \in Index /\ EndOf(w) = age[w].top
      BY <2>1, EndFacts DEF EndOf, Popping
    <3>. QED  BY <3>1, IndexFacts
  <2>3. CASE pc'[w] = "setAge" /\ age' = age
    <3>1. Length(w)' = Length(w)
      BY <2>1, <2>3 DEF Length, EndOf, Popping
    <3>. QED  BY <2>1, <2>3, <3>1
  <2>4. CASE pc'[w] = "trim" /\ set_age(w) /\ bottom[w] # loc[w].oldAge.top
    <3>1. Length(w)' = 0
      BY <2>1, <2>4, EmptyEnds
    <3>. QED  BY <2>1, <2>4, <3>1
  <2>. QED  BY <1>12, <2>2, <2>3, <2>4 DEF pop_local_slow
<1>13. CASE SetAge(w)
  <2>1. /\ pc[w] = "setAge" /\ pc'[w] = "trim" /\ set_age(w) /\ bottom' = bottom
        /\ overflow' = overflow /\ scanned' = scanned /\ created' = created
    BY <1>13 DEF SetAge, Step
  <2>2. Length(w)' = 0
    BY <2>1, EmptyEnds
  <2>. QED  BY <2>1, <2>2
<1>14. CASE pop_global(w)
  BY <1>14 DEF pop_global, Step
<1>15. CASE GiveUp(w)
  BY <1>15 DEF GiveUp, Step
<1>16. CASE StealBottom(w)
  BY <1>16 DEF StealBottom, NextTry
<1>17. CASE StealElem(w)
  BY <1>17 DEF StealElem, Step
<1>18. CASE StealCas(w)
  <2>1. pc[w] = "stealCas" /\ loc[w].k \in Worker
    BY <1>18, LocalsAre DEF StealCas
  <2>2. loc[w].oldAge # age[loc[w].k]
    <3>1. loc[w].oldAge = age[loc[w].k] => Length(loc[w].k) > 0
      BY <2>1 DEF ThiefInv
    <3>2. Length(loc[w].k) = 0
      BY <2>1
    <3>. QED  BY SMT, <3>1, <3>2
  <2>3. NextTry(w)
    BY <1>18, <2>2 DEF StealCas, Unchanged
  <2>. QED  BY <1>18, <2>1, <2>3 DEF StealCas, NextTry
<1>19. CASE take_from_overflow_list(w)
  BY <1>19 DEF take_from_overflow_list
<1>20. CASE Reattach(w)
  BY <1>20 DEF Reattach, Step
<1>21. CASE offer_termination(w)
  BY <1>21 DEF offer_termination, Step
<1>22. CASE TestOffered(w)
  BY <1>22 DEF TestOffered
<1>23. CASE peek(w)
  BY <1>23 DEF peek, Step
<1>24. CASE PeekTop(w)
  BY <1>24 DEF PeekTop
<1>25. CASE Withdraw(w)
  BY <1>25 DEF Withdraw, Step
<1>. QED
  BY <1>1, <1>2, <1>3, <1>4, <1>5, <1>6, <1>7, <1>8, <1>9, <1>10, <1>11, <1>12,
     <1>13, <1>14, <1>15, <1>16, <1>17, <1>18, <1>19, <1>20, <1>21, <1>22, <1>23,
     <1>24, <1>25 DEF WorkerNext

LEMMA EndedStep ==
  ASSUME Types, NEW w \in Worker, WorkerNext(w), EndsInv(w), ThiefInv(w), QueueKept(w),
         \A v \in Worker \ {w} : Alone(w, v), Ended
  PROVE  Ended'
<1>1. Rests(w)
  BY RestStep DEF Ended, Busy
<1>2. ASSUME NEW v \in Worker \ {w} PROVE Length(v)' = 0 /\ pc'[v] \notin Busy
  <2>1. Length(v) = 0 /\ pc[v] \notin Busy /\ pc'[v] = pc[v]
    BY DEF Ended, Busy, Alone
  <2>2. ~Steals(w, v)
    <3>1. Steals(w, v) => Length(v) > 0
      BY StealEnds
    <3>. QED  BY SMT, <2>1, <3>1
  <2>3. age'[v] = age[v]
    BY <2>2 DEF Alone
  <2>4. Length(v)' = Length(v)
    BY <2>3, AloneLength
  <2>. QED  BY <2>1, <2>4
<1>. QED  BY <1>1, <1>2 DEF Ended, Rests, Busy

\* Who sees all offers sees the end.
LEMMA AllOfferedEnds ==
  ASSUME Types, \A w \in Worker : EndsInv(w) /\ HandInv(w) /\ pc[w] \in Peeking,
         Partition(At), OverflowInv
  PROVE  Ended /\ \A w \in Worker : InHand(w) = {} /\ Contents(w) = {}
<1>1. overflow = <<>>
  BY DEF OverflowInv
<1>2. \A w \in Worker : Length(w) = 0
  BY DEF EndsInv, Idle
<1>3. \A w \in Worker : pc[w] \notin Pushing \cup {"scan", "overflow", "reattach"}
  BY DEF Peeking, Pushing
<1>4. \A w \in Worker : InHand(w) = {}
  BY <1>3, EmptyFacts DEF HandInv, InHand
<1>5. \A w \in Worker : Contents(w) = {}
  <2>. TAKE w \in Worker
  <2>1. EndOf(w) = age[w].top /\ age[w].top \in Index
    BY <1>2, EndFacts
  <2>2. Ring(age[w].top, age[w].top) = {}
    BY <2>1, RingFacts
  <2>3. bottom[w] \in Index /\ age[w] \in Age
    BY DEF Types, QueueType
  <2>4. Contents(w) = {elems[w][i] : i \in Slots(w)}
    BY <2>3, ContentsAre
  <2>. QED  BY <2>1, <2>2, <2>4 DEF Slots
<1>6. scanned = 1 .. created
  <2>1. \A p \in Place : At[p] = Tasks(p)
    BY DEF At
  <2>2. Tasks(Unknown) \cap Tasks(Done) = {}
    BY <2>1, Places, Different DEF Partition
  <2>3. ASSUME NEW x \in Task PROVE x \in Tasks(Unknown) \/ x \in Tasks(Done)
    <3>1. PICK p \in Place : x \in Tasks(p)
      BY <2>1 DEF Partition
    <3>2. p # Overflow /\ \A v \in Worker : p # Queue(v) /\ p # Hand(v)
      BY <1>1, <1>4, <1>5, <3>1, TasksAre, EmptyFacts
    <3>. QED  BY <3>1, <3>2, Places
  <2>4. scanned \subseteq Task /\ 1 .. created \subseteq Task
    <3>1. scanned \subseteq Task /\ created \in 0 .. MaxTasks
      BY DEF Types, WorkType
    <3>2. 1 .. created \subseteq Task
      BY SMT, <3>1, TaskQueueAssumption DEF Task
    <3>. QED  BY <3>1, <3>2
  <2>. QED  BY <2>2, <2>3, <2>4, TasksAre
<1>. QED  BY <1>1, <1>2, <1>3, <1>4, <1>5, <1>6 DEF Ended

----------------------------------------------------------------------------
(* Counting workers and tasks.                                             *)

\* What the proofs use of cardinalities.  The facts on finite sets that it follows
\* from are heavy on the provers, and so it is derived last.
Counting ==
  /\ Cardinality({}) = 0 /\ Cardinality(Worker) = NWorkers
  /\ \A S \in SUBSET Worker :
       /\ Cardinality(S) \in 0 .. NWorkers /\ (Cardinality(S) = NWorkers => S = Worker)
       /\ \A w \in Worker \ S : Cardinality(S \cup {w}) = Cardinality(S) + 1
       /\ \A w \in S : Cardinality(S \ {w}) = Cardinality(S) - 1
  /\ \A S, T \in SUBSET Task : S \subseteq T =>
       /\ Cardinality(S) \in Nat /\ Cardinality(T) \in Nat
       /\ Cardinality(S) <= Cardinality(T) /\ Cardinality(T) <= MaxTasks
       /\ S # T => Cardinality(S) # Cardinality(T)

LEMMA CountFacts ==
  ASSUME Counting, NEW S \in SUBSET Worker
  PROVE  /\ Cardinality(S) \in 0 .. NWorkers /\ (Cardinality(S) = NWorkers => S = Worker)
         /\ \A w \in Worker \ S : Cardinality(S \cup {w}) = Cardinality(S) + 1
         /\ \A w \in S : Cardinality(S \ {w}) = Cardinality(S) - 1
  BY DEF Counting

LEMMA OneDiffers ==
  ASSUME NEW S \in SUBSET Worker, NEW T \in SUBSET Worker, NEW w \in Worker,
         \A v \in Worker \ {w} : v \in S <=> v \in T
  PROVE  /\ w \in T => T = S \cup {w}
         /\ w \notin T => T = S \ {w}
         /\ (w \in S <=> w \in T) => T = S
  BY SMT

\* The offers are counted, and so are the steals.
LEMMA OfferCount ==
  ASSUME Counting, NEW w \in Worker, \A v \in Worker \ {w} : pc'[v] = pc[v], ControlMove(w),
         offered = Cardinality(Offerers)
  PROVE  offered' = Cardinality(Offerers') /\ offered' \in 0 .. NWorkers
<1>1. Offerers \in SUBSET Worker /\ Offerers' \in SUBSET Worker
      /\ (w \in Offerers <=> pc[w] \in Peeking) /\ (w \in Offerers' <=> pc'[w] \in Peeking)
  BY DEF Offerers
<1>2. /\ w \in Offerers' => Offerers' = Offerers \cup {w}
      /\ w \notin Offerers' => Offerers' = Offerers \ {w}
      /\ (w \in Offerers <=> w \in Offerers') => Offerers' = Offerers
  <2>1. \A v \in Worker \ {w} : v \in Offerers <=> v \in Offerers'
    BY DEF Offerers
  <2>. QED  BY <1>1, <2>1, OneDiffers
<1>3. offered' = Cardinality(Offerers')
  <2>1. CASE pc[w] \notin Peeking /\ pc'[w] \in Peeking /\ offered' = offered + 1
    BY <1>1, <1>2, <2>1, CountFacts
  <2>2. CASE pc[w] \in Peeking /\ pc'[w] \notin Peeking /\ offered' = offered - 1
    BY <1>1, <1>2, <2>2, CountFacts
  <2>3. CASE (pc[w] \in Peeking <=> pc'[w] \in Peeking) /\ offered' = offered
    BY <1>1, <1>2, <2>3
  <2>. QED  BY <2>1, <2>2, <2>3 DEF ControlMove
<1>. QED  BY <1>1, <1>3, CountFacts

LEMMA StealCount ==
  ASSUME Counting, NEW w \in Worker, \A v \in Worker \ {w} : pc'[v] = pc[v], ControlMove(w),
         steals \in Nat, steals + Cardinality(Thieves) <= MaxSteals + NWorkers
  PROVE  /\ steals' \in 0 .. MaxSteals + NWorkers
         /\ steals' + Cardinality(Thieves') <= MaxSteals + NWorkers
<1>1. Thieves \in SUBSET Worker /\ Thieves' \in SUBSET Worker /\ (w \in Thieves <=> pc[w] \in Stealing)
      /\ (w \in Thieves' <=> pc'[w] \in Stealing)
  BY DEF Thieves
<1>2. /\ w \in Thieves' => Thieves' = Thieves \cup {w}
      /\ w \notin Thieves' => Thieves' = Thieves \ {w}
      /\ (w \in Thieves <=> w \in Thieves') => Thieves' = Thieves
  <2>1. \A v \in Worker \ {w} : v \in Thieves <=> v \in Thieves'
    BY DEF Thieves
  <2>. QED  BY <1>1, <2>1, OneDiffers
<1>3. /\ Cardinality(Thieves) \in 0 .. NWorkers /\ Cardinality(Thieves') \in 0 .. NWorkers
      /\ w \in Thieves => Cardinality(Thieves \ {w}) = Cardinality(Thieves) - 1
  BY <1>1, CountFacts
<1>4. CASE steals < MaxSteals /\ steals' = steals
  BY SMT, <1>3, <1>4, TaskQueueAssumption
<1>5. CASE pc[w] \in Stealing /\ pc'[w] \notin Stealing /\ steals' \in {steals, steals + 1}
  <2>1. Thieves' = Thieves \ {w}
    BY <1>2, <1>1, <1>5
  <2>2. Cardinality(Thieves') = Cardinality(Thieves) - 1
    BY <1>1, <1>3, <1>5, <2>1
  <2>. QED  BY SMT, <1>3, <1>5, <2>2, TaskQueueAssumption
<1>6. CASE (pc[w] \in Stealing <=> pc'[w] \in Stealing) /\ steals' = steals
  <2>1. Thieves' = Thieves
    BY <1>2, <1>1, <1>6
  <2>. QED  BY SMT, <1>3, <1>6, <2>1, TaskQueueAssumption
<1>. QED  BY <1>4, <1>5, <1>6 DEF ControlMove

\* The test of all offers fails for whoever comes too early.
LEMMA SeesEnd ==
  ASSUME Counting, Types, CountInv, offered = NWorkers, \A w \in Worker : EndsInv(w) /\ HandInv(w),
         Partition(At), OverflowInv
  PROVE  Ended /\ \A w \in Worker : InHand(w) = {} /\ Contents(w) = {}
<1>1. offered = Cardinality(Offerers)
  <2>1. NWorkers # 0
    BY TaskQueueAssumption
  <2>. QED  BY <2>1 DEF CountInv
<1>2. Offerers = Worker
  <2>1. Offerers \in SUBSET Worker
    BY DEF Offerers
  <2>. QED  BY <1>1, <2>1, CountFacts
<1>3. \A w \in Worker : pc[w] \in Peeking
  BY <1>2 DEF Offerers
<1>. QED  BY <1>3, AllOfferedEnds

LEMMA EndStep ==
  ASSUME Counting, Types, NEW w \in Worker, WorkerNext(w), ControlMove(w), CountInv,
         \A v \in Worker : EndsInv(v) /\ HandInv(v) /\ ThiefInv(v), QueueKept(w),
         \A v \in Worker \ {w} : Alone(w, v), Partition(At), OverflowInv, EndInv
  PROVE  EndInv'
<1>1. SUFFICES ASSUME NEW v \in Worker, pc'[v] = "done" PROVE Ended'
  BY DEF EndInv
<1>2. Ended
  <2>1. CASE v # w
    BY <1>1, <2>1 DEF Alone, EndInv
  <2>2. CASE v = w
    BY <1>1, <2>2, SeesEnd DEF ControlMove
  <2>. QED  BY <2>1, <2>2
<1>. QED  BY <1>2, EndedStep

----------------------------------------------------------------------------
(* The invariant.                                                          *)

LEMMA InvFacts ==
  ASSUME Inv
  PROVE  /\ Types /\ offered \in 0 .. NWorkers /\ steals \in Nat
         /\ \A v \in Worker : EndsInv(v) /\ HandInv(v) /\ ThiefInv(v)
         /\ \A v \in Worker : Once(v) /\ Distinct(prefix[v])
         /\ \A v \in Worker : hold[v] # NoTask => hold[v] # found[v]
         /\ Distinct(overflow) /\ Partition(At) /\ OverflowInv /\ EndInv /\ CountInv
<1>1. Types /\ offered \in 0 .. NWorkers /\ steals \in 0 .. MaxSteals + NWorkers
  BY TypesAre DEF Inv
<1>2. steals \in Nat
  BY SMT, <1>1, TaskQueueAssumption
<1>. QED  BY <1>1, <1>2 DEF Inv, ListInv, Once, Distinct

\* What a step of a worker is.
LEMMA StepFacts ==
  ASSUME Inv, NEW w \in Worker, WorkerNext(w)
  PROVE  /\ Types' /\ QueueKept(w) /\ ControlMove(w) /\ (\A v \in Worker \ {w} : Alone(w, v))
         /\ Moves(w) /\ \A v \in Worker : Once(v)'
<1>1. Types /\ EndsInv(w) /\ HandInv(w) /\ ThiefInv(w)
  BY InvFacts
<1>2. Types'
  <2>1. QueueType' /\ WorkType' /\ loc' \in [Worker -> Locals]
    BY <1>1, QueueTypeStep, WorkTypeStep, LocStep
  <2>2. pc' \in [Worker -> Label]
    BY <1>1, PcStep DEF Types, ControlType
  <2>. QED  BY <2>1, <2>2 DEF Types, ControlType
<1>3. QueueKept(w) /\ ControlMove(w)
  BY <1>1, QueueKeptStep, ControlStep
<1>4. \A v \in Worker \ {w} : Alone(w, v)
  BY <1>1, AloneStep
<1>5. Moves(w) /\ \A v \in Worker : Once(v)'
  <2>1. /\ \A v \in Worker : Once(v)
        /\ Distinct(prefix[w]) /\ (hold[w] # NoTask => hold[w] # found[w]) /\ Partition(At)
    BY InvFacts
  <2>. QED  BY <1>1, <1>2, <1>3, <1>4, <2>1, MoveStep
<1>. QED  BY <1>2, <1>3, <1>4, <1>5

LEMMA MovesKeep ==
  ASSUME NEW w \in Worker, Moves(w), Partition(At)
  PROVE  Partition(At)'
<1>1. /\ Unknown \in Place /\ Overflow \in Place /\ Done \in Place
      /\ \A v \in Worker : Queue(v) \in Place /\ Hand(v) \in Place
  BY Places
<1>2. \A p, q \in Place : \A S : Moved(S, p, q) => Partition(At)'
  BY MoveKeeps
<1>3. CASE At' = At
  BY <1>3 DEF Partition
<1>. HIDE DEF Partition
<1>. QED  BY <1>1, <1>2, <1>3 DEF Moves

LEMMA WorkerStep ==
  ASSUME Counting, Inv, NEW w \in Worker, WorkerNext(w), TagsFresh
  PROVE  Inv'
<1>1. /\ Types' /\ QueueKept(w) /\ ControlMove(w) /\ (\A v \in Worker \ {w} : Alone(w, v))
      /\ Moves(w) /\ \A v \in Worker : Once(v)'
  BY StepFacts
<1>2. /\ Types /\ offered \in 0 .. NWorkers /\ steals \in Nat
      /\ \A v \in Worker : EndsInv(v) /\ HandInv(v) /\ ThiefInv(v)
  BY InvFacts
<1>3. /\ Distinct(overflow) /\ Partition(At) /\ OverflowInv /\ EndInv /\ CountInv
      /\ Distinct(prefix[w]) /\ (hold[w] # NoTask => hold[w] # found[w])
  BY InvFacts
<1>4. \A v \in Worker : EndsInv(v)' /\ HandInv(v)'
  <2>1. pc[w] = "stealCas" /\ loc[w].oldAge = age[loc[w].k] => loc[w].t \in Task
    <3>1. SUFFICES ASSUME pc[w] = "stealCas", loc[w].oldAge = age[loc[w].k]
                   PROVE  loc[w].t \in Task
      OBVIOUS
    <3>2. loc[w].k \in Worker \ {w}
      BY <1>2, <3>1, LocalsAre DEF Types, ControlType, ThiefInv, Stealing
    <3>3. PICK k \in Worker \ {w} : k = loc[w].k
      BY <3>2
    <3>4. Length(k) > 0 /\ loc[w].t = elems[k][age[k].top]
      BY <1>2, <3>1, <3>3 DEF ThiefInv
    <3>5. EndOf(k) # age[k].top /\ EndOf(k) \in Index /\ age[k].top \in Index
      <4>1. Length(k) # 0
        BY SMT, <3>4
      <4>. QED  BY <1>2, <4>1, EndFacts
    <3>6. age[k].top \in Slots(k)
      BY <3>5, RingFacts DEF Slots
    <3>7. Contents(k) = {elems[k][i] : i \in Slots(k)}
      <4>1. bottom[k] \in Index /\ age[k] \in Age
        BY <1>2 DEF Types, QueueType
      <4>. QED  BY <4>1, ContentsAre
    <3>8. Contents(k) \subseteq Task
      BY <1>3, Apart
    <3>. QED  BY <3>4, <3>6, <3>7, <3>8
  <2>2. EndsInv(w)' /\ HandInv(w)'
    BY <1>1, <1>2, <2>1, EndsStep, HandStep
  <2>3. \A v \in Worker \ {w} : EndsInv(v)' /\ HandInv(v)'
    BY <1>1, <1>2, OthersKept
  <2>. QED  BY <2>2, <2>3
<1>5. \A v \in Worker : ThiefInv(v)'
  <2>1. ThiefInv(w)'
    BY <1>2, ThiefStep
  <2>2. \A v \in Worker \ {w} : ThiefInv(v)'
    BY <1>1, <1>2, ThievesKept
  <2>. QED  BY <2>1, <2>2
<1>6. ListInv'
  <2>1. ListsKept(w)
    BY <1>2, <1>3, ListStep
  <2>2. \A v \in Worker \ {w} : Distinct(prefix'[v]) /\ (hold'[v] # NoTask => hold'[v] # found'[v])
    BY <1>1, InvFacts DEF Alone
  <2>. QED  BY <1>1, <2>1, <2>2 DEF ListInv, ListsKept, Once, Distinct
<1>7. Partition(At)' /\ OverflowInv' /\ EndInv'
  BY <1>1, <1>2, <1>3, MovesKeep, OverflowStep, EndStep
<1>8. CountInv' /\ offered' \in 0 .. NWorkers /\ steals' \in 0 .. MaxSteals + NWorkers
  <2>1. \A v \in Worker \ {w} : pc'[v] = pc[v]
    BY <1>1 DEF Alone
  <2>2. offered = Cardinality(Offerers)
    BY <1>1, <1>3 DEF CountInv, AllDone, ControlMove
  <2>3. offered' = Cardinality(Offerers') /\ offered' \in 0 .. NWorkers
    BY <1>1, <2>1, <2>2, OfferCount
  <2>4. steals + Cardinality(Thieves) <= MaxSteals + NWorkers
    BY <1>3 DEF CountInv
  <2>5. /\ steals' \in 0 .. MaxSteals + NWorkers
        /\ steals' + Cardinality(Thieves') <= MaxSteals + NWorkers
    BY <1>1, <1>2, <2>1, <2>4, StealCount
  <2>. QED  BY <2>3, <2>5 DEF CountInv
<1>9. TypeOK'
  BY <1>1, <1>8 DEF TypeOK, Types, QueueType, ControlType, WorkType, Label, Index
<1>. QED  BY <1>4, <1>5, <1>6, <1>7, <1>8, <1>9 DEF Inv

\* Steps that leave the queues, the lists and the workers alone.
LEMMA QuietStep ==
  ASSUME Inv, UNCHANGED <<queueVars, overflow, pc, loc, workVars, steals>>,
         offered' = offered \/ (AllDone /\ offered' = 0)
  PROVE  Inv' /\ At' = At
<1>1. /\ elems' = elems /\ bottom' = bottom /\ age' = age /\ overflow' = overflow /\ pc' = pc
      /\ loc' = loc /\ hold' = hold /\ found' = found /\ prefix' = prefix
      /\ created' = created /\ scanned' = scanned /\ steals' = steals
  BY DEF queueVars, workVars
<1>2. \A v \in Worker : EndOf(v)' = EndOf(v) /\ Length(v)' = Length(v) /\ Slots(v)' = Slots(v)
  BY <1>1 DEF EndOf, Length, Slots, Popping
<1>3. \A v \in Worker : EndsInv(v)' /\ HandInv(v)' /\ ThiefInv(v)'
  <2>. TAKE v \in Worker
  <2>1. EndsInv(v) /\ HandInv(v) /\ ThiefInv(v) /\ Types
    BY InvFacts
  <2>2. EndsInv(v)'
    BY <1>1, <1>2, <2>1 DEF EndsInv, ToPush
  <2>3. HandInv(v)'
    BY <1>1, <1>2, <2>1 DEF HandInv
  <2>4. loc[v].k \in Worker
    BY <2>1, LocalsAre DEF Types, ControlType
  <2>5. Length(loc[v].k)' = Length(loc[v].k)
    BY <1>1, <2>4 DEF EndOf, Length, Popping
  <2>6. ThiefInv(v)'
    BY <1>1, <2>1, <2>5 DEF ThiefInv
  <2>. QED  BY <2>2, <2>3, <2>6
<1>4. ListInv'
  BY <1>1, <1>2 DEF Inv, ListInv
<1>5. At' = At
  <2>1. \A v \in Worker : InHand(v)' = InHand(v) /\ Contents(v)' = Contents(v)
    BY <1>1 DEF InHand, Contents, Popping
  <2>. QED  BY <1>1, <2>1, NoMove
<1>6. Partition(At)'
  BY <1>5 DEF Inv, Partition
<1>7. OverflowInv' /\ EndInv'
  BY <1>1, <1>2 DEF Inv, OverflowInv, EndInv, Ended
<1>8. CountInv' /\ offered' \in 0 .. NWorkers
  <2>1. CountInv /\ offered \in 0 .. NWorkers
    BY InvFacts
  <2>2. Offerers' = Offerers /\ Thieves' = Thieves /\ (AllDone' <=> AllDone)
    BY <1>1 DEF Offerers, Thieves, AllDone
  <2>3. 0 \in 0 .. NWorkers
    BY SMT, TaskQueueAssumption
  <2>. QED  BY <1>1, <2>1, <2>2, <2>3 DEF CountInv
<1>9. TypeOK'
  BY <1>1, <1>8 DEF Inv, TypeOK
<1>. QED  BY <1>3, <1>4, <1>5, <1>6, <1>7, <1>8, <1>9 DEF Inv

LEMMA NextInv ==
  ASSUME Counting, Inv, [Next]_vars, [TagsFresh]_vars
  PROVE  Inv'
<1>1. CASE UNCHANGED vars
  <2>1. UNCHANGED <<queueVars, overflow, pc, loc, workVars, steals>> /\ offered' = offered
    BY <1>1 DEF vars
  <2>. QED  BY <2>1, QuietStep
<1>2. CASE reset_for_reuse
  BY <1>2, QuietStep DEF reset_for_reuse
<1>3. ASSUME NEW w \in Worker, WorkerNext(w), TagsFresh PROVE Inv'
  BY <1>3, WorkerStep
<1>. QED  BY <1>1, <1>2, <1>3 DEF Next

LEMMA InitInv ==
  ASSUME Counting PROVE Init => Inv
<1>. SUFFICES ASSUME Init PROVE Inv
  OBVIOUS
<1>0. NoTask \notin Task /\ 0 \in Index /\ Worker # {} /\ 1 .. 0 = {}
  <2>1. NoTask \notin Task /\ 1 .. 0 = {}
    BY SMT DEF Task, NoTask
  <2>2. 0 \in Index /\ 0 \in Worker
    BY SMT, TaskQueueAssumption DEF Index, Worker
  <2>. QED  BY <2>1, <2>2
<1>1. bottom \in [Worker -> Index]
  BY TaskQueueAssumption DEF Init, Index
<1>2. age \in [Worker -> Age] /\ \A w \in Worker : age[w].top = bottom[w]
  <2>1. \A w \in Worker : age[w] = [top |-> bottom[w], tag |-> 0] /\ bottom[w] \in Index
    BY <1>1 DEF Init
  <2>2. \A b \in Index : [top |-> b, tag |-> 0] \in Age /\ [top |-> b, tag |-> 0].top = b
    BY SMT, TaskQueueAssumption DEF Age, Index
  <2>3. \A w \in Worker : age[w] \in Age /\ age[w].top = bottom[w]
    BY <2>1, <2>2
  <2>4. age = [w \in Worker |-> age[w]]
    BY DEF Init
  <2>. QED  BY <2>3, <2>4
<1>3. Types
  <2>1. QueueType
    BY <1>1, <1>2 DEF Init, QueueType, Index
  <2>2. ControlType
    BY NoLocalsAre DEF Init, ControlType, Label
  <2>3. WorkType
    <3>1. 0 \in 0 .. MaxTasks
      BY SMT, TaskQueueAssumption
    <3>. QED  BY <3>1, EmptyFacts DEF Init, WorkType
  <2>. QED  BY <2>1, <2>2, <2>3 DEF Types
<1>4. \A w \in Worker : EndOf(w) = age[w].top /\ Length(w) = 0
  <2>. TAKE w \in Worker
  <2>1. pc[w] = "scan"
    BY DEF Init
  <2>2. EndOf(w) = age[w].top
    BY <1>2, <2>1 DEF EndOf, Popping
  <2>. QED  BY <1>3, <2>2, EndFacts
<1>5. \A w \in Worker : /\ pc[w] = "scan" /\ found[w] = NoTask /\ hold[w] = NoTask /\ prefix[w] = <<>>
                        /\ Slots(w) = {}
  <2>. TAKE w \in Worker
  <2>1. Ring(age[w].top, age[w].top) = {}
    BY <1>3, EndFacts, RingFacts
  <2>. QED  BY <1>4, <2>1 DEF Init, Slots
<1>6. \A w \in Worker : EndsInv(w) /\ HandInv(w) /\ ThiefInv(w)
  <2>. TAKE w \in Worker
  <2>1. 0 < N - 1
    BY SMT, TaskQueueAssumption
  <2>2. EndsInv(w)
    BY <1>4, <1>5, <2>1 DEF EndsInv, Idle, Peeking, Stealing
  <2>. QED  BY <1>5, <2>2 DEF HandInv, ThiefInv, Pushing, Stealing
<1>7. overflow = <<>> /\ scanned = {} /\ created = 0 /\ offered = 0 /\ steals = 0
  BY DEF Init
<1>8. ListInv
  BY <1>5, <1>7, EmptyFacts DEF ListInv, Distinct
<1>9. Partition(At)
  <2>1. \A w \in Worker : Contents(w) = {} /\ InHand(w) = {}
    <3>. TAKE w \in Worker
    <3>1. Contents(w) = {elems[w][i] : i \in Slots(w)}
      BY <1>1, <1>2, ContentsAre
    <3>. QED  BY <1>5, <3>1, EmptyFacts DEF InHand
  <2>2. Tasks(Unknown) = Task
    BY <1>0, <1>7, TasksAre
  <2>3. \A p \in Place : p # Unknown => Tasks(p) = {}
    <3>. TAKE p \in Place
    <3>1. CASE p = Overflow \/ p = Done
      BY <1>7, <3>1, TasksAre, EmptyFacts
    <3>2. ASSUME NEW v \in Worker, p = Queue(v) \/ p = Hand(v) PROVE Tasks(p) = {}
      BY <2>1, <3>2, TasksAre
    <3>. QED  BY <3>1, <3>2, Places
  <2>4. \A p \in Place : At[p] = Tasks(p)
    BY DEF At
  <2>5. \A p, q \in Place : p # q => At[p] \cap At[q] = {}
    BY <2>3, <2>4
  <2>6. UNION {At[p] : p \in Place} = Task
    <3>1. \A p \in Place : At[p] \subseteq Task
      BY <2>2, <2>3, <2>4
    <3>2. \A x \in Task : x \in At[Unknown] /\ Unknown \in Place
      BY <2>2, <2>4, Places
    <3>. QED  BY <3>1, <3>2
  <2>. QED  BY <2>5, <2>6 DEF Partition
<1>10. OverflowInv /\ EndInv
  BY <1>5, <1>7 DEF OverflowInv, EndInv
<1>11. CountInv
  <2>1. Offerers = {} /\ Thieves = {}
    BY <1>5 DEF Offerers, Thieves, Peeking, Stealing
  <2>2. Cardinality({}) = 0
    BY DEF Counting
  <2>3. 0 + 0 <= MaxSteals + NWorkers
    BY SMT, TaskQueueAssumption
  <2>. QED  BY <1>7, <2>1, <2>2, <2>3 DEF CountInv
<1>12. TypeOK
  <2>1. 0 \in 0 .. NWorkers /\ 0 \in 0 .. MaxSteals + NWorkers
    BY SMT, TaskQueueAssumption
  <2>. QED  BY <1>3, <1>7, <2>1, TypesAre
<1>. QED  BY <1>6, <1>8, <1>9, <1>10, <1>11, <1>12 DEF Inv

LEMMA InvImplies ==
  ASSUME Counting, Inv
  PROVE  NoEarlyTermination /\ Assertions
<1>1. NoEarlyTermination
  BY DEF Inv, EndInv, Ended, NoEarlyTermination
<1>2. ASSUME NEW w \in Worker
      PROVE  /\ dirty_size(bottom[w], age[w].top) = N - 1 => Popping(w)
             /\ Popping(w) \/ (pc[w] = "push" /\ found[w] = NoTask) =>
                  HasRoom(bottom[w], age[w].top)
  <2>1. Types /\ EndsInv(w) /\ HandInv(w)
    BY InvFacts
  <2>2. ~Popping(w) => Length(w) = dirty_size(bottom[w], age[w].top)
    BY DEF Length, EndOf
  <2>3. Length(w) \in Index /\ Length(w) < N - 1
    BY <2>1, EndFacts DEF EndsInv
  <2>4. dirty_size(bottom[w], age[w].top) = N - 1 => Popping(w)
    BY SMT, <2>2, <2>3, TaskQueueAssumption DEF Index
  <2>5. ASSUME pc[w] = "push", found[w] = NoTask PROVE HasRoom(bottom[w], age[w].top)
    <3>1. Length(w) = dirty_size(bottom[w], age[w].top)
      BY <2>2, <2>5 DEF Popping
    <3>2. prefix[w] \in Seq(Task)
      BY <2>1 DEF Types, WorkType
    <3>3. Length(w) = 0 \/ Length(w) + Len(prefix[w]) <= Kept
      BY <2>1, <2>5 DEF HandInv, Pushing
    <3>. QED  BY SMT, <2>3, <3>1, <3>2, <3>3, KeptFacts, TaskQueueAssumption
              DEF HasRoom, max_elems, Index
  <2>6. ASSUME Popping(w) PROVE HasRoom(bottom[w], age[w].top)
    <3>. DEFINE n == dirty_size(bottom[w], age[w].top)
    <3>1. bottom[w] \in Index /\ age[w].top \in Index
      BY <2>1, EndFacts
    <3>2. Length(w) = dirty_size(increment_index(bottom[w]), age[w].top)
      BY <2>6 DEF Length, EndOf
    <3>3. n \in Index /\ (n # N - 1 => Length(w) = n + 1)
      BY <3>1, <3>2, SizeFacts
    <3>4. HasRoom(bottom[w], age[w].top) <=> n < N - 2 \/ n = N - 1
      BY DEF HasRoom, max_elems
    <3>. HIDE DEF n
    <3>. QED  BY SMT, <2>3, <3>3, <3>4, TaskQueueAssumption DEF Index
  <2>. QED  BY <2>4, <2>5, <2>6
<1>3. AllDone => offered \in {0, NWorkers}
  <2>1. SUFFICES ASSUME AllDone, offered = Cardinality(Offerers) PROVE offered = NWorkers
    BY InvFacts DEF CountInv
  <2>2. Offerers = Worker
    BY <2>1 DEF Offerers, AllDone, Peeking
  <2>. QED  BY <2>1, <2>2 DEF Counting
<1>. QED  BY <1>1, <1>2, <1>3 DEF Assertions

----------------------------------------------------------------------------
(* The refinement of WorkPool.                                             *)

PoolNow == Range(overflow) \cup UNION {Contents(v) : v \in Worker}
HandNow == [v \in Worker |-> InHand(v)]
OverNow == [v \in Worker |-> pc[v] = "done"]

LEMMA MovedIs ==
  ASSUME NEW p \in Place, NEW q \in Place, NEW S, Moved(S, p, q)
  PROVE  /\ S \subseteq Tasks(p) /\ Tasks(p)' = Tasks(p) \ S /\ Tasks(q)' = Tasks(q) \cup S
         /\ \A r \in Place \ {p, q} : Tasks(r)' = Tasks(r)
  BY AtIs DEF Moved

LEMMA PoolHas ==
  \A x : x \in PoolNow <=> (x \in Range(overflow) \/ \E v \in Worker : x \in Contents(v))
<1>. TAKE x
<1>1. PoolNow = Range(overflow) \cup UNION {Contents(v) : v \in Worker}
  BY DEF PoolNow
<1>2. ASSUME x \in PoolNow PROVE x \in Range(overflow) \/ \E v \in Worker : x \in Contents(v)
  BY <1>1, <1>2
<1>3. ASSUME NEW v \in Worker, x \in Contents(v) PROVE x \in PoolNow
  BY <1>1, <1>3
<1>4. x \in Range(overflow) => x \in PoolNow
  BY <1>1
<1>. QED  BY <1>2, <1>3, <1>4

LEMMA PoolHasThen ==
  \A x : x \in PoolNow' <=> (x \in Range(overflow') \/ \E v \in Worker : x \in Contents(v)')
<1>. TAKE x
<1>1. PoolNow' = Range(overflow') \cup UNION {Contents(v)' : v \in Worker}
  BY DEF PoolNow
<1>2. ASSUME x \in PoolNow' PROVE x \in Range(overflow') \/ \E v \in Worker : x \in Contents(v)'
  BY <1>1, <1>2
<1>3. ASSUME NEW v \in Worker, x \in Contents(v)' PROVE x \in PoolNow'
  BY <1>1, <1>3
<1>4. x \in Range(overflow') => x \in PoolNow'
  BY <1>1
<1>. QED  BY <1>2, <1>3, <1>4

LEMMA ApartIs ==
  ASSUME Partition(At)
  PROVE  \A p, q \in Place : p # q => Tasks(p) \cap Tasks(q) = {}
<1>1. \A p \in Place : At[p] = Tasks(p)
  BY DEF At
<1>. QED  BY <1>1 DEF Partition

LEMMA FindStep ==
  ASSUME NEW w \in Worker, NEW t, Moved({t}, Unknown, Hand(w)), Partition(At)
  PROVE  /\ t \in Task /\ t \notin PoolNow /\ t \notin scanned /\ \A v \in Worker : t \notin InHand(v)
         /\ PoolNow' = PoolNow /\ scanned' = scanned
         /\ HandNow' = [HandNow EXCEPT ![w] = @ \cup {t}]
<1>1. Unknown \in Place /\ Hand(w) \in Place
  BY Places
<1>2. /\ t \in Tasks(Unknown) /\ Tasks(Hand(w))' = Tasks(Hand(w)) \cup {t}
      /\ \A r \in Place \ {Unknown, Hand(w)} : Tasks(r)' = Tasks(r)
  BY <1>1, MovedIs
<1>3. \A r \in Place : r # Unknown => t \notin Tasks(r)
  BY <1>1, <1>2, ApartIs
<1>4. /\ \A v \in Worker : Contents(v)' = Contents(v) /\ t \notin Contents(v) /\ t \notin InHand(v)
      /\ \A v \in Worker \ {w} : InHand(v)' = InHand(v)
  <2>. SUFFICES ASSUME NEW v \in Worker
                PROVE  /\ Contents(v)' = Contents(v) /\ t \notin Contents(v) /\ t \notin InHand(v)
                       /\ v # w => InHand(v)' = InHand(v)
    OBVIOUS
  <2>1. Queue(v) \in Place /\ Hand(v) \in Place /\ Queue(v) # Unknown /\ Hand(v) # Unknown
        /\ Queue(v) # Hand(w) /\ (v # w => Hand(v) # Hand(w))
    BY Places, Different
  <2>. QED  BY <1>2, <1>3, <2>1, TasksAre, TasksAreThen
<1>5. Range(overflow') = Range(overflow) /\ t \notin Range(overflow) /\ scanned' = scanned /\ t \notin scanned
  <2>1. Overflow \in Place /\ Done \in Place /\ Overflow \notin {Unknown, Hand(w)} /\ Done \notin {Unknown, Hand(w)}
    BY Places, Different
  <2>. QED  BY <1>2, <1>3, <2>1, TasksAre, TasksAreThen
<1>6. InHand(w)' = InHand(w) \cup {t} /\ t \in Task
  BY <1>2, TasksAre, TasksAreThen
<1>7. PoolNow' = PoolNow /\ t \notin PoolNow
  <2>1. PoolNow' = PoolNow
    BY <1>4, <1>5 DEF PoolNow
  <2>2. t \notin PoolNow
    BY <1>4, <1>5, PoolHas
  <2>. QED  BY <2>1, <2>2
<1>8. HandNow' = [HandNow EXCEPT ![w] = @ \cup {t}]
  BY <1>4, <1>6 DEF HandNow
<1>. QED  BY <1>4, <1>5, <1>6, <1>7, <1>8

LEMMA FinishStep ==
  ASSUME NEW w \in Worker, NEW t, Moved({t}, Hand(w), Done)
  PROVE  /\ t \in InHand(w) /\ PoolNow' = PoolNow /\ scanned' = scanned \cup {t}
         /\ HandNow' = [HandNow EXCEPT ![w] = @ \ {t}]
<1>1. Hand(w) \in Place /\ Done \in Place
  BY Places
<1>2. /\ t \in Tasks(Hand(w)) /\ Tasks(Hand(w))' = Tasks(Hand(w)) \ {t}
      /\ Tasks(Done)' = Tasks(Done) \cup {t}
      /\ \A r \in Place \ {Hand(w), Done} : Tasks(r)' = Tasks(r)
  BY <1>1, MovedIs
<1>3. /\ \A v \in Worker : Contents(v)' = Contents(v)
      /\ \A v \in Worker \ {w} : InHand(v)' = InHand(v)
  <2>. SUFFICES ASSUME NEW v \in Worker
                PROVE  Contents(v)' = Contents(v) /\ (v # w => InHand(v)' = InHand(v))
    OBVIOUS
  <2>1. Queue(v) \in Place /\ Hand(v) \in Place /\ Queue(v) # Done /\ Hand(v) # Done
        /\ Queue(v) # Hand(w) /\ (v # w => Hand(v) # Hand(w))
    BY Places, Different
  <2>. QED  BY <1>2, <2>1, TasksAre, TasksAreThen
<1>4. Range(overflow') = Range(overflow)
  <2>1. Overflow \in Place /\ Overflow \notin {Hand(w), Done}
    BY Places, Different
  <2>. QED  BY <1>2, <2>1, TasksAre, TasksAreThen
<1>5. t \in InHand(w) /\ InHand(w)' = InHand(w) \ {t} /\ scanned' = scanned \cup {t}
  BY <1>2, TasksAre, TasksAreThen
<1>6. PoolNow' = PoolNow
  BY <1>3, <1>4 DEF PoolNow
<1>7. HandNow' = [HandNow EXCEPT ![w] = @ \ {t}]
  BY <1>3, <1>5 DEF HandNow
<1>. QED  BY <1>5, <1>6, <1>7

PutMove(w, S) ==
  /\ S \subseteq Tasks(Hand(w)) /\ Tasks(Hand(w))' = Tasks(Hand(w)) \ S
  /\ \A r \in Place \ {Hand(w), Queue(w), Overflow} : Tasks(r)' = Tasks(r)
  /\ \/ Tasks(Queue(w))' = Tasks(Queue(w)) \cup S /\ Tasks(Overflow)' = Tasks(Overflow)
     \/ Tasks(Queue(w))' = Tasks(Queue(w)) /\ Tasks(Overflow)' = Tasks(Overflow) \cup S

LEMMA PutOnQueue ==
  ASSUME NEW w \in Worker, NEW S, Moved(S, Hand(w), Queue(w))
  PROVE  PutMove(w, S)
<1>1. Hand(w) \in Place /\ Queue(w) \in Place /\ Overflow \in Place /\ Overflow # Hand(w) /\ Overflow # Queue(w)
  BY Places, Different
<1>2. /\ S \subseteq Tasks(Hand(w)) /\ Tasks(Hand(w))' = Tasks(Hand(w)) \ S
      /\ Tasks(Queue(w))' = Tasks(Queue(w)) \cup S
      /\ \A r \in Place \ {Hand(w), Queue(w)} : Tasks(r)' = Tasks(r)
  BY SMT, <1>1, MovedIs
<1>. QED  BY <1>1, <1>2 DEF PutMove

LEMMA PutOnList ==
  ASSUME NEW w \in Worker, NEW S, Moved(S, Hand(w), Overflow)
  PROVE  PutMove(w, S)
<1>1. Hand(w) \in Place /\ Overflow \in Place /\ Queue(w) \in Place /\ Queue(w) # Hand(w) /\ Queue(w) # Overflow
  BY Places, Different
<1>2. /\ S \subseteq Tasks(Hand(w)) /\ Tasks(Hand(w))' = Tasks(Hand(w)) \ S
      /\ Tasks(Overflow)' = Tasks(Overflow) \cup S
      /\ \A r \in Place \ {Hand(w), Overflow} : Tasks(r)' = Tasks(r)
  BY SMT, <1>1, MovedIs
<1>. QED  BY <1>1, <1>2 DEF PutMove

LEMMA PutStep ==
  ASSUME NEW w \in Worker, NEW S, PutMove(w, S)
  PROVE  /\ S \subseteq InHand(w) /\ PoolNow' = PoolNow \cup S /\ scanned' = scanned
         /\ HandNow' = [HandNow EXCEPT ![w] = @ \ S]
<1>1. Hand(w) \in Place /\ Queue(w) \in Place /\ Overflow \in Place /\ Done \in Place
  BY Places
<1>2. Done \notin {Hand(w), Queue(w), Overflow}
  BY Different
<1>3. /\ S \subseteq Tasks(Hand(w)) /\ Tasks(Hand(w))' = Tasks(Hand(w)) \ S
      /\ \A r \in Place \ {Hand(w), Queue(w), Overflow} : Tasks(r)' = Tasks(r)
  BY DEF PutMove
<1>4. \/ Tasks(Queue(w))' = Tasks(Queue(w)) \cup S /\ Tasks(Overflow)' = Tasks(Overflow)
      \/ Tasks(Queue(w))' = Tasks(Queue(w)) /\ Tasks(Overflow)' = Tasks(Overflow) \cup S
  BY DEF PutMove
<1>5. \A v \in Worker \ {w} : Contents(v)' = Contents(v) /\ InHand(v)' = InHand(v)
  <2>. TAKE v \in Worker \ {w}
  <2>1. Queue(v) \in Place /\ Hand(v) \in Place
    BY Places
  <2>2. Queue(v) \notin {Hand(w), Queue(w), Overflow} /\ Hand(v) \notin {Hand(w), Queue(w), Overflow}
    BY Different
  <2>. QED  BY <1>3, <2>1, <2>2, TasksAre, TasksAreThen
<1>6. S \subseteq InHand(w) /\ InHand(w)' = InHand(w) \ S /\ scanned' = scanned
  BY <1>1, <1>2, <1>3, TasksAre, TasksAreThen
<1>7. \/ Contents(w)' = Contents(w) \cup S /\ Range(overflow') = Range(overflow)
      \/ Contents(w)' = Contents(w) /\ Range(overflow') = Range(overflow) \cup S
  BY <1>4, TasksAre, TasksAreThen
<1>8. PoolNow' = PoolNow \cup S
  <2>1. CASE Contents(w)' = Contents(w) \cup S /\ Range(overflow') = Range(overflow)
    BY <1>5, <2>1 DEF PoolNow
  <2>2. CASE Contents(w)' = Contents(w) /\ Range(overflow') = Range(overflow) \cup S
    <3>1. \A v \in Worker : Contents(v)' = Contents(v)
      BY <1>5, <2>2
    <3>2. \A x : x \in PoolNow' <=> x \in PoolNow \cup S
      BY <2>2, <3>1, PoolHas, PoolHasThen
    <3>. QED  BY <3>2
  <2>. QED  BY <1>7, <2>1, <2>2
<1>9. HandNow' = [HandNow EXCEPT ![w] = @ \ S]
  BY <1>5, <1>6 DEF HandNow
<1>. QED  BY <1>6, <1>8, <1>9

\* What is taken is taken from one place, so nobody else can take it.
LEMMA PopStep ==
  ASSUME NEW w \in Worker, NEW u \in Worker, NEW t, Moved({t}, Queue(u), Hand(w)), Partition(At)
  PROVE  /\ t \in PoolNow /\ PoolNow' = PoolNow \ {t} /\ scanned' = scanned
         /\ HandNow' = [HandNow EXCEPT ![w] = @ \cup {t}]
<1>1. Queue(u) \in Place /\ Hand(w) \in Place
  BY Places
<1>2. /\ t \in Tasks(Queue(u)) /\ Tasks(Queue(u))' = Tasks(Queue(u)) \ {t}
      /\ Tasks(Hand(w))' = Tasks(Hand(w)) \cup {t}
      /\ \A r \in Place \ {Queue(u), Hand(w)} : Tasks(r)' = Tasks(r)
  BY <1>1, MovedIs
<1>3. \A r \in Place : r # Queue(u) => t \notin Tasks(r)
  BY <1>1, <1>2, ApartIs
<1>4. /\ \A v \in Worker \ {u} : Contents(v)' = Contents(v) /\ t \notin Contents(v)
      /\ \A v \in Worker \ {w} : InHand(v)' = InHand(v)
  <2>. SUFFICES ASSUME NEW v \in Worker
                PROVE  /\ v # u => Contents(v)' = Contents(v) /\ t \notin Contents(v)
                       /\ v # w => InHand(v)' = InHand(v)
    OBVIOUS
  <2>1. /\ Queue(v) \in Place /\ Hand(v) \in Place /\ (v # u => Queue(v) # Queue(u))
        /\ Hand(v) # Queue(u) /\ Queue(v) # Hand(w) /\ (v # w => Hand(v) # Hand(w))
    BY Places, Different
  <2>. QED  BY <1>2, <1>3, <2>1, TasksAre, TasksAreThen
<1>5. Range(overflow') = Range(overflow) /\ t \notin Range(overflow) /\ scanned' = scanned
  <2>1. /\ Overflow \in Place /\ Done \in Place /\ Overflow \notin {Queue(u), Hand(w)}
        /\ Done \notin {Queue(u), Hand(w)}
    BY Places, Different
  <2>. QED  BY <1>2, <1>3, <2>1, TasksAre, TasksAreThen
<1>6. t \in Contents(u) /\ Contents(u)' = Contents(u) \ {t} /\ InHand(w)' = InHand(w) \cup {t}
  BY <1>2, TasksAre, TasksAreThen
<1>7. \A x : x \in PoolNow' <=> x \in PoolNow \ {t}
  <2>1. \A v \in Worker : \A x : x \in Contents(v)' <=> (x \in Contents(v) /\ x # t)
    BY <1>4, <1>6
  <2>2. \A x : x \in Range(overflow') <=> (x \in Range(overflow) /\ x # t)
    BY <1>5, <1>4, <1>6
  <2>. TAKE x
  <2>3. x \in PoolNow <=> (x \in Range(overflow) \/ \E v \in Worker : x \in Contents(v))
    BY PoolHas
  <2>4. x \in PoolNow' <=> (x \in Range(overflow') \/ \E v \in Worker : x \in Contents(v)')
    BY PoolHasThen
  <2>5. x \in PoolNow' <=> (x \in PoolNow /\ x # t)
    BY <2>1, <2>2, <2>3, <2>4
  <2>. QED  BY <2>5
<1>8. t \in PoolNow
  BY <1>6, PoolHas
<1>9. HandNow' = [HandNow EXCEPT ![w] = @ \cup {t}]
  BY <1>4, <1>6 DEF HandNow
<1>. QED  BY <1>5, <1>7, <1>8, <1>9

LEMMA DrainStep ==
  ASSUME NEW w \in Worker, NEW S, Moved(S, Overflow, Hand(w)), Partition(At)
  PROVE  /\ S \subseteq PoolNow /\ PoolNow' = PoolNow \ S /\ scanned' = scanned
         /\ HandNow' = [HandNow EXCEPT ![w] = @ \cup S]
<1>1. Overflow \in Place /\ Hand(w) \in Place
  BY Places
<1>2. /\ S \subseteq Tasks(Overflow) /\ Tasks(Overflow)' = Tasks(Overflow) \ S
      /\ Tasks(Hand(w))' = Tasks(Hand(w)) \cup S
      /\ \A r \in Place \ {Overflow, Hand(w)} : Tasks(r)' = Tasks(r)
  BY SMT, <1>1, MovedIs
<1>3. \A r \in Place : r # Overflow => Tasks(r) \cap S = {}
  BY <1>1, <1>2, ApartIs
<1>4. /\ \A v \in Worker : Contents(v)' = Contents(v) /\ Contents(v) \cap S = {}
      /\ \A v \in Worker \ {w} : InHand(v)' = InHand(v)
  <2>. SUFFICES ASSUME NEW v \in Worker
                PROVE  /\ Contents(v)' = Contents(v) /\ Contents(v) \cap S = {}
                       /\ v # w => InHand(v)' = InHand(v)
    OBVIOUS
  <2>1. /\ Queue(v) \in Place /\ Hand(v) \in Place /\ Queue(v) # Overflow
        /\ Hand(v) # Overflow /\ Queue(v) # Hand(w) /\ (v # w => Hand(v) # Hand(w))
    BY Places, Different
  <2>. QED  BY <1>2, <1>3, <2>1, TasksAre, TasksAreThen
<1>5. scanned' = scanned
  <2>1. Done \in Place /\ Done \notin {Overflow, Hand(w)}
    BY Places, Different
  <2>. QED  BY <1>2, <2>1, TasksAre, TasksAreThen
<1>6. /\ S \subseteq Range(overflow) /\ Range(overflow') = Range(overflow) \ S
      /\ InHand(w)' = InHand(w) \cup S
  BY <1>2, TasksAre, TasksAreThen
<1>7. \A x : x \in PoolNow' <=> x \in PoolNow \ S
  <2>1. \A v \in Worker : \A x : x \in Contents(v)' <=> (x \in Contents(v) /\ x \notin S)
    BY <1>4, <1>6
  <2>2. \A x : x \in Range(overflow') <=> (x \in Range(overflow) /\ x \notin S)
    BY <1>5, <1>4, <1>6
  <2>. TAKE x
  <2>3. x \in PoolNow <=> (x \in Range(overflow) \/ \E v \in Worker : x \in Contents(v))
    BY PoolHas
  <2>4. x \in PoolNow' <=> (x \in Range(overflow') \/ \E v \in Worker : x \in Contents(v)')
    BY PoolHasThen
  <2>5. x \in PoolNow' <=> (x \in PoolNow /\ x \notin S)
    BY <2>1, <2>2, <2>3, <2>4
  <2>. QED  BY <2>5
<1>8. S \subseteq PoolNow
  BY <1>6, PoolHas
<1>9. HandNow' = [HandNow EXCEPT ![w] = @ \cup S]
  BY <1>4, <1>6 DEF HandNow
<1>. QED  BY <1>5, <1>7, <1>8, <1>9

LEMMA StayStep ==
  ASSUME At' = At
  PROVE  PoolNow' = PoolNow /\ HandNow' = HandNow /\ scanned' = scanned
<1>1. \A p \in Place : Tasks(p)' = Tasks(p)
  BY AtIs
<1>2. /\ \A v \in Worker : Contents(v)' = Contents(v) /\ InHand(v)' = InHand(v)
      /\ Range(overflow') = Range(overflow) /\ scanned' = scanned
  BY <1>1, Places, TasksAre, TasksAreThen
<1>. QED  BY <1>2 DEF PoolNow, HandNow

\* Who is past the end stays there; only the test of all offers leads there.
LEMMA OverStep ==
  ASSUME Inv, NEW w \in Worker, WorkerNext(w)
  PROVE  /\ ~OverNow[w]
         /\ pc'[w] # "done" => OverNow' = OverNow
         /\ pc'[w] = "done" => OverNow' = [OverNow EXCEPT ![w] = TRUE]
<1>1. pc[w] # "done" /\ \A v \in Worker \ {w} : pc'[v] = pc[v]
  BY StepFacts DEF ControlMove, Alone
<1>2. \A v \in Worker : OverNow[v] = (pc[v] = "done") /\ OverNow'[v] = (pc'[v] = "done")
  BY DEF OverNow
<1>3. OverNow = [v \in Worker |-> OverNow[v]] /\ OverNow' = [v \in Worker |-> OverNow'[v]]
  BY DEF OverNow
<1>4. ~OverNow[w]
  BY <1>1, <1>2
<1>5. ASSUME pc'[w] # "done" PROVE OverNow' = OverNow
  BY <1>1, <1>5 DEF OverNow
<1>6. ASSUME pc'[w] = "done" PROVE OverNow' = [OverNow EXCEPT ![w] = TRUE]
  BY <1>1, <1>6 DEF OverNow
<1>. QED  BY <1>4, <1>5, <1>6

LEMMA LeaveStep ==
  ASSUME Counting, Inv, NEW w \in Worker, WorkerNext(w), pc'[w] = "done"
  PROVE  At' = At /\ PoolNow = {} /\ \A v \in Worker : InHand(v) = {}
<1>1. pc[w] = "offered" /\ offered = NWorkers
  BY StepFacts DEF ControlMove
<1>2. Ended /\ \A v \in Worker : InHand(v) = {} /\ Contents(v) = {}
  BY <1>1, InvFacts, SeesEnd
<1>3. PoolNow = {}
  BY <1>2, EmptyFacts DEF Ended, PoolNow
<1>4. TestOffered(w)
  BY <1>1 DEF WorkerNext, Discover, Scanned, push, PushElem, PushBottom, push_on_overflow_list,
     trim_queues, pop_local, DecrementBottom, ReadTop, GetAge, pop_local_slow, SetAge,
     pop_global, GiveUp, StealBottom, StealElem, StealCas, take_from_overflow_list,
     Reattach, offer_termination, peek, PeekTop, Withdraw, Step
<1>5. /\ elems' = elems /\ bottom' = bottom /\ age' = age /\ overflow' = overflow
      /\ hold' = hold /\ found' = found /\ prefix' = prefix /\ created' = created /\ scanned' = scanned
  BY <1>4 DEF TestOffered, queueVars, workVars
<1>6. \A v \in Worker : Popping(v)' <=> Popping(v)
  <2>1. \A v \in Worker \ {w} : pc'[v] = pc[v]
    BY StepFacts DEF Alone
  <2>. QED  BY <1>1, <2>1 DEF Popping
<1>7. \A v \in Worker : Contents(v)' = Contents(v) /\ InHand(v)' = InHand(v)
  BY <1>5, <1>6 DEF Contents, InHand
<1>8. At' = At
  BY <1>5, <1>7, NoMove
<1>. QED  BY <1>2, <1>3, <1>8

LEMMA PoolStep ==
  ASSUME Counting, Inv, NEW w \in Worker, WorkerNext(w)
  PROVE  Pool!Next \/ UNCHANGED Pool!vars
<1>. USE DEF PoolNow, HandNow, OverNow
<1>1. ~OverNow[w] /\ Moves(w) /\ Partition(At)
  BY OverStep, StepFacts, InvFacts
<1>2. CASE pc'[w] = "done"
  <2>1. At' = At /\ PoolNow = {} /\ \A v \in Worker : InHand(v) = {}
    BY <1>2, LeaveStep
  <2>2. OverNow' = [OverNow EXCEPT ![w] = TRUE]
    BY <1>2, OverStep
  <2>3. PoolNow' = PoolNow /\ HandNow' = HandNow /\ scanned' = scanned
    BY <2>1, StayStep
  <2>4. Pool!Known = scanned
    BY <2>1 DEF Pool!Known
  <2>5. Pool!Leave(w)
    BY <2>2, <2>3, <2>4 DEF Pool!Leave
  <2>. QED  BY <2>5 DEF Pool!Next
<1>3. CASE pc'[w] # "done"
  <2>1. OverNow' = OverNow
    BY <1>3, OverStep
  <2>2. CASE At' = At
    <3>1. PoolNow' = PoolNow /\ HandNow' = HandNow /\ scanned' = scanned
      BY <2>2, StayStep
    <3>. QED  BY <2>1, <3>1 DEF Pool!vars
  <2>3. ASSUME NEW t, Moved({t}, Unknown, Hand(w)) PROVE Pool!Find(w)
    <3>1. /\ t \in Task /\ t \notin PoolNow /\ t \notin scanned /\ \A v \in Worker : t \notin InHand(v)
          /\ PoolNow' = PoolNow /\ scanned' = scanned
          /\ HandNow' = [HandNow EXCEPT ![w] = @ \cup {t}]
      BY <1>1, <2>3, FindStep
    <3>2. t \in Task \ Pool!Known
      BY <3>1 DEF Pool!Known
    <3>. QED  BY <1>1, <2>1, <3>1, <3>2 DEF Pool!Find
  <2>4. ASSUME NEW t, Moved({t}, Hand(w), Done) PROVE Pool!Finish(w)
    <3>1. /\ t \in InHand(w) /\ PoolNow' = PoolNow /\ scanned' = scanned \cup {t}
          /\ HandNow' = [HandNow EXCEPT ![w] = @ \ {t}]
      BY <2>4, FinishStep
    <3>. QED  BY <2>1, <3>1 DEF Pool!Finish
  <2>5. ASSUME NEW S, Moved(S, Hand(w), Queue(w)) \/ Moved(S, Hand(w), Overflow) PROVE Pool!Put(w)
    <3>1. /\ S \subseteq InHand(w) /\ PoolNow' = PoolNow \cup S /\ scanned' = scanned
          /\ HandNow' = [HandNow EXCEPT ![w] = @ \ S]
      BY <2>5, PutOnQueue, PutOnList, PutStep
    <3>. QED  BY <2>1, <3>1 DEF Pool!Put
  <2>6. ASSUME NEW u \in Worker, NEW t, Moved({t}, Queue(u), Hand(w)) PROVE Pool!Take(w)
    <3>1. /\ t \in PoolNow /\ PoolNow' = PoolNow \ {t} /\ scanned' = scanned
          /\ HandNow' = [HandNow EXCEPT ![w] = @ \cup {t}]
      BY <1>1, <2>6, PopStep
    <3>2. {t} \in SUBSET PoolNow
      BY <3>1
    <3>. QED  BY <1>1, <2>1, <3>1, <3>2 DEF Pool!Take
  <2>7. ASSUME NEW S, Moved(S, Overflow, Hand(w)) PROVE Pool!Take(w)
    <3>1. /\ S \subseteq PoolNow /\ PoolNow' = PoolNow \ S /\ scanned' = scanned
          /\ HandNow' = [HandNow EXCEPT ![w] = @ \cup S]
      BY <1>1, <2>7, DrainStep
    <3>. QED  BY <1>1, <2>1, <3>1 DEF Pool!Take
  <2>. QED  BY <1>1, <2>2, <2>3, <2>4, <2>5, <2>6, <2>7 DEF Moves, Pool!Next
<1>. QED  BY <1>2, <1>3

LEMMA PoolInit ==
  ASSUME Counting PROVE Init => Pool!Init
<1>. SUFFICES ASSUME Init PROVE Pool!Init
  OBVIOUS
<1>1. Inv
  BY InitInv
<1>2. \A v \in Worker : pc[v] = "scan" /\ hold[v] = NoTask /\ found[v] = NoTask /\ prefix[v] = <<>>
  BY DEF Init
<1>3. \A v \in Worker : InHand(v) = {}
  BY <1>2, EmptyFacts DEF InHand
<1>4. \A v \in Worker : Contents(v) = {}
  <2>1. \A x \in Task : x \in Tasks(Unknown)
    <3>1. 1 .. 0 = {} /\ created = 0
      BY SMT DEF Init
    <3>. QED  BY <3>1, TasksAre
  <2>. TAKE v \in Worker
  <2>2. Tasks(Unknown) \cap Tasks(Queue(v)) = {}
    <3>1. Unknown \in Place /\ Queue(v) \in Place /\ Unknown # Queue(v)
      BY Places, Different
    <3>. QED  BY <1>1, <3>1, InvFacts, ApartIs
  <2>3. Contents(v) \subseteq Task
    BY <1>1, InvFacts, Apart
  <2>. QED  BY <2>1, <2>2, <2>3, TasksAre
<1>5. Range(overflow) \cup UNION {Contents(v) : v \in Worker} = {} /\ scanned = {}
  BY <1>4, EmptyFacts DEF Init
<1>6. [v \in Worker |-> InHand(v)] = [v \in Worker |-> {}]
  BY <1>3
<1>7. [v \in Worker |-> pc[v] = "done"] = [v \in Worker |-> FALSE]
  BY <1>2
<1>. QED  BY <1>5, <1>6, <1>7 DEF Pool!Init

LEMMA PoolNext ==
  ASSUME Counting, Inv, [Next]_vars
  PROVE  [Pool!Next]_(Pool!vars)
<1>1. ASSUME UNCHANGED <<queueVars, overflow, pc, loc, workVars, steals>> PROVE UNCHANGED Pool!vars
  <2>1. /\ elems' = elems /\ bottom' = bottom /\ age' = age /\ overflow' = overflow /\ pc' = pc
        /\ hold' = hold /\ found' = found /\ prefix' = prefix /\ scanned' = scanned
    BY <1>1 DEF queueVars, workVars
  <2>2. \A v \in Worker : Contents(v)' = Contents(v) /\ InHand(v)' = InHand(v)
    BY <2>1 DEF Contents, Popping, InHand
  <2>3. PoolNow' = PoolNow /\ HandNow' = HandNow /\ OverNow' = OverNow
    BY <2>1, <2>2 DEF PoolNow, HandNow, OverNow
  <2>. QED  BY <2>1, <2>3 DEF Pool!vars, PoolNow, HandNow, OverNow
<1>2. CASE UNCHANGED vars
  BY <1>1, <1>2 DEF vars
<1>3. CASE reset_for_reuse
  BY <1>1, <1>3 DEF reset_for_reuse
<1>4. ASSUME NEW w \in Worker, WorkerNext(w) PROVE Pool!Next \/ UNCHANGED Pool!vars
  BY <1>4, PoolStep
<1>. QED  BY <1>2, <1>3, <1>4 DEF Next

----------------------------------------------------------------------------
(* Enough tags.  The tag of a queue changes when its owner pops the last    *)
(* element, or finds that a thief was faster, and when a thief takes the    *)
(* last element of the ring.  With more tags than that can happen, they do  *)
(* not come around.                                                         *)

EnoughTags == TagSize > MaxTasks + 2 * (MaxSteals + NWorkers)

\* The tasks popped for good: those scanned, and those that a scan has in hand.
Scans(w, x) == hold[w] = x /\ ~(pc[w] \in Pushing /\ found[w] = NoTask)
Popped == scanned \cup {x \in Task : \E w \in Worker : Scans(w, x)}

\* The owner pops, and a thief was faster: pop_local() will set a new age.
Lost(w) == Length(w) = 0 /\ (pc[w] = "dec" \/ Popping(w))

\* How often the tag of a queue can have changed.
Changes == Cardinality(Popped) + 2 * steals

Later(a, b) == a.tag < b.tag \/ (a.tag = b.tag /\ a.top < b.top)

\* The tag of a queue counts, and the owner's next age is later than the present.
OwnTag(w) ==
  /\ age[w].tag + (IF Lost(w) THEN 1 ELSE 0) <= Changes
  /\ pc[w] \in {"cas", "setAge"} =>
       LET a == loc[w].oldAge IN
       /\ a.tag <= age[w].tag
       /\ age[w].tag <= a.tag \/ (age[w].tag = a.tag + 1 /\ age[w].top < bottom[w])
       /\ age[w] = a \/ a.top = bottom[w]
SeenTag(w) ==
  pc[w] \in Stealing => loc[w].oldAge = age[loc[w].k] \/ Later(loc[w].oldAge, age[loc[w].k])
TagInv == \A w \in Worker : OwnTag(w) /\ SeenTag(w)

\* What a step of w does to the things that the invariant is about.
TagMove(w) ==
  /\ pc'[w] = "dec" =>
       pc[w] = "pop" /\ dirty_size(bottom[w], age[w].top) # 0
  /\ pc'[w] = "readTop" => pc[w] = "dec"
  /\ pc'[w] = "getAge" => pc[w] = "readTop" /\ bottom' = bottom /\ age' = age
  /\ pc'[w] = "cas" =>
       pc[w] = "getAge" /\ bottom' = bottom /\ age' = age /\ loc'[w].oldAge = age[w]
  /\ pc'[w] = "setAge" =>
       /\ pc[w] = "cas" /\ bottom' = bottom /\ age' = age /\ loc' = loc
       /\ bottom[w] = loc[w].oldAge.top
  /\ pc'[w] \in Stealing =>
       /\ age' = age
       /\ \/ loc'[w].oldAge = age[loc'[w].k]
          \/ /\ pc[w] \in Stealing
             /\ loc'[w].k = loc[w].k /\ loc'[w].oldAge = loc[w].oldAge
  /\ pc[w] \in {"cas", "setAge"} /\ age' # age =>
       /\ set_age(w) /\ bottom' = bottom /\ pc'[w] \in {"scan", "trim"} /\ steals' = steals
       /\ pc[w] = "cas" /\ age[w] = loc[w].oldAge /\ bottom[w] = loc[w].oldAge.top =>
            pc'[w] = "scan" /\ hold'[w] = loc[w].t /\ elems' = elems
       /\ pc[w] = "setAge" \/ bottom[w] # loc[w].oldAge.top \/ age[w] = loc[w].oldAge
  /\ age' = age \/ pc[w] \in {"cas", "setAge"} \/ (pc[w] = "stealCas" /\ steals' = steals + 1)
  /\ steals' = steals \/ steals' = steals + 1

LEMMA TagMoves ==
  ASSUME NEW w \in Worker, Types, WorkerNext(w)
  PROVE  TagMove(w)
<1>. USE DEF TagMove, Types, ControlType, Stealing, queueVars, workVars
<1>1. CASE Discover(w)
  BY <1>1 DEF Discover, Step
<1>2. CASE Scanned(w)
  BY <1>2 DEF Scanned, Step
<1>3. CASE push(w)
  BY <1>3 DEF push
<1>4. CASE PushElem(w)
  BY <1>4 DEF PushElem, Step
<1>5. CASE PushBottom(w)
  BY <1>5 DEF PushBottom, Pushed
<1>6. CASE push_on_overflow_list(w)
  BY <1>6 DEF push_on_overflow_list, Step
<1>7. CASE trim_queues(w)
  BY <1>7 DEF trim_queues
<1>8. CASE pop_local(w)
  BY <1>8 DEF pop_local
<1>9. CASE DecrementBottom(w)
  BY <1>9 DEF DecrementBottom, Step
<1>10. CASE ReadTop(w)
  BY <1>10 DEF ReadTop, Claim
<1>11. CASE GetAge(w)
  <2>1. loc'[w].oldAge = age[w]
    BY SMT, <1>11 DEF GetAge, Locals
  <2>. QED  BY <1>11, <2>1 DEF GetAge, Step
<1>12. CASE pop_local_slow(w)
  <2>1. /\ pc[w] = "cas" /\ elems' = elems /\ bottom' = bottom /\ steals' = steals
        /\ pc'[w] \in {"scan", "trim", "setAge"}
    BY <1>12 DEF pop_local_slow
  <2>2. \/ age' = age
        \/ /\ set_age(w) /\ pc'[w] \in {"scan", "trim"}
           /\ bottom[w] # loc[w].oldAge.top \/ age[w] = loc[w].oldAge
    BY <1>12 DEF pop_local_slow
  <2>3. pc'[w] = "setAge" => age' = age /\ loc' = loc /\ bottom[w] = loc[w].oldAge.top
    BY <1>12 DEF pop_local_slow
  <2>4. age[w] = loc[w].oldAge /\ bottom[w] = loc[w].oldAge.top => pc'[w] = "scan" /\ hold'[w] = loc[w].t
    BY <1>12 DEF pop_local_slow, Claim, WorkType
  <2>. QED  BY <2>1, <2>2, <2>3, <2>4
<1>13. CASE SetAge(w)
  BY <1>13 DEF SetAge, Step, set_age
<1>14. CASE pop_global(w)
  <2>1. loc'[w].oldAge = age[loc'[w].k]
    BY SMT, <1>14 DEF pop_global, Locals
  <2>. QED  BY <1>14, <2>1 DEF pop_global, Step
<1>15. CASE GiveUp(w)
  BY <1>15 DEF GiveUp, Step
<1>16. CASE StealBottom(w)
  BY <1>16 DEF StealBottom, NextTry
<1>17. CASE StealElem(w)
  <2>1. loc'[w].oldAge = loc[w].oldAge /\ loc'[w].k = loc[w].k
    BY SMT, <1>17 DEF StealElem, Locals
  <2>. QED  BY <1>17, <2>1 DEF StealElem, Step
<1>18. CASE StealCas(w)
  BY <1>18 DEF StealCas, NextTry, Claim
<1>19. CASE take_from_overflow_list(w)
  BY <1>19 DEF take_from_overflow_list
<1>20. CASE Reattach(w)
  BY <1>20 DEF Reattach, Step
<1>21. CASE offer_termination(w)
  BY <1>21 DEF offer_termination, Step
<1>22. CASE TestOffered(w)
  BY <1>22 DEF TestOffered
<1>23. CASE peek(w)
  BY <1>23 DEF peek, Step
<1>24. CASE PeekTop(w)
  BY <1>24 DEF PeekTop
<1>25. CASE Withdraw(w)
  BY <1>25 DEF Withdraw, Step
<1>. QED
  BY <1>1, <1>2, <1>3, <1>4, <1>5, <1>6, <1>7, <1>8, <1>9, <1>10, <1>11, <1>12,
     <1>13, <1>14, <1>15, <1>16, <1>17, <1>18, <1>19, <1>20, <1>21, <1>22, <1>23,
     <1>24, <1>25 DEF WorkerNext

\* What a scan has in hand stays there until it is scanned.
LEMMA ScanStep ==
  ASSUME NEW w \in Worker, Types, HandInv(w), WorkerNext(w)
  PROVE  scanned \subseteq scanned' /\ \A x \in Task : Scans(w, x) => Scans(w, x)' \/ x \in scanned'
<1>0. \A x \in Task : x # NoTask
  BY SMT DEF Task, NoTask
<1>. USE <1>0 DEF Types, ControlType, WorkType, Scans, HandInv, Pushing, workVars
<1>1. CASE Discover(w)
  <2>1. created + 1 # NoTask
    BY SMT DEF NoTask
  <2>. QED  BY <1>1, <2>1 DEF Discover, Step
<1>2. CASE Scanned(w)
  BY <1>2 DEF Scanned, Step
<1>3. CASE push(w)
  BY <1>3 DEF push
<1>4. CASE PushElem(w)
  BY <1>4 DEF PushElem, Step
<1>5. CASE PushBottom(w)
  BY <1>5 DEF PushBottom, Pushed
<1>6. CASE push_on_overflow_list(w)
  BY <1>6 DEF push_on_overflow_list, Step
<1>7. CASE trim_queues(w)
  BY <1>7 DEF trim_queues
<1>8. CASE pop_local(w)
  BY <1>8 DEF pop_local
<1>9. CASE DecrementBottom(w)
  BY <1>9 DEF DecrementBottom, Step
<1>10. CASE ReadTop(w)
  BY <1>10 DEF ReadTop, Claim
<1>11. CASE GetAge(w)
  BY <1>11 DEF GetAge, Step
<1>12. CASE pop_local_slow(w)
  BY <1>12 DEF pop_local_slow, set_age, Claim
<1>13. CASE SetAge(w)
  BY <1>13 DEF SetAge, Step, set_age
<1>14. CASE pop_global(w)
  BY <1>14 DEF pop_global, Step
<1>15. CASE GiveUp(w)
  BY <1>15 DEF GiveUp, Step
<1>16. CASE StealBottom(w)
  BY <1>16 DEF StealBottom, NextTry
<1>17. CASE StealElem(w)
  BY <1>17 DEF StealElem, Step
<1>18. CASE StealCas(w)
  BY <1>18 DEF StealCas, NextTry, Claim
<1>19. CASE take_from_overflow_list(w)
  BY <1>19 DEF take_from_overflow_list
<1>20. CASE Reattach(w)
  BY <1>20 DEF Reattach, Step
<1>21. CASE offer_termination(w)
  BY <1>21 DEF offer_termination, Step
<1>22. CASE TestOffered(w)
  BY <1>22 DEF TestOffered
<1>23. CASE peek(w)
  BY <1>23 DEF peek, Step
<1>24. CASE PeekTop(w)
  BY <1>24 DEF PeekTop
<1>25. CASE Withdraw(w)
  BY <1>25 DEF Withdraw, Step
<1>. QED
  BY <1>1, <1>2, <1>3, <1>4, <1>5, <1>6, <1>7, <1>8, <1>9, <1>10, <1>11, <1>12,
     <1>13, <1>14, <1>15, <1>16, <1>17, <1>18, <1>19, <1>20, <1>21, <1>22, <1>23,
     <1>24, <1>25 DEF WorkerNext

\* What was popped stays so.
LEMMA PoppedStep ==
  ASSUME Inv, NEW w \in Worker, WorkerNext(w)
  PROVE  Popped \subseteq Popped'
<1>3. scanned \subseteq scanned' /\ \A x \in Task : Scans(w, x) => Scans(w, x)' \/ x \in scanned'
  BY InvFacts, ScanStep
<1>4. \A v \in Worker \ {w} : \A x \in Task : Scans(v, x) => Scans(v, x)'
  BY StepFacts DEF Alone, Scans
<1>. QED  BY <1>3, <1>4 DEF Popped

LEMMA SubsetCount ==
  ASSUME Counting, NEW S \in SUBSET Task, NEW T \in SUBSET Task, S \subseteq T
  PROVE  /\ Cardinality(S) \in Nat /\ Cardinality(T) \in Nat
         /\ Cardinality(S) <= Cardinality(T) /\ Cardinality(T) <= MaxTasks
         /\ S # T => Cardinality(S) # Cardinality(T)
  BY DEF Counting

\* The number of changes grows with every pop and by two with every steal, and
\* does not reach the number of tags.
LEMMA ChangesStep ==
  ASSUME Counting, EnoughTags, Inv, NEW w \in Worker, WorkerNext(w)
  PROVE  /\ Changes \in Nat /\ Changes' \in Nat /\ Changes <= Changes' /\ Changes' < TagSize
         /\ steals' = steals + 1 => Changes + 2 <= Changes'
         /\ Popped' # Popped => Changes + 1 <= Changes'
<1>1. Types /\ Types' /\ CountInv /\ steals \in Nat /\ ControlMove(w)
      /\ \A v \in Worker \ {w} : Alone(w, v)
  BY InvFacts, StepFacts
<1>2. steals' \in 0 .. MaxSteals + NWorkers
  <2>1. \A v \in Worker \ {w} : pc'[v] = pc[v]
    BY <1>1 DEF Alone
  <2>. QED  BY <1>1, <2>1, StealCount DEF CountInv
<1>3. steals' = steals \/ steals' = steals + 1
  BY <1>1, TagMoves DEF TagMove
<1>4. Popped \in SUBSET Task /\ Popped' \in SUBSET Task /\ Popped \subseteq Popped'
  BY <1>1, PoppedStep DEF Popped, Types, WorkType
<1>5. /\ Cardinality(Popped) \in Nat /\ Cardinality(Popped') \in Nat
      /\ Cardinality(Popped) <= Cardinality(Popped') /\ Cardinality(Popped') <= MaxTasks
      /\ Popped # Popped' => Cardinality(Popped) # Cardinality(Popped')
  BY <1>4, SubsetCount
<1>6. Changes = Cardinality(Popped) + 2 * steals /\ Changes' = Cardinality(Popped') + 2 * steals'
  BY DEF Changes
<1>. QED  BY SMT, <1>1, <1>2, <1>3, <1>5, <1>6, TaskQueueAssumption DEF EnoughTags

\* Nobody but a thief makes the owner lose.
LEMMA LostStep ==
  ASSUME Inv, NEW w \in Worker, WorkerNext(w), age'[w] = age[w], Lost(w)'
  PROVE  Lost(w)
<1>1. Types /\ QueueKept(w) /\ TagMove(w)
  BY InvFacts, StepFacts, TagMoves
<1>2. CASE pc'[w] = "dec"
  <2>1. Length(w)' = Length(w) /\ Length(w) # 0
    BY <1>1, <1>2 DEF TagMove, QueueKept, Kept1, Length, EndOf, Popping
  <2>. QED  BY <2>1 DEF Lost
<1>3. CASE pc'[w] = "readTop"
  <2>1. Length(w)' = Length(w) /\ pc[w] = "dec"
    BY <1>1, <1>3 DEF TagMove, QueueKept, Kept1
  <2>. QED  BY <2>1 DEF Lost
<1>4. CASE pc'[w] \in {"getAge", "cas", "setAge"}
  <2>1. pc[w] \in {"readTop", "getAge", "cas"} /\ bottom' = bottom
    BY <1>1, <1>4 DEF TagMove
  <2>2. Length(w)' = Length(w) /\ Popping(w)
    BY <1>4, <2>1 DEF Length, EndOf, Popping
  <2>. QED  BY <2>2 DEF Lost
<1>. QED  BY <1>2, <1>3, <1>4 DEF Lost, Popping

\* The last element of a queue is at its bottom.
LEMMA LastOne ==
  ASSUME Types, NEW w \in Worker, Popping(w)
  PROVE  Length(w) = 1 <=> age[w].top = bottom[w]
<1>1. age[w].top \in Index /\ bottom[w] \in Index
  BY EndFacts
<1>2. Length(w) = dirty_size(increment_index(bottom[w]), age[w].top)
  BY DEF Length, EndOf
<1>. DEFINE n == dirty_size(bottom[w], age[w].top)
<1>3. /\ n \in Index /\ (n = 0 <=> bottom[w] = age[w].top)
      /\ n = N - 1 <=> increment_index(bottom[w]) = age[w].top
      /\ n # N - 1 => Length(w) = n + 1
  BY <1>1, <1>2, SizeFacts
<1>4. n = N - 1 => Length(w) = 0
  BY <1>1, <1>2, <1>3, IndexFacts, SizeFacts
<1>. HIDE DEF n
<1>. QED  BY SMT, <1>3, <1>4, TaskQueueAssumption DEF Index

\* The ages that the CAS of a thief and pop_local() store.
LEMMA NextAges ==
  ASSUME NEW a \in Age, NEW b \in Index
  PROVE  /\ a.tag \in Nat /\ a.top \in Index
         /\ a.tag + 1 < TagSize =>
              /\ Stolen(a).tag = a.tag \/ (Stolen(a).tag = a.tag + 1 /\ Stolen(a).top = 0)
              /\ Stolen(a).tag = a.tag + 1 => a.top = N - 1
              /\ Later(a, Stolen(a))
              /\ EmptyAge(b, a).tag = a.tag + 1 /\ EmptyAge(b, a).top = b
<1>1. a.tag \in 0 .. TagSize - 1 /\ a.top \in Index
  BY SMT DEF Age, Index
<1>2. increment_index(a.top) = IF a.top = N - 1 THEN 0 ELSE a.top + 1
  BY <1>1, IndexIs
<1>3. a.tag + 1 < TagSize => (a.tag + 1) % TagSize = a.tag + 1
  BY SMT, <1>1, TaskQueueAssumption
<1>4. /\ Stolen(a).top = increment_index(a.top)
      /\ Stolen(a).tag = IF increment_index(a.top) = 0 THEN (a.tag + 1) % TagSize ELSE a.tag
      /\ EmptyAge(b, a).tag = (a.tag + 1) % TagSize /\ EmptyAge(b, a).top = b
  BY DEF Stolen, EmptyAge
<1>. QED  BY SMT, <1>1, <1>2, <1>3, <1>4, TaskQueueAssumption DEF Later, Index

\* A worker's own queue.
LEMMA OwnStep ==
  ASSUME Counting, EnoughTags, Inv, TagInv, NEW w \in Worker, WorkerNext(w)
  PROVE  OwnTag(w)' /\ (age'[w] = age[w] \/ Later(age[w], age'[w]))
<1>1. /\ Types /\ Types' /\ EndsInv(w) /\ Once(w) /\ QueueKept(w) /\ TagMove(w) /\ OwnTag(w)
      /\ Partition(At)
  BY InvFacts, StepFacts, TagMoves DEF TagInv
<1>2. /\ Changes \in Nat /\ Changes' \in Nat /\ Changes <= Changes' /\ Changes' < TagSize
      /\ steals' = steals + 1 => Changes + 2 <= Changes'
      /\ Popped' # Popped => Changes + 1 <= Changes'
  BY ChangesStep
<1>. DEFINE a == loc[w].oldAge
<1>3. /\ age[w] \in Age /\ a \in Age /\ bottom[w] \in Index /\ Length(w) \in Index
      /\ age[w].tag \in Nat /\ a.tag \in Nat /\ age[w].top \in Index
  <2>1. age[w] \in Age /\ a \in Age /\ bottom[w] \in Index /\ Length(w) \in Index
    BY <1>1, EndFacts, LocalsAre DEF Types, ControlType
  <2>. QED  BY <2>1, NextAges
<1>4. CASE age'[w] = age[w]
  <2>1. age'[w].tag + (IF Lost(w)' THEN 1 ELSE 0) <= Changes'
    <3>1. age[w].tag + (IF Lost(w) THEN 1 ELSE 0) <= Changes /\ (Lost(w)' => Lost(w))
      BY <1>1, <1>4, LostStep DEF OwnTag
    <3>2. age[w].tag + (IF Lost(w)' THEN 1 ELSE 0) <= Changes'
      BY SMT, <1>2, <1>3, <3>1
    <3>. QED  BY <1>4, <3>2
  <2>2. CASE pc'[w] = "cas"
    <3>1. loc'[w].oldAge = age'[w]
      BY <1>1, <1>4, <2>2 DEF TagMove
    <3>2. age[w].tag <= age[w].tag
      BY SMT, <1>3
    <3>. QED  BY <1>4, <2>1, <2>2, <3>1, <3>2 DEF OwnTag
  <2>3. CASE pc'[w] = "setAge"
    <3>1. pc[w] = "cas" /\ bottom' = bottom /\ loc' = loc
      BY <1>1, <2>3 DEF TagMove
    <3>. QED  BY <1>1, <1>4, <2>1, <3>1 DEF OwnTag
  <2>4. CASE pc'[w] \notin {"cas", "setAge"}
    BY <1>4, <2>1, <2>4 DEF OwnTag
  <2>. QED  BY <1>4, <2>2, <2>3, <2>4
<1>5. CASE age'[w] # age[w]
  <2>1. pc[w] \in {"cas", "setAge"} /\ age' # age
    BY <1>1, <1>5 DEF TagMove, QueueKept, Kept1
  <2>2. /\ set_age(w) /\ bottom' = bottom /\ pc'[w] \in {"scan", "trim"}
        /\ pc[w] = "cas" /\ age[w] = a /\ bottom[w] = a.top =>
             pc'[w] = "scan" /\ hold'[w] = loc[w].t /\ elems' = elems
    BY <1>1, <2>1 DEF TagMove
  <2>3. /\ age[w].tag + (IF Lost(w) THEN 1 ELSE 0) <= Changes
        /\ a.tag <= age[w].tag
        /\ age[w].tag <= a.tag \/ (age[w].tag = a.tag + 1 /\ age[w].top < bottom[w])
    BY <1>1, <2>1 DEF OwnTag
  <2>4. a.tag + 1 <= Changes'
    <3>1. CASE Lost(w)
      BY SMT, <1>2, <1>3, <2>3, <3>1
    <3>2. CASE ~Lost(w)
      <4>1. Length(w) # 0 /\ Popping(w)
        BY <2>1, <3>2 DEF Lost, Popping
      <4>2. pc[w] = "cas" /\ Length(w) <= 1
        BY <1>1, <2>1, <4>1 DEF EndsInv
      <4>3. Length(w) = 1
        BY SMT, <1>3, <4>1, <4>2, TaskQueueAssumption DEF Index
      <4>4. age[w] = a /\ bottom[w] = a.top
        BY <1>1, <4>1, <4>2, <4>3, LastOne DEF EndsInv
      <4>5. pc'[w] = "scan" /\ hold'[w] = loc[w].t /\ elems' = elems
        BY <2>2, <4>2, <4>4
      <4>6. loc[w].t \in Contents(w)
        BY <1>1, <2>2, <4>2, <4>4, <4>5, LastContents
      <4>7. loc[w].t \in Task /\ loc[w].t \notin scanned /\ \A v \in Worker : loc[w].t \notin InHand(v)
        <5>1. Contents(w) \subseteq Task
          BY <1>1, Apart
        <5>2. /\ Queue(w) \in Place /\ Done \in Place /\ Queue(w) # Done
              /\ \A v \in Worker : Hand(v) \in Place /\ Queue(w) # Hand(v)
          BY Places, Different
        <5>3. /\ Tasks(Queue(w)) \cap Tasks(Done) = {}
              /\ \A v \in Worker : Tasks(Queue(w)) \cap Tasks(Hand(v)) = {}
          BY <1>1, <5>2, ApartIs
        <5>. QED  BY <4>6, <5>1, <5>3, TasksAre
      <4>8. loc[w].t \notin Popped
        <5>1. loc[w].t # NoTask
          BY SMT, <4>7 DEF Task, NoTask
        <5>2. \A v \in Worker : hold[v] # loc[w].t
          BY <4>7, <5>1 DEF InHand
        <5>. QED  BY <4>7, <5>2 DEF Popped, Scans
      <4>9. loc[w].t \in Popped'
        BY <4>5, <4>7 DEF Popped, Scans, Pushing
      <4>10. Changes + 1 <= Changes'
        BY <1>2, <4>8, <4>9
      <4>. QED  BY SMT, <1>2, <1>3, <2>3, <4>10, <3>2
    <3>. QED  BY <3>1, <3>2
  <2>5. age'[w].tag = a.tag + 1 /\ age'[w].top = bottom[w]
    <3>1. a.tag + 1 < TagSize
      BY SMT, <1>2, <1>3, <2>4, TaskQueueAssumption
    <3>2. age'[w] = EmptyAge(bottom[w], a)
      BY <1>1, <2>2 DEF set_age, Types, QueueType
    <3>3. a.tag + 1 < TagSize =>
            EmptyAge(bottom[w], a).tag = a.tag + 1 /\ EmptyAge(bottom[w], a).top = bottom[w]
      BY <1>3, NextAges
    <3>. QED  BY <3>1, <3>2, <3>3
  <2>6. ~Lost(w)'
    BY <2>2 DEF Lost, Popping
  <2>7. OwnTag(w)'
    <3>1. (a.tag + 1) + 0 <= Changes'
      BY SMT, <1>2, <1>3, <2>4
    <3>. QED  BY <2>2, <2>5, <2>6, <3>1 DEF OwnTag
  <2>8. Later(age[w], age'[w])
    BY SMT, <1>3, <2>3, <2>5 DEF Later, Index
  <2>. QED  BY <2>7, <2>8
<1>. QED  BY <1>4, <1>5

\* The queues of the others.
LEMMA OtherStep ==
  ASSUME Counting, EnoughTags, Inv, TagInv, NEW w \in Worker, WorkerNext(w), NEW v \in Worker \ {w}
  PROVE  OwnTag(v)' /\ (age'[v] = age[v] \/ Later(age[v], age'[v]))
<1>1. /\ Types /\ Types' /\ EndsInv(v) /\ ThiefInv(w) /\ TagMove(w) /\ OwnTag(v) /\ Alone(w, v)
  BY InvFacts, StepFacts, TagMoves DEF TagInv
<1>2. /\ Changes \in Nat /\ Changes' \in Nat /\ Changes <= Changes' /\ Changes' < TagSize
      /\ steals' = steals + 1 => Changes + 2 <= Changes'
      /\ Popped' # Popped => Changes + 1 <= Changes'
  BY ChangesStep
<1>3. age[v] \in Age /\ bottom[v] \in Index /\ Length(v) \in Index /\ age[v].tag \in Nat
  <2>1. age[v] \in Age /\ bottom[v] \in Index /\ Length(v) \in Index
    BY <1>1, EndFacts
  <2>. QED  BY <2>1, NextAges
<1>4. pc'[v] = pc[v] /\ loc'[v] = loc[v] /\ bottom'[v] = bottom[v]
  BY <1>1 DEF Alone
<1>5. CASE age'[v] = age[v]
  <2>1. Length(v)' = Length(v)
    BY <1>1, <1>5, AloneLength
  <2>2. Lost(v)' <=> Lost(v)
    BY <1>4, <2>1 DEF Lost, Popping
  <2>3. age[v].tag + (IF Lost(v) THEN 1 ELSE 0) <= Changes'
    <3>1. age[v].tag + (IF Lost(v) THEN 1 ELSE 0) <= Changes
      BY <1>1 DEF OwnTag
    <3>. QED  BY SMT, <1>2, <1>3, <3>1
  <2>4. OwnTag(v)'
    BY <1>1, <1>4, <1>5, <2>2, <2>3 DEF OwnTag
  <2>. QED  BY <1>5, <2>4
<1>6. CASE age'[v] # age[v]
  <2>1. Steals(w, v) /\ age'[v] = Stolen(age[v])
    BY <1>1, <1>6 DEF Alone, Steals
  <2>2. Length(v) > 0
    BY <1>1, <2>1, StealEnds
  <2>3. steals' = steals + 1
    BY <1>1, <1>6, <2>1 DEF TagMove, Steals
  <2>4. age[v].tag + 2 <= Changes' /\ age[v].tag + 1 < TagSize
    <3>1. age[v].tag + (IF Lost(v) THEN 1 ELSE 0) <= Changes
      BY <1>1 DEF OwnTag
    <3>. QED  BY SMT, <1>2, <1>3, <2>3, <3>1, TaskQueueAssumption
  <2>5. /\ age'[v].tag = age[v].tag \/ (age'[v].tag = age[v].tag + 1 /\ age'[v].top = 0)
        /\ age'[v].tag = age[v].tag + 1 => age[v].top = N - 1
        /\ Later(age[v], age'[v])
    BY <1>3, <2>1, <2>4, NextAges
  <2>6. age'[v].tag + (IF Lost(v)' THEN 1 ELSE 0) <= Changes'
    BY SMT, <1>2, <1>3, <2>4, <2>5
  <2>7. ASSUME pc[v] \in {"cas", "setAge"}
        PROVE  /\ loc[v].oldAge.tag <= age'[v].tag
               /\ \/ age'[v].tag <= loc[v].oldAge.tag
                  \/ age'[v].tag = loc[v].oldAge.tag + 1 /\ age'[v].top < bottom[v]
               /\ loc[v].oldAge.top = bottom[v]
    <3>1. Length(v) # 0
      BY SMT, <1>3, <2>2, TaskQueueAssumption DEF Index
    <3>2. pc[v] = "cas" /\ Length(v) <= 1
      BY <1>1, <2>7, <3>1 DEF EndsInv
    <3>3. Length(v) = 1
      BY SMT, <1>3, <3>1, <3>2, TaskQueueAssumption DEF Index
    <3>4. age[v] = loc[v].oldAge /\ age[v].top = bottom[v]
      BY <1>1, <3>2, <3>3, LastOne DEF EndsInv, Popping
    <3>. QED  BY SMT, <1>3, <2>5, <3>4, TaskQueueAssumption DEF Index
  <2>8. OwnTag(v)'
    BY <1>4, <2>6, <2>7 DEF OwnTag
  <2>. QED  BY <2>5, <2>8
<1>. QED  BY <1>5, <1>6

\* With enough tags, a step of a worker brings none around.
LEMMA TagStep ==
  ASSUME Counting, EnoughTags, Inv, TagInv, NEW w \in Worker, WorkerNext(w)
  PROVE  TagsFresh /\ TagInv'
<1>1. \A v \in Worker : OwnTag(v)' /\ (age'[v] = age[v] \/ Later(age[v], age'[v]))
  BY OwnStep, OtherStep
<1>2. /\ Types /\ Types' /\ TagMove(w) /\ \A v \in Worker \ {w} : Alone(w, v)
      /\ \A v \in Worker : SeenTag(v)
  BY InvFacts, StepFacts, TagMoves DEF TagInv
<1>3. \A v \in Worker : loc[v].k \in Worker /\ loc[v].oldAge \in Age
  BY <1>2, LocalsAre DEF Types, ControlType
<1>4. \A v \in Worker : age[v] \in Age /\ age'[v] \in Age
  BY <1>2 DEF Types, QueueType
<1>5. ASSUME NEW v \in Worker, pc[v] \in Stealing
      PROVE  /\ age'[loc[v].k] = loc[v].oldAge \/ Later(loc[v].oldAge, age'[loc[v].k])
             /\ age'[loc[v].k] # age[loc[v].k] => age'[loc[v].k] # loc[v].oldAge
  <2>1. /\ age'[loc[v].k] = age[loc[v].k] \/ Later(age[loc[v].k], age'[loc[v].k])
        /\ loc[v].oldAge = age[loc[v].k] \/ Later(loc[v].oldAge, age[loc[v].k])
    BY <1>1, <1>2, <1>3, <1>5 DEF SeenTag
  <2>2. loc[v].oldAge \in Age /\ age[loc[v].k] \in Age /\ age'[loc[v].k] \in Age
    BY <1>3, <1>4
  <2>. QED  BY SMT, <2>1, <2>2, TaskQueueAssumption DEF Later, Age
<1>6. TagsFresh
  BY <1>5 DEF TagsFresh
<1>7. ASSUME NEW v \in Worker \ {w} PROVE SeenTag(v)'
  <2>1. pc'[v] = pc[v] /\ loc'[v] = loc[v]
    BY <1>2 DEF Alone
  <2>. QED  BY <1>5, <2>1 DEF SeenTag
<1>8. SeenTag(w)'
  <2>. SUFFICES ASSUME pc'[w] \in Stealing
                PROVE  \/ loc'[w].oldAge = age'[loc'[w].k]
                       \/ Later(loc'[w].oldAge, age'[loc'[w].k])
    BY DEF SeenTag, Later
  <2>1. age' = age
    BY <1>2 DEF TagMove
  <2>2. CASE loc'[w].oldAge = age[loc'[w].k]
    BY <2>1, <2>2
  <2>3. CASE pc[w] \in Stealing /\ loc'[w].k = loc[w].k /\ loc'[w].oldAge = loc[w].oldAge
    BY <1>2, <2>1, <2>3 DEF SeenTag
  <2>. QED  BY <1>2, <2>2, <2>3 DEF TagMove
<1>. QED  BY <1>1, <1>6, <1>7, <1>8 DEF TagInv

LEMMA TagInit ==
  ASSUME Counting PROVE Init => TagInv
<1>. SUFFICES ASSUME Init, NEW w \in Worker PROVE OwnTag(w) /\ SeenTag(w)
  BY DEF TagInv
<1>1. pc[w] = "scan" /\ age[w].tag = 0 /\ steals = 0 /\ scanned = {}
  BY DEF Init
<1>2. Popped \in SUBSET Task
  BY <1>1 DEF Popped
<1>3. Cardinality(Popped) \in Nat
  BY <1>2, SubsetCount
<1>4. 0 + 0 <= Changes
  BY SMT, <1>1, <1>3 DEF Changes
<1>5. ~Lost(w)
  BY <1>1 DEF Lost, Popping
<1>. QED  BY <1>1, <1>4, <1>5 DEF OwnTag, SeenTag, Stealing

LEMMA TagNext ==
  ASSUME Counting, EnoughTags, Inv, TagInv, [Next]_vars
  PROVE  [TagsFresh]_vars /\ Inv' /\ TagInv'
<1>1. CASE UNCHANGED <<queueVars, overflow, pc, loc, workVars, steals>>
  <2>1. /\ elems' = elems /\ bottom' = bottom /\ age' = age /\ pc' = pc /\ loc' = loc
        /\ steals' = steals /\ hold' = hold /\ found' = found /\ scanned' = scanned
    BY <1>1 DEF queueVars, workVars
  <2>2. TagsFresh
    BY <2>1 DEF TagsFresh
  <2>3. Changes' = Changes /\ \A v \in Worker : Lost(v)' <=> Lost(v)
    BY <2>1 DEF Changes, Popped, Scans, Lost, Length, EndOf, Popping
  <2>4. TagInv'
    BY <2>1, <2>3 DEF TagInv, OwnTag, SeenTag, Later
  <2>. QED  BY <2>2, <2>4, NextInv
<1>2. ASSUME NEW w \in Worker, WorkerNext(w) PROVE TagsFresh /\ TagInv'
  BY <1>2, TagStep
<1>3. CASE \E w \in Worker : WorkerNext(w)
  BY <1>2, <1>3, NextInv
<1>. QED  BY <1>1, <1>3 DEF Next, vars, reset_for_reuse

----------------------------------------------------------------------------
(* The facts on cardinalities.                                             *)

INSTANCE FiniteSetTheorems

LEMMA WorkerCount == IsFiniteSet(Worker) /\ Cardinality(Worker) = NWorkers
<1>1. IsFiniteSet(0 .. NWorkers - 1)
      /\ Cardinality(0 .. NWorkers - 1) = IF 0 > NWorkers - 1 THEN 0 ELSE NWorkers - 1 - 0 + 1
  <2>1. 0 \in Int /\ NWorkers - 1 \in Int
    BY SMT, TaskQueueAssumption
  <2>. QED  BY <2>1, FS_Interval
<1>. QED  BY SMT, <1>1, TaskQueueAssumption DEF Worker

LEMMA WorkersCount ==
  ASSUME NEW S \in SUBSET Worker
  PROVE  /\ Cardinality(S) \in 0 .. NWorkers /\ (Cardinality(S) = NWorkers => S = Worker)
         /\ \A w \in Worker \ S : Cardinality(S \cup {w}) = Cardinality(S) + 1
         /\ \A w \in S : Cardinality(S \ {w}) = Cardinality(S) - 1
<1>1. IsFiniteSet(S) /\ Cardinality(S) <= NWorkers /\ (Cardinality(S) = NWorkers => S = Worker)
  BY WorkerCount, FS_Subset
<1>2. Cardinality(S) \in Nat
  BY <1>1, FS_CardinalityType
<1>3. \A w : Cardinality(S \cup {w}) = IF w \in S THEN Cardinality(S) ELSE Cardinality(S) + 1
  BY <1>1, FS_AddElement
<1>4. \A w : Cardinality(S \ {w}) = IF w \in S THEN Cardinality(S) - 1 ELSE Cardinality(S)
  BY <1>1, FS_RemoveElement
<1>5. Cardinality(S) \in 0 .. NWorkers
  BY SMT, <1>1, <1>2, TaskQueueAssumption
<1>. QED  BY <1>1, <1>3, <1>4, <1>5

LEMMA TaskCount == IsFiniteSet(Task) /\ Cardinality(Task) = MaxTasks
<1>1. IsFiniteSet(1 .. MaxTasks)
      /\ Cardinality(1 .. MaxTasks) = IF 1 > MaxTasks THEN 0 ELSE MaxTasks - 1 + 1
  <2>1. 1 \in Int /\ MaxTasks \in Int
    BY SMT, TaskQueueAssumption
  <2>. QED  BY <2>1, FS_Interval
<1>. QED  BY SMT, <1>1, TaskQueueAssumption DEF Task

LEMMA TasksCount ==
  ASSUME NEW S \in SUBSET Task, NEW T \in SUBSET Task, S \subseteq T
  PROVE  /\ Cardinality(S) \in Nat /\ Cardinality(T) \in Nat
         /\ Cardinality(S) <= Cardinality(T) /\ Cardinality(T) <= MaxTasks
         /\ S # T => Cardinality(S) # Cardinality(T)
<1>1. IsFiniteSet(T) /\ Cardinality(T) <= MaxTasks
  BY TaskCount, FS_Subset
<1>2. /\ IsFiniteSet(S) /\ Cardinality(S) <= Cardinality(T)
      /\ Cardinality(S) = Cardinality(T) => S = T
  BY <1>1, FS_Subset
<1>3. Cardinality(S) \in Nat /\ Cardinality(T) \in Nat
  BY <1>1, <1>2, FS_CardinalityType
<1>. QED  BY <1>1, <1>2, <1>3

LEMMA CountingHolds == Counting
<1>1. Cardinality({}) = 0
  BY FS_EmptySet
<1>. QED  BY <1>1, WorkerCount, WorkersCount, TasksCount DEF Counting

----------------------------------------------------------------------------
(* The theorems.  Each supposes that the tags do not come around while a    *)
(* thief is on its way, which is what the tags are for.                     *)

\* The invariant holds in every state that push(), pop_local(), pop_global(), the
\* overflow list and the terminator reach.
THEOREM Invariance == Spec /\ TagsLast => []Inv
<1>1. Init => Inv
  BY InitInv, CountingHolds
<1>2. Inv /\ [Next]_vars /\ [TagsFresh]_vars => Inv'
  BY NextInv, CountingHolds
<1>. QED  BY <1>1, <1>2, PTL DEF Spec, TagsLast

\* The variables keep their types: the ends stay inside the queue, and no more
\* than all workers ever offer to stop.
THEOREM TypeCorrect == Spec /\ TagsLast => []TypeOK
<1>1. Inv => TypeOK
  BY DEF Inv
<1>. QED  BY <1>1, Invariance, PTL

\* offer_termination() returns true to a worker when every task found has been
\* scanned, and not before.
THEOREM Termination == Spec /\ TagsLast => []NoEarlyTermination
<1>1. Inv => NoEarlyTermination
  BY InvImplies, CountingHolds
<1>. QED  BY <1>1, Invariance, PTL

\* The asserts of taskqueue.hpp, taskqueue.cpp and parNewGeneration.cpp hold: the
\* ends pass each other only inside pop_local(), a push of what was stolen, taken
\* from the overflow list or left of a popped array finds room, and all offers stand
\* at the end.
THEOREM AssertionsHold == Spec /\ TagsLast => []Assertions
<1>1. Inv => Assertions
  BY InvImplies, CountingHolds
<1>. QED  BY <1>1, Invariance, PTL

\* The lock-free queues, the overflow list and the terminator are a pool of tasks:
\* each task found is taken by one worker at a time and scanned once, and nobody
\* leaves before all are scanned, whatever pop_local() and pop_global() race for.
THEOREM Refinement == Spec /\ TagsLast => ImplementsPool
<1>1. Init => Pool!Init
  BY PoolInit, CountingHolds
<1>2. Inv /\ [Next]_vars => [Pool!Next]_(Pool!vars)
  BY PoolNext, CountingHolds
<1>. QED  BY <1>1, <1>2, Invariance, PTL DEF Spec, ImplementsPool, Pool!Spec

\* With more tags than tasks and twice as many as steals, what the theorems
\* suppose of the tags is so: the CAS of pop_global() succeeds for nobody whose
\* view of the queue is out of date.
THEOREM TagsSuffice == ASSUME EnoughTags PROVE Spec => TagsLast
<1>1. Init => Inv /\ TagInv
  BY InitInv, TagInit, CountingHolds
<1>2. Inv /\ TagInv /\ [Next]_vars => [TagsFresh]_vars /\ Inv' /\ TagInv'
  BY TagNext, CountingHolds
<1>. QED  BY <1>1, <1>2, PTL DEF Spec, TagsLast

=============================================================================
