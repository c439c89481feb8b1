------------------------ MODULE NativeMonitorProofs ------------------------
(***************************************************************************)
(* Proofs about NativeMonitor, for every set of threads and all operations.*)
(*                                                                         *)
(* The lemmas StepEffect and DataStep describe each step by its effect on  *)
(* the control state, the outer lock, OnDeck and the lists; the invariants *)
(* then follow from these effects alone.  ListEffect lists the ways in     *)
(* which a step moves a thread from one list to another; AtMostOneList is  *)
(* inductive together with OffLists, that a thread outside the slow paths  *)
(* is on no list at all.  NoteEffect does the same for the notifications:  *)
(* NoteInv follows a waiter from the WaitSet through the hands of its      *)
(* notifier to the cxq.  StrandInv says who sees to the succession while   *)
(* the lock is free, in terms of where the exiting threads are.            *)
(***************************************************************************)
EXTENDS NativeMonitor, SequenceTheorems, TLAPS

\* Zenon proves most leaves; those that say so are left to SMT.
USE ZenonT(40)

----------------------------------------------------------------------------
(* What the list operations do to the elements of a list and to its being  *)
(* free of duplicates: push at the head, pop of the head, and unlinking    *)
(* from the middle.                                                        *)

\* Lists of no and of one element.
LEMMA ShortLists ==
  ASSUME NEW x
  PROVE  /\ Range(<<>>) = {} /\ Range(<<x>>) = {x}
         /\ IsInjective(<<>>) /\ IsInjective(<<x>>)
  BY SMT DEF Range, IsInjective

\* Pushing x adds it to the elements, and duplicates nothing if x is new.
LEMMA PushFacts ==
  ASSUME NEW S, NEW s \in Seq(S), NEW x \in S
  PROVE  /\ <<x>> \o s \in Seq(S)
         /\ Range(<<x>> \o s) = {x} \cup Range(s)
         /\ IsInjective(s) /\ x \notin Range(s) => IsInjective(<<x>> \o s)
<1>. DEFINE r == <<x>> \o s
<1>1. r \in Seq(S) /\ Len(r) = Len(s) + 1 /\ r[1] = x
      /\ \A i \in 1..Len(s) : r[i+1] = s[i]
  BY SMT
<1>2. DOMAIN r = 1..Len(s)+1 /\ DOMAIN s = 1..Len(s) /\ Len(s) \in Nat
  BY SMT, <1>1
<1>3. \A i \in DOMAIN r : i = 1 \/ (i-1 \in DOMAIN s /\ r[i] = s[i-1])
  BY SMT, <1>1, <1>2
<1>. HIDE DEF r
<1>4. Range(r) = {x} \cup Range(s)
  <2>1. \A y \in Range(r) : y = x \/ y \in Range(s)
    BY SMT, <1>1, <1>3 DEF Range
  <2>2. x \in Range(r)
    BY SMT, <1>1, <1>2 DEF Range
  <2>3. \A y \in Range(s) : y \in Range(r)
    <3>. TAKE y \in Range(s)
    <3>1. PICK i \in DOMAIN s : y = s[i]
      BY DEF Range
    <3>2. i + 1 \in DOMAIN r /\ r[i+1] = y
      BY SMT, <3>1, <1>1, <1>2
    <3>. QED  BY <3>2 DEF Range
  <2>. QED  BY <2>1, <2>2, <2>3
<1>5. ASSUME IsInjective(s), x \notin Range(s) PROVE IsInjective(r)
  <2>. SUFFICES ASSUME NEW i \in DOMAIN r, NEW j \in DOMAIN r, r[i] = r[j] PROVE i = j
    BY DEF IsInjective
  <2>1. \A k \in DOMAIN s : s[k] # x
    BY <1>5 DEF Range
  <2>2. CASE i = 1 \/ j = 1
    BY ZenonT(30), <2>1, <2>2, <1>1, <1>2, <1>3
  <2>3. CASE i # 1 /\ j # 1
    BY SMT, <2>3, <1>2, <1>3, <1>5 DEF IsInjective
  <2>. QED  BY <2>2, <2>3
<1>. QED  BY <1>1, <1>4, <1>5 DEF r

\* Popping takes exactly the head out of a list without duplicates.
LEMMA PopFacts ==
  ASSUME NEW S, NEW s \in Seq(S), s # <<>>
  PROVE  /\ Tail(s) \in Seq(S) /\ Head(s) \in S
         /\ Range(s) = {Head(s)} \cup Range(Tail(s))
         /\ IsInjective(s) => IsInjective(Tail(s)) /\ Head(s) \notin Range(Tail(s))
<1>. DEFINE r == Tail(s)
<1>1. /\ r \in Seq(S) /\ Head(s) \in S /\ Len(s) \in Nat /\ Len(s) > 0
      /\ Len(r) = Len(s) - 1 /\ s[1] = Head(s)
      /\ \A i \in 1..Len(r) : r[i] = s[i+1]
  BY SMT
<1>2. DOMAIN r = 1..Len(s)-1 /\ DOMAIN s = 1..Len(s)
  BY SMT, <1>1
<1>. HIDE DEF r
<1>3. Range(s) = {Head(s)} \cup Range(r)
  <2>1. \A i \in DOMAIN s : i = 1 \/ (i-1 \in DOMAIN r /\ s[i] = r[i-1])
    BY SMT, <1>1, <1>2
  <2>2. \A y \in Range(s) : y = Head(s) \/ y \in Range(r)
    BY SMT, <2>1, <1>1 DEF Range
  <2>3. Head(s) \in Range(s)
    BY SMT, <1>1, <1>2 DEF Range
  <2>4. \A y \in Range(r) : y \in Range(s)
    <3>. TAKE y \in Range(r)
    <3>1. PICK i \in DOMAIN r : y = r[i]
      BY DEF Range
    <3>2. i + 1 \in DOMAIN s /\ s[i+1] = y
      BY SMT, <3>1, <1>1, <1>2
    <3>. QED  BY <3>2 DEF Range
  <2>. QED  BY <2>2, <2>3, <2>4
<1>4. ASSUME IsInjective(s) PROVE IsInjective(r) /\ Head(s) \notin Range(r)
  <2>1. IsInjective(r)
    <3>. SUFFICES ASSUME NEW i \in DOMAIN r, NEW j \in DOMAIN r, r[i] = r[j] PROVE i = j
      BY DEF IsInjective
    <3>1. i + 1 \in DOMAIN s /\ j + 1 \in DOMAIN s /\ s[i+1] = s[j+1]
      BY SMT, <1>1, <1>2
    <3>2. i + 1 = j + 1
      BY <3>1, <1>4 DEF IsInjective
    <3>. QED  BY SMT, <3>2, <1>2
  <2>2. ASSUME NEW i \in DOMAIN r, r[i] = Head(s) PROVE FALSE
    <3>1. i + 1 \in DOMAIN s /\ 1 \in DOMAIN s /\ s[i+1] = s[1]
      BY SMT, <1>1, <1>2, <2>2
    <3>2. i + 1 = 1
      BY <3>1, <1>4 DEF IsInjective
    <3>. QED  BY SMT, <3>2, <1>2
  <2>. QED  BY <2>1, <2>2 DEF Range
<1>. QED  BY <1>1, <1>3, <1>4 DEF r

\* Unlinking position k takes exactly that element out.
LEMMA RemoveFacts ==
  ASSUME NEW S, NEW s \in Seq(S), NEW k \in DOMAIN s, IsInjective(s)
  PROVE  /\ RemoveAt(s, k) \in Seq(S)
         /\ Range(RemoveAt(s, k)) = Range(s) \ {s[k]}
         /\ IsInjective(RemoveAt(s, k))
<1>. DEFINE a == SubSeq(s, 1, k-1)
            b == SubSeq(s, k+1, Len(s))
            r == a \o b
<1>1. k \in 1..Len(s) /\ Len(s) \in Nat /\ DOMAIN s = 1..Len(s)
  BY SMT
<1>2. a \in Seq(S) /\ Len(a) = k-1 /\ \A i \in 1..k-1 : a[i] = s[i]
  BY SMT, <1>1, SubSeqProperties
<1>3. b \in Seq(S) /\ Len(b) = Len(s) - k /\ \A i \in 1..Len(s)-k : b[i] = s[k+i]
  <2>1. CASE k = Len(s)
    BY SMT, <1>1, <2>1, SubSeqEmpty
  <2>2. CASE k < Len(s)
    BY SMTT(30), <1>1, <2>2, SubSeqProperties
  <2>. QED  BY SMT, <2>1, <2>2, <1>1
<1>. HIDE DEF a, b
<1>4. r \in Seq(S) /\ Len(r) = Len(s) - 1
      /\ \A i \in 1..Len(s)-1 : r[i] = IF i < k THEN s[i] ELSE s[i+1]
  <2>1. /\ r \in Seq(S) /\ Len(r) = Len(a) + Len(b)
        /\ \A i \in 1..Len(a)+Len(b) : r[i] = IF i <= Len(a) THEN a[i] ELSE b[i - Len(a)]
    BY <1>2, <1>3, ConcatProperties, Zenon
  <2>. HIDE DEF r
  <2>2. Len(r) = Len(s) - 1
    BY SMT, <2>1, <1>1, <1>2, <1>3
  <2>3. ASSUME NEW i \in 1..Len(s)-1 PROVE r[i] = IF i < k THEN s[i] ELSE s[i+1]
    <3>1. CASE i < k
      BY SMT, <3>1, <2>1, <2>2, <1>1, <1>2
    <3>2. CASE i >= k
      <4>1. r[i] = b[i - (k-1)] /\ i - (k-1) \in 1..Len(s)-k
        BY SMTT(30), <3>2, <2>1, <2>2, <1>1, <1>2
      <4>2. b[i - (k-1)] = s[k + (i - (k-1))] /\ k + (i - (k-1)) = i + 1
        BY SMT, <4>1, <1>1, <1>3
      <4>. QED  BY SMT, <4>1, <4>2, <3>2, <1>1
    <3>. QED  BY SMT, <3>1, <3>2, <1>1
  <2>. QED  BY <2>1, <2>2, <2>3
<1>. HIDE DEF r
<1>5. DOMAIN r = 1..Len(s)-1
  BY SMT, <1>1, <1>4
<1>6. Range(r) = Range(s) \ {s[k]}
  <2>1. \A i \in DOMAIN r : r[i] \in Range(s) /\ r[i] # s[k]
    <3>. TAKE i \in DOMAIN r
    <3>1. PICK j \in DOMAIN s : j # k /\ r[i] = s[j]
      <4>1. i \in 1..Len(s)-1 /\ r[i] = IF i < k THEN s[i] ELSE s[i+1]
        BY <1>4, <1>5
      <4>2. i \in DOMAIN s /\ i + 1 \in DOMAIN s
        BY SMT, <1>1, <4>1
      <4>3. CASE i < k  BY SMT, <1>1, <4>1, <4>2, <4>3
      <4>4. CASE ~(i < k)  BY SMT, <1>1, <4>1, <4>2, <4>4
      <4>. QED  BY <4>3, <4>4
    <3>. QED  BY <3>1 DEF Range, IsInjective
  <2>2. \A j \in DOMAIN s : j # k => s[j] \in Range(r)
    <3>. TAKE j \in DOMAIN s
    <3>. HAVE j # k
    <3>1. CASE j < k
      <4>1. j \in DOMAIN r /\ r[j] = s[j]
        BY SMT, <3>1, <1>1, <1>4, <1>5
      <4>. QED  BY <4>1 DEF Range
    <3>2. CASE j > k
      <4>1. j - 1 \in DOMAIN r /\ r[j-1] = s[j]
        BY SMT, <3>2, <1>1, <1>4, <1>5
      <4>. QED  BY <4>1 DEF Range
    <3>. QED  BY SMT, <3>1, <3>2, <1>1
  <2>. QED  BY <2>1, <2>2 DEF Range
<1>7. IsInjective(r)
  <2>. SUFFICES ASSUME NEW i \in DOMAIN r, NEW j \in DOMAIN r, r[i] = r[j] PROVE i = j
    BY DEF IsInjective
  <2>. DEFINE ii == IF i < k THEN i ELSE i + 1
              jj == IF j < k THEN j ELSE j + 1
  <2>1. ii \in DOMAIN s /\ jj \in DOMAIN s /\ s[ii] = s[jj]
    BY SMTT(30), <1>1, <1>4, <1>5
  <2>2. ii = jj
    BY <2>1 DEF IsInjective
  <2>. QED  BY SMT, <2>2, <1>1, <1>5
<1>. QED  BY <1>4, <1>6, <1>7 DEF r, a, b, RemoveAt

\* Concatenation keeps the elements of both lists.
LEMMA AppendFacts ==
  ASSUME NEW S, NEW r \in Seq(S), NEW s \in Seq(S)
  PROVE  Range(r) \cup Range(s) \subseteq Range(r \o s)
<1>1. /\ DOMAIN r = 1..Len(r) /\ DOMAIN s = 1..Len(s) /\ Len(r) \in Nat /\ Len(s) \in Nat
      /\ DOMAIN (r \o s) = 1..Len(r) + Len(s)
      /\ \A i \in 1..Len(r) : (r \o s)[i] = r[i]
      /\ \A i \in 1..Len(s) : (r \o s)[Len(r) + i] = s[i]
  BY SMT
<1>2. ASSUME NEW y \in Range(r) PROVE y \in Range(r \o s)
  <2>1. PICK i \in 1..Len(r) : y = r[i]
    BY <1>1 DEF Range
  <2>2. i \in DOMAIN (r \o s) /\ (r \o s)[i] = y
    BY SMT, <1>1, <2>1
  <2>. QED  BY <2>2 DEF Range
<1>3. ASSUME NEW y \in Range(s) PROVE y \in Range(r \o s)
  <2>1. PICK i \in 1..Len(s) : y = s[i]
    BY <1>1 DEF Range
  <2>2. Len(r) + i \in DOMAIN (r \o s) /\ (r \o s)[Len(r) + i] = y
    BY SMT, <1>1, <2>1
  <2>. QED  BY <2>2 DEF Range
<1>. QED  BY <1>2, <1>3

----------------------------------------------------------------------------
(* The effect of each step.                                                *)

Caller == {"idle", "raw", "waitLoop", "suspended", "notify", "notify_all"}

\* What pc and ret map, and that IUnlock() has a label to return to.
ControlInv ==
  /\ pc \in [Thread -> Label]
  /\ ret \in [Thread -> Caller]
  /\ \A t \in Thread :
       /\ pc[t] \in Releasing \cup {"drop"} =>
            ret[t] \in {"idle", "waitLoop", "suspended"}
       /\ pc[t] = "cs" => ret[t] = "idle"

\* A step of t moves no other thread.
ControlEffect(t) ==
  /\ pc' \in [Thread -> Label]
  /\ ret' \in [Thread -> Caller]
  /\ \A u \in Thread \ {t} : pc'[u] = pc[u] /\ ret'[u] = ret[u]
  /\ pc'[t] \in Releasing \cup {"drop"} =>
       ret'[t] \in {"idle", "waitLoop", "suspended"}
  /\ pc'[t] = "cs" => ret'[t] = "idle"

\* A step of t leaves the outer lock alone, takes it or drops it.
LockEffect(t) ==
  \/ LockByte' = LockByte /\ (pc[t] \in Locked <=> pc'[t] \in Locked)
  \/ ~LockByte /\ LockByte' = TRUE /\ pc[t] \notin Locked /\ pc'[t] \in Locked
  \/ pc[t] \in Locked /\ LockByte' = FALSE /\ pc'[t] \notin Locked

\* A step of t leaves OnDeck alone, locks it, passes it on, punts, or clears
\* it with the outer lock.
OnDeckEffect(t) ==
  \/ /\ OnDeck' = OnDeck
     /\ pc[t] \in Inner <=> pc'[t] \in Inner
     /\ pc'[t] \in HeirPresumptive => pc[t] \in HeirPresumptive \/ OnDeck = t
  \/ OnDeck = NULL /\ OnDeck' = LBIT /\ pc'[t] \in {"WakeOne", "drain"}
  \/ pc[t] = "passOnDeck" /\ OnDeck' = w[t] /\ pc'[t] = "recheckLock"
  \/ pc[t] = "Punt" /\ OnDeck' = NULL /\ pc'[t] = "resample"
  \/ pc[t] = "clearOnDeck" /\ OnDeck' = NULL /\ pc'[t] = "set_owner"

\* The types of everything but the control state.
DataType ==
  /\ LockByte \in BOOLEAN
  /\ cxq \in Seq(Thread) /\ EntryList \in Seq(Thread) /\ WaitSet \in Seq(Thread)
  /\ OnDeck \in Thread \cup {NULL, LBIT, THREADPTR}
  /\ WaitLock \in Thread \cup {NULL}
  /\ owner \in Thread \cup {NULL}
  /\ Event \in [Thread -> {0, 1}]
  /\ Notified \in [Thread -> BOOLEAN]
  /\ w \in [Thread -> Thread \cup {NULL, THREADPTR}]
  /\ List \in [Thread -> Seq(Thread)]
  /\ seen \in [Thread -> [locked : BOOLEAN, empty : BOOLEAN]]
  /\ WasOnWaitSet \in [Thread -> BOOLEAN]
  /\ timo \in [Thread -> BOOLEAN]
  /\ quiet \in BOOLEAN

\* A list is not empty where its head is taken, a detached segment is a local
\* of the draining thread, and w is a thread where it is put on a list.
LocalInv(t) ==
  /\ pc[t] = "WakeOne" => EntryList # <<>>
  /\ pc[t] = "setEntryList" <=> List[t] # <<>>
  /\ pc[t] \in {"passOnDeck", "notifyPush", "notifyFlag"} => w[t] \in Thread

DataInv ==
  /\ pc \in [Thread -> Label]
  /\ DataType
  /\ \A t \in Thread : LocalInv(t)

\* A step of t leaves the locals of the others alone, and the EntryList too
\* unless t holds the inner lock.
DataEffect(t) ==
  /\ pc[t] \notin {"WakeOne", "setEntryList"} => EntryList' = EntryList
  /\ \A u \in Thread \ {t} : w'[u] = w[u] /\ List'[u] = List[u]
  /\ pc'[t] = "WakeOne" => EntryList' # <<>>
  /\ pc'[t] = "setEntryList" <=> List'[t] # <<>>
  /\ pc'[t] \in {"passOnDeck", "notifyPush", "notifyFlag"} => w'[t] \in Thread

USE DEF At, Goto, Step, lockVars, queueVars, waitVars, locals

LEMMA RemoveType ==
  ASSUME NEW S, NEW s \in Seq(S), NEW k \in DOMAIN s
  PROVE  RemoveAt(s, k) \in Seq(S)
<1>1. SubSeq(s, 1, k-1) \in Seq(S) /\ SubSeq(s, k+1, Len(s)) \in Seq(S)
  BY SMT, SubSeqProperties
<1>. QED  BY SMT, <1>1 DEF RemoveAt

\* Every step has one of these effects, unless flag 32 is set.
LEMMA StepEffect ==
  ASSUME ControlInv, 32 \notin NativeMonitorFlags,
         NEW t \in Thread, Run(t) \/ Call(t)
  PROVE  ControlEffect(t) /\ LockEffect(t) /\ OnDeckEffect(t)
<1>. USE DEF Caller, ControlInv, ControlEffect, LockEffect, OnDeckEffect, Label, Locked,
     Releasing, Inner, HeirPresumptive
<1>1. CASE ILock(t)
  BY SMT, <1>1 DEF ILock, TryFastAndSpin, Free
<1>2. CASE ResetEvent(t)
  BY SMT, <1>2 DEF ResetEvent, InnerFree
<1>3. CASE RawReset(t)
  BY <1>3 DEF RawReset
<1>4. CASE AcquireOrPush(t, "AcquireOrPush", "awaitOnDeck")
  BY SMT, <1>4 DEF AcquireOrPush, Free, Pushed
<1>5. CASE AcquireOrPush(t, "rawPush", "reenter")
  BY SMT, <1>5 DEF AcquireOrPush, Free, Pushed
<1>6. CASE AwaitOnDeck(t)
  BY ZenonT(30), <1>6 DEF AwaitOnDeck, IsOnDeck
<1>7. CASE ParkCommon(t, "parkAwait", "awaitOnDeck")
  BY <1>7 DEF ParkCommon
<1>8. CASE ParkCommon(t, "parkOnDeck", "OnDeck_LOOP")
  BY <1>8 DEF ParkCommon
<1>9. CASE ParkCommon(t, "parkReenter", "reenter")
  BY <1>9 DEF ParkCommon
<1>10. CASE OnDeck_LOOP(t)
  BY SMT, <1>10 DEF OnDeck_LOOP, TryFastAndSpin, Free
<1>11. CASE ClearOnDeck(t)
  BY <1>11 DEF ClearOnDeck
<1>12. CASE SetOwner(t)
  BY ZenonT(30), <1>12 DEF SetOwner
<1>13. CASE unlock(t)
  BY <1>13 DEF unlock
<1>14. CASE DropLock(t)
  BY <1>14 DEF DropLock
<1>15. CASE ReadOnDeck(t)
  BY SMT, <1>15 DEF ReadOnDeck, Return
<1>16. CASE Unpark(t)
  BY ZenonT(30), <1>16 DEF Unpark, Unparked, Signalled, Return
<1>17. CASE SampleLockWord(t)
  BY <1>17 DEF SampleLockWord
<1>18. CASE SampleEntryList(t)
  BY SMT, <1>18 DEF SampleEntryList, Return, NoSample
<1>19. CASE Succession(t)
  BY SMT, <1>19 DEF Succession, InnerFree, Return
<1>20. CASE WakeOne(t)
  BY <1>20 DEF WakeOne
<1>21. CASE PassOnDeck(t)
  BY <1>21 DEF PassOnDeck
<1>22. CASE RecheckLock(t)
  BY SMT, <1>22 DEF RecheckLock, Return
<1>23. CASE Drain(t)
  BY SMT, <1>23 DEF Drain
<1>24. CASE SetEntryList(t)
  BY ZenonT(30), <1>24 DEF SetEntryList
<1>25. CASE Punt(t)
  BY ZenonT(30), <1>25 DEF Punt
<1>26. CASE Resample(t)
  BY SMT, <1>26 DEF Resample, Return
<1>27. CASE NotifyTest(t)
  BY SMT, <1>27 DEF NotifyTest
<1>28. CASE NotifyPop(t)
  BY SMT, <1>28 DEF NotifyPop, WaitSetTail, NotifyReturn
<1>29. CASE NotifyPush(t)
  BY <1>29 DEF NotifyPush, Pushed
<1>30. CASE NotifyFlag(t)
  BY SMT, <1>30 DEF NotifyFlag, NotifyReturn
<1>31. CASE NotifyUnpark(t)
  BY SMT, <1>31 DEF NotifyUnpark, Unparked, Signalled, NotifyReturn
<1>32. CASE WaitAdd(t)
  BY ZenonT(30), <1>32 DEF WaitAdd
<1>33. CASE WaitLoop(t)
  BY ZenonT(30), <1>33 DEF WaitLoop
<1>34. CASE WaitPark(t)
  BY SMT, <1>34 DEF WaitPark
<1>35. CASE WaitDone(t)
  BY ZenonT(30), <1>35 DEF WaitDone
<1>36. CASE WaitUnlink(t)
  BY SMT, <1>36 DEF WaitUnlink, Unlink
<1>37. CASE Reenter(t)
  BY SMT, <1>37 DEF Reenter, Free, IsOnDeck
<1>38. CASE lock(t)
  BY <1>38 DEF lock, Begin
<1>39. CASE try_lock(t)
  BY ZenonT(30), <1>39 DEF try_lock, Begin, Free
<1>40. CASE jvm_raw_lock(t)
  BY SMT, <1>40 DEF jvm_raw_lock, Begin, Free
<1>41. CASE SuspendAfterWait(t)
  BY ZenonT(30), <1>41 DEF SuspendAfterWait, Begin
<1>42. CASE Resumed(t)
  BY ZenonT(30), <1>42 DEF Resumed
<1>43. ASSUME NEW op \in Ops, notify(t, op)
      PROVE  ControlEffect(t) /\ LockEffect(t) /\ OnDeckEffect(t)
  BY ZenonT(30), <1>43 DEF notify, Begin
<1>44. ASSUME NEW op \in Ops, wait(t, op)
      PROVE  ControlEffect(t) /\ LockEffect(t) /\ OnDeckEffect(t)
  BY <1>44 DEF wait, Begin
<1>. QED
  BY ZenonT(30), <1>1, <1>2, <1>3, <1>4, <1>5, <1>6, <1>7, <1>8, <1>9, <1>10,
     <1>11, <1>12, <1>13, <1>14, <1>15, <1>16, <1>17, <1>18, <1>19, <1>20,
     <1>21, <1>22, <1>23, <1>24, <1>25, <1>26, <1>27, <1>28, <1>29, <1>30,
     <1>31, <1>32, <1>33, <1>34, <1>35, <1>36, <1>37, <1>38, <1>39, <1>40,
     <1>41, <1>42, <1>43, <1>44
  DEF Run, Call, Park

\* Taking the first waiter off the WaitSet.
LEMMA PopTypes ==
  ASSUME NEW s \in Seq(Thread), s # <<>>, NEW t \in Thread,
         NEW f \in [Thread -> Thread \cup {NULL, THREADPTR}]
  PROVE  /\ Tail(s) \in Seq(Thread)
         /\ [f EXCEPT ![t] = Head(s)] \in [Thread -> Thread \cup {NULL, THREADPTR}]
BY PopFacts

\* Every step keeps the types of the data.
LEMMA DataTypeStep ==
  ASSUME DataInv,
         NEW t \in Thread, Run(t) \/ Call(t)
  PROVE  DataType'
<1>. USE DEF DataInv, DataType, LocalInv
<1>1. CASE ILock(t)
  BY <1>1 DEF ILock, TryFastAndSpin, Free
<1>2. CASE ResetEvent(t)
  BY <1>2 DEF ResetEvent, InnerFree
<1>3. CASE RawReset(t)
  BY <1>3 DEF RawReset
<1>4. CASE AcquireOrPush(t, "AcquireOrPush", "awaitOnDeck")
  <2>1. Pushed(t) \in Seq(Thread)
    BY PushFacts DEF Pushed
  <2>. QED  BY ZenonT(30), <1>4, <2>1 DEF AcquireOrPush
<1>5. CASE AcquireOrPush(t, "rawPush", "reenter")
  <2>1. Pushed(t) \in Seq(Thread)
    BY PushFacts DEF Pushed
  <2>. QED  BY ZenonT(30), <1>5, <2>1 DEF AcquireOrPush
<1>6. CASE AwaitOnDeck(t)
  BY <1>6 DEF AwaitOnDeck, IsOnDeck
<1>7. CASE ParkCommon(t, "parkAwait", "awaitOnDeck")
  BY <1>7 DEF ParkCommon
<1>8. CASE ParkCommon(t, "parkOnDeck", "OnDeck_LOOP")
  BY <1>8 DEF ParkCommon
<1>9. CASE ParkCommon(t, "parkReenter", "reenter")
  BY <1>9 DEF ParkCommon
<1>10. CASE OnDeck_LOOP(t)
  BY <1>10 DEF OnDeck_LOOP, TryFastAndSpin, Free
<1>11. CASE ClearOnDeck(t)
  BY <1>11 DEF ClearOnDeck
<1>12. CASE SetOwner(t)
  BY <1>12 DEF SetOwner
<1>13. CASE unlock(t)
  BY <1>13 DEF unlock
<1>14. CASE DropLock(t)
  BY <1>14 DEF DropLock
<1>15. CASE ReadOnDeck(t)
  BY ZenonT(30), <1>15 DEF ReadOnDeck, Return
<1>16. CASE Unpark(t)
  BY <1>16 DEF Unpark, Unparked, Signalled, Return
<1>17. CASE SampleLockWord(t)
  BY <1>17 DEF SampleLockWord
<1>18. CASE SampleEntryList(t)
  BY <1>18 DEF SampleEntryList, Return, NoSample
<1>19. CASE Succession(t)
  BY <1>19 DEF Succession, InnerFree, Return
<1>20. CASE WakeOne(t)
  BY SMT, <1>20 DEF WakeOne
<1>21. CASE PassOnDeck(t)
  BY <1>21 DEF PassOnDeck
<1>22. CASE RecheckLock(t)
  BY <1>22 DEF RecheckLock, Return
<1>23. CASE Drain(t)
  <2>1. CASE cxq = <<>> \/ LockByte
    BY <1>23, <2>1 DEF Drain
  <2>2. CASE ~(cxq = <<>> \/ LockByte)
    <3>1. cxq' = <<>> /\ List' = [List EXCEPT ![t] = cxq]
      BY <1>23, <2>2 DEF Drain
    <3>2. cxq' \in Seq(Thread) /\ List' \in [Thread -> Seq(Thread)]
      BY SMT, <3>1
    <3>. QED  BY <1>23, <3>2 DEF Drain
  <2>. QED  BY <2>1, <2>2
<1>24. CASE SetEntryList(t)
  BY SMT, <1>24 DEF SetEntryList
<1>25. CASE Punt(t)
  BY <1>25 DEF Punt
<1>26. CASE Resample(t)
  BY <1>26 DEF Resample, Return
<1>27. CASE NotifyTest(t)
  BY <1>27 DEF NotifyTest
<1>28. CASE NotifyPop(t)
  <2>1. CASE WaitSet = <<>>
    BY <1>28, <2>1 DEF NotifyPop, NotifyReturn
  <2>2. CASE WaitSet # <<>>
    <3>1. /\ WaitSetTail \in Seq(Thread)
          /\ [w EXCEPT ![t] = Head(WaitSet)]
               \in [Thread -> Thread \cup {NULL, THREADPTR}]
      BY <2>2, PopTypes DEF WaitSetTail
    <3>2. /\ WaitLock' = t /\ WaitSet' = WaitSetTail
          /\ w' = [w EXCEPT ![t] = Head(WaitSet)]
      BY <1>28, <2>2 DEF NotifyPop
    <3>3. /\ WaitSet' \in Seq(Thread)
          /\ w' \in [Thread -> Thread \cup {NULL, THREADPTR}]
      BY <3>1, <3>2
    <3>. QED  BY <1>28, <3>2, <3>3 DEF NotifyPop
  <2>. QED  BY <2>1, <2>2
<1>29. CASE NotifyPush(t)
  BY SMT, <1>29 DEF NotifyPush, Pushed
<1>30. CASE NotifyFlag(t)
  BY ZenonT(30), <1>30 DEF NotifyFlag, NotifyReturn
<1>31. CASE NotifyUnpark(t)
  BY <1>31 DEF NotifyUnpark, Unparked, Signalled, NotifyReturn
<1>32. CASE WaitAdd(t)
  BY SMT, <1>32 DEF WaitAdd
<1>33. CASE WaitLoop(t)
  BY <1>33 DEF WaitLoop
<1>34. CASE WaitPark(t)
  BY <1>34 DEF WaitPark
<1>35. CASE WaitDone(t)
  BY <1>35 DEF WaitDone
<1>36. CASE WaitUnlink(t)
  <2>1. Unlink(t) => WaitSet' \in Seq(Thread)
    BY SMT, RemoveType DEF Unlink
  <2>. QED  BY ZenonT(30), <1>36, <2>1 DEF WaitUnlink
<1>37. CASE Reenter(t)
  BY <1>37 DEF Reenter, Free, IsOnDeck
<1>38. CASE lock(t)
  BY <1>38 DEF lock, Begin
<1>39. CASE try_lock(t)
  BY <1>39 DEF try_lock, Begin, Free
<1>40. CASE jvm_raw_lock(t)
  BY <1>40 DEF jvm_raw_lock, Begin, Free
<1>41. CASE SuspendAfterWait(t)
  BY <1>41 DEF SuspendAfterWait, Begin
<1>42. CASE Resumed(t)
  BY <1>42 DEF Resumed
<1>43. ASSUME NEW op \in Ops, notify(t, op)
      PROVE  DataType'
  BY <1>43 DEF notify, Begin
<1>44. ASSUME NEW op \in Ops, wait(t, op)
      PROVE  DataType'
  BY <1>44 DEF wait, Begin
<1>. QED
  BY ZenonT(30), <1>1, <1>2, <1>3, <1>4, <1>5, <1>6, <1>7, <1>8, <1>9, <1>10,
     <1>11, <1>12, <1>13, <1>14, <1>15, <1>16, <1>17, <1>18, <1>19, <1>20,
     <1>21, <1>22, <1>23, <1>24, <1>25, <1>26, <1>27, <1>28, <1>29, <1>30,
     <1>31, <1>32, <1>33, <1>34, <1>35, <1>36, <1>37, <1>38, <1>39, <1>40,
     <1>41, <1>42, <1>43, <1>44
  DEF Run, Call, Park

\* Every step has this effect on the lists and locals.
LEMMA DataEffectLemma ==
  ASSUME ControlInv, DataInv,
         NEW t \in Thread, Run(t) \/ Call(t)
  PROVE  DataEffect(t)
<1>. USE DEF ControlInv, DataInv, DataType, DataEffect, LocalInv, Releasing, Inner
<1>1. CASE ILock(t)
  BY ZenonT(30), <1>1 DEF ILock, TryFastAndSpin, Free
<1>2. CASE ResetEvent(t)
  BY ZenonT(30), <1>2 DEF ResetEvent, InnerFree
<1>3. CASE RawReset(t)
  BY <1>3 DEF RawReset
<1>4. CASE AcquireOrPush(t, "AcquireOrPush", "awaitOnDeck")
  BY <1>4 DEF AcquireOrPush, Free, Pushed
<1>5. CASE AcquireOrPush(t, "rawPush", "reenter")
  BY <1>5 DEF AcquireOrPush, Free, Pushed
<1>6. CASE AwaitOnDeck(t)
  BY <1>6 DEF AwaitOnDeck, IsOnDeck
<1>7. CASE ParkCommon(t, "parkAwait", "awaitOnDeck")
  BY <1>7 DEF ParkCommon
<1>8. CASE ParkCommon(t, "parkOnDeck", "OnDeck_LOOP")
  BY <1>8 DEF ParkCommon
<1>9. CASE ParkCommon(t, "parkReenter", "reenter")
  BY <1>9 DEF ParkCommon
<1>10. CASE OnDeck_LOOP(t)
  BY <1>10 DEF OnDeck_LOOP, TryFastAndSpin, Free
<1>11. CASE ClearOnDeck(t)
  BY <1>11 DEF ClearOnDeck
<1>12. CASE SetOwner(t)
  BY <1>12 DEF SetOwner
<1>13. CASE unlock(t)
  BY <1>13 DEF unlock
<1>14. CASE DropLock(t)
  BY <1>14 DEF DropLock
<1>15. CASE ReadOnDeck(t)
  BY ZenonT(30), <1>15 DEF ReadOnDeck, Return
<1>16. CASE Unpark(t)
  BY <1>16 DEF Unpark, Unparked, Signalled, Return
<1>17. CASE SampleLockWord(t)
  BY <1>17 DEF SampleLockWord
<1>18. CASE SampleEntryList(t)
  BY ZenonT(30), <1>18 DEF SampleEntryList, Return, NoSample
<1>19. CASE Succession(t)
  BY ZenonT(30), <1>19 DEF Succession, InnerFree, Return
<1>20. CASE WakeOne(t)
  BY SMT, <1>20 DEF WakeOne
<1>21. CASE PassOnDeck(t)
  BY <1>21 DEF PassOnDeck
<1>22. CASE RecheckLock(t)
  BY ZenonT(30), <1>22 DEF RecheckLock, Return
<1>23. CASE Drain(t)
  BY ZenonT(30), <1>23 DEF Drain
<1>24. CASE SetEntryList(t)
  BY <1>24 DEF SetEntryList
<1>25. CASE Punt(t)
  BY <1>25 DEF Punt
<1>26. CASE Resample(t)
  BY ZenonT(30), <1>26 DEF Resample, Return
<1>27. CASE NotifyTest(t)
  BY SMT, <1>27 DEF NotifyTest
<1>28. CASE NotifyPop(t)
  <2>1. WaitSet # <<>> => WaitSetTail \in Seq(Thread) /\ Head(WaitSet) \in Thread
    BY PopFacts DEF WaitSetTail
  <2>. QED  BY SMTT(30), <1>28, <2>1 DEF NotifyPop, NotifyReturn
<1>29. CASE NotifyPush(t)
  BY <1>29 DEF NotifyPush, Pushed
<1>30. CASE NotifyFlag(t)
  BY SMT, <1>30 DEF NotifyFlag, NotifyReturn
<1>31. CASE NotifyUnpark(t)
  BY SMT, <1>31 DEF NotifyUnpark, Unparked, Signalled, NotifyReturn
<1>32. CASE WaitAdd(t)
  BY <1>32 DEF WaitAdd
<1>33. CASE WaitLoop(t)
  BY <1>33 DEF WaitLoop
<1>34. CASE WaitPark(t)
  BY <1>34 DEF WaitPark
<1>35. CASE WaitDone(t)
  BY <1>35 DEF WaitDone
<1>36. CASE WaitUnlink(t)
  BY ZenonT(30), <1>36 DEF WaitUnlink, Unlink
<1>37. CASE Reenter(t)
  BY <1>37 DEF Reenter, Free, IsOnDeck
<1>38. CASE lock(t)
  BY <1>38 DEF lock, Begin
<1>39. CASE try_lock(t)
  BY <1>39 DEF try_lock, Begin, Free
<1>40. CASE jvm_raw_lock(t)
  BY <1>40 DEF jvm_raw_lock, Begin, Free
<1>41. CASE SuspendAfterWait(t)
  BY <1>41 DEF SuspendAfterWait, Begin
<1>42. CASE Resumed(t)
  BY <1>42 DEF Resumed
<1>43. ASSUME NEW op \in Ops, notify(t, op)
      PROVE  DataEffect(t)
  BY <1>43 DEF notify, Begin
<1>44. ASSUME NEW op \in Ops, wait(t, op)
      PROVE  DataEffect(t)
  BY <1>44 DEF wait, Begin
<1>. QED
  BY ZenonT(30), <1>1, <1>2, <1>3, <1>4, <1>5, <1>6, <1>7, <1>8, <1>9, <1>10,
     <1>11, <1>12, <1>13, <1>14, <1>15, <1>16, <1>17, <1>18, <1>19, <1>20,
     <1>21, <1>22, <1>23, <1>24, <1>25, <1>26, <1>27, <1>28, <1>29, <1>30,
     <1>31, <1>32, <1>33, <1>34, <1>35, <1>36, <1>37, <1>38, <1>39, <1>40,
     <1>41, <1>42, <1>43, <1>44
  DEF Run, Call, Park

----------------------------------------------------------------------------
(* The first inductive invariant: types, the outer lock, the inner lock.   *)

IInv == ControlInv /\ DataInv /\ MutualExclusion /\ OneConsumer /\ OnDeckIsSelf

LEMMA InitIInv == Init => IInv
<1>. SUFFICES ASSUME Init PROVE IInv
  OBVIOUS
<1>1. ControlInv
  BY DEF Init, ControlInv, Caller, Label, Releasing, Inner
<1>2. DataInv
  <2>1. DataType
    <3>1. seen \in [Thread -> [locked : BOOLEAN, empty : BOOLEAN]]
      BY DEF Init, NoSample
    <3>2. LockByte \in BOOLEAN /\ quiet \in BOOLEAN
      BY DEF Init
    <3>3. Notified \in [Thread -> BOOLEAN] /\ WasOnWaitSet \in [Thread -> BOOLEAN]
          /\ timo \in [Thread -> BOOLEAN]
      BY DEF Init
    <3>4. cxq \in Seq(Thread) /\ EntryList \in Seq(Thread) /\ WaitSet \in Seq(Thread)
          /\ List \in [Thread -> Seq(Thread)]
      BY SMT DEF Init
    <3>. QED  BY <3>1, <3>2, <3>3, <3>4 DEF Init, DataType
  <2>2. \A t \in Thread : LocalInv(t)
    BY DEF Init, LocalInv
  <2>. QED  BY <1>1, <2>1, <2>2 DEF ControlInv, DataInv
<1>3. MutualExclusion
  BY DEF Init, MutualExclusion, HasLock, Locked
<1>4. OneConsumer /\ OnDeckIsSelf
  BY ConstantsAssumption DEF Init, OneConsumer, OnDeckIsSelf, Inner, HeirPresumptive
<1>. QED  BY <1>1, <1>2, <1>3, <1>4 DEF IInv

LEMMA StepIInv ==
  ASSUME IInv, 32 \notin NativeMonitorFlags,
         NEW t \in Thread, Run(t) \/ Call(t)
  PROVE  IInv'
<1>1. /\ ControlInv /\ DataInv /\ MutualExclusion /\ OneConsumer /\ OnDeckIsSelf
      /\ pc \in [Thread -> Label] /\ w \in [Thread -> Thread \cup {NULL, THREADPTR}]
      /\ LockByte \in BOOLEAN
  BY DEF IInv, DataInv, DataType
<1>2. ControlEffect(t) /\ LockEffect(t) /\ OnDeckEffect(t)
  BY <1>1, StepEffect
<1>3. DataType' /\ DataEffect(t)
  BY <1>1, DataTypeStep, DataEffectLemma
<1>4. /\ pc' \in [Thread -> Label]
      /\ \A u \in Thread \ {t} : pc'[u] = pc[u]
  BY <1>2 DEF ControlEffect
<1>5. ControlInv'
  <2>1. pc' \in [Thread -> Label] /\ ret' \in [Thread -> Caller]
    BY <1>2 DEF ControlEffect
  <2>2. ASSUME NEW u \in Thread
        PROVE  /\ pc'[u] \in Releasing \cup {"drop"} =>
                    ret'[u] \in {"idle", "waitLoop", "suspended"}
               /\ pc'[u] = "cs" => ret'[u] = "idle"
    <3>1. CASE u = t
      BY <3>1, <1>2 DEF ControlEffect
    <3>2. CASE u # t
      <4>1. pc'[u] = pc[u] /\ ret'[u] = ret[u]
        BY <3>2, <1>2 DEF ControlEffect
      <4>. QED  BY <4>1, <1>1 DEF ControlInv
    <3>. QED  BY <3>1, <3>2
  <2>. QED  BY <2>1, <2>2 DEF ControlInv
<1>6. MutualExclusion'
  <2>1. CASE LockByte' = LockByte /\ (pc[t] \in Locked <=> pc'[t] \in Locked)
    BY <2>1, <1>1, <1>4 DEF MutualExclusion, HasLock
  <2>2. CASE ~LockByte /\ LockByte' = TRUE /\ pc[t] \notin Locked /\ pc'[t] \in Locked
    BY SMT, <2>2, <1>1, <1>4 DEF MutualExclusion, HasLock
  <2>3. CASE pc[t] \in Locked /\ LockByte' = FALSE /\ pc'[t] \notin Locked
    BY <2>3, <1>1, <1>4 DEF MutualExclusion, HasLock
  <2>. QED  BY <1>2, <2>1, <2>2, <2>3 DEF LockEffect
<1>7. OneConsumer' /\ OnDeckIsSelf'
  <2>. USE ConstantsAssumption
  <2>1. CASE /\ OnDeck' = OnDeck
             /\ pc[t] \in Inner <=> pc'[t] \in Inner
             /\ pc'[t] \in HeirPresumptive => pc[t] \in HeirPresumptive \/ OnDeck = t
    BY <2>1, <1>1, <1>4 DEF OneConsumer, OnDeckIsSelf
  <2>2. CASE OnDeck = NULL /\ OnDeck' = LBIT /\ pc'[t] \in {"WakeOne", "drain"}
    <3>1. pc'[t] \in Inner /\ pc'[t] \notin HeirPresumptive
      BY <2>2 DEF Inner, HeirPresumptive
    <3>. QED  BY <2>2, <3>1, <1>1, <1>4 DEF OneConsumer, OnDeckIsSelf
  <2>3. CASE pc[t] = "passOnDeck" /\ OnDeck' = w[t] /\ pc'[t] = "recheckLock"
    <3>1. pc[t] \in Inner /\ pc'[t] \notin Inner /\ pc'[t] \notin HeirPresumptive
      BY <2>3 DEF Inner, HeirPresumptive
    <3>2. OnDeck' # LBIT
      BY SMT, <2>3, <1>1
    <3>. QED  BY SMT, <2>3, <3>1, <3>2, <1>1, <1>4 DEF OneConsumer, OnDeckIsSelf
  <2>4. CASE pc[t] = "Punt" /\ OnDeck' = NULL /\ pc'[t] = "resample"
    <3>1. pc[t] \in Inner /\ pc'[t] \notin Inner /\ pc'[t] \notin HeirPresumptive
      BY <2>4 DEF Inner, HeirPresumptive
    <3>. QED  BY SMT, <2>4, <3>1, <1>1, <1>4 DEF OneConsumer, OnDeckIsSelf
  <2>5. CASE pc[t] = "clearOnDeck" /\ OnDeck' = NULL /\ pc'[t] = "set_owner"
    <3>1. /\ pc[t] \in HeirPresumptive /\ pc[t] \notin Inner
          /\ pc'[t] \notin Inner /\ pc'[t] \notin HeirPresumptive
      BY <2>5 DEF Inner, HeirPresumptive
    <3>2. OnDeck = t
      BY <3>1, <1>1 DEF OnDeckIsSelf
    <3>. QED  BY <2>5, <3>1, <3>2, <1>1, <1>4 DEF OneConsumer, OnDeckIsSelf
  <2>. QED  BY <1>2, <2>1, <2>2, <2>3, <2>4, <2>5 DEF OnDeckEffect
<1>8. ASSUME NEW u \in Thread PROVE LocalInv(u)'
  <2>1. CASE u = t
    BY <2>1, <1>3 DEF DataEffect, LocalInv
  <2>2. CASE u # t
    <3>1. pc'[u] = pc[u] /\ w'[u] = w[u] /\ List'[u] = List[u] /\ LocalInv(u)
      BY <2>2, <1>1, <1>3, <1>4 DEF DataEffect, DataInv
    <3>2. pc[u] = "WakeOne" => pc[t] \notin {"WakeOne", "setEntryList"}
      BY <2>2, <1>1 DEF OneConsumer, Inner
    <3>. QED  BY <3>1, <3>2, <1>3 DEF DataEffect, LocalInv
  <2>. QED  BY <2>1, <2>2
<1>. QED  BY <1>3, <1>4, <1>5, <1>6, <1>7, <1>8 DEF IInv, DataInv

LEMMA OtherIInv ==
  ASSUME IInv, Quiesce \/ UNCHANGED vars PROVE IInv'
<1>1. /\ UNCHANGED <<LockByte, cxq, EntryList, OnDeck, WaitSet, WaitLock, Notified>>
      /\ UNCHANGED <<owner, Event, pc, ret, w, List, seen, WasOnWaitSet, timo>>
      /\ quiet' \in BOOLEAN
  BY DEF IInv, DataInv, DataType, Quiesce, vars
<1>2. ControlInv'
  BY <1>1 DEF IInv, ControlInv
<1>3. DataInv'
  BY <1>1 DEF IInv, DataInv, DataType, LocalInv
<1>4. MutualExclusion' /\ OneConsumer' /\ OnDeckIsSelf'
  BY <1>1 DEF IInv, MutualExclusion, HasLock, OneConsumer, OnDeckIsSelf
<1>. QED  BY <1>2, <1>3, <1>4 DEF IInv

\* The inductive invariant of all threads, with the barging flag 32 off.
THEOREM Invariance ==
  ASSUME 32 \notin NativeMonitorFlags PROVE Spec => []IInv
<1>1. Init => IInv
  BY InitIInv
<1>2. IInv /\ [Next]_vars => IInv'
  BY StepIInv, OtherIInv DEF Next
<1>. QED  BY <1>1, <1>2, PTL DEF Spec

\* All variables keep their types: the locals of mutex.cpp's operations, the
\* lists, and the permits of the ParkEvents, which never count above one.
THEOREM TypeCorrect ==
  ASSUME 32 \notin NativeMonitorFlags PROVE Spec => []TypeOK
<1>1. IInv => TypeOK
  BY DEF IInv, ControlInv, DataInv, DataType, TypeOK, Caller
<1>. QED  BY <1>1, Invariance, PTL

\* At most one thread has the lock, and the LockByte says whether one has,
\* for any number of threads.
THEOREM Exclusion ==
  ASSUME 32 \notin NativeMonitorFlags PROVE Spec => []MutualExclusion
<1>1. IInv => MutualExclusion
  BY DEF IInv
<1>. QED  BY <1>1, Invariance, PTL

\* At most one exiting thread manipulates the EntryList or detaches the cxq.
THEOREM SingleConsumer ==
  ASSUME 32 \notin NativeMonitorFlags PROVE Spec => []OneConsumer
<1>1. IInv => OneConsumer
  BY DEF IInv
<1>. QED  BY <1>1, Invariance, PTL

\* The assertions of ILock()'s OnDeck loop hold.
THEOREM OnDeckAssertions ==
  ASSUME 32 \notin NativeMonitorFlags PROVE Spec => []OnDeckIsSelf
<1>1. IInv => OnDeckIsSelf
  BY DEF IInv
<1>. QED  BY <1>1, Invariance, PTL

\* "Once OnDeck, a thread stays OnDeck until it acquires the lock."
THEOREM OnDeckStability ==
  ASSUME 32 \notin NativeMonitorFlags PROVE Spec => OnDeckStable
<1>. DEFINE Stable == \A t \in Thread :
              OnDeck = t /\ OnDeck' # t => HasLock(t) /\ OnDeck' = NULL
<1>1. ASSUME IInv, NEW u \in Thread, Run(u) \/ Call(u) PROVE Stable
  <2>1. ControlInv /\ OneConsumer /\ OnDeckIsSelf
    BY <1>1 DEF IInv
  <2>2. OnDeckEffect(u)
    BY <1>1, <2>1, StepEffect
  <2>3. OnDeck = LBIT \/ pc[u] \notin Inner
    BY <2>1 DEF OneConsumer
  <2>4. "passOnDeck" \in Inner /\ "Punt" \in Inner
    BY DEF Inner
  <2>5. pc[u] = "clearOnDeck" => OnDeck = u /\ HasLock(u)
    BY <2>1 DEF OnDeckIsSelf, HeirPresumptive, HasLock, Locked
  <2>. QED  BY SMT, <2>2, <2>3, <2>4, <2>5, ConstantsAssumption DEF OnDeckEffect
<1>2. IInv /\ [Next]_vars => [Stable]_vars
  <2>1. Quiesce => OnDeck' = OnDeck
    BY DEF Quiesce
  <2>. QED  BY <1>1, <2>1 DEF Next
<1>. QED  BY <1>2, Invariance, PTL DEF Spec, OnDeckStable

----------------------------------------------------------------------------
(* The lists: a ParkEvent is on at most one of them.                       *)

\* The points of mutex.cpp at which a thread's ParkEvent is on no list.
OffLabels ==
  { "idle", "ILock", "reset", "AcquireOrPush", "rawReset", "rawPush",
    "set_owner", "cs", "waitAdd", "notify", "notifyPop", "notifyPush",
    "notifyFlag", "notifyUnpark", "suspended" }

Off(t) == \/ pc[t] \in OffLabels
          \/ pc[t] \in Releasing \cup {"drop"} /\ ret[t] # "waitLoop"

Transit(t) == Range(InTransit(t))

OffLists ==
  \A t \in Thread : Off(t) =>
    /\ t \notin Listed /\ OnDeck # t
    /\ \A u \in Thread : t \notin Transit(u)

\* A thread that is about to give up the lock in wait() is on the WaitSet.
Joined ==
  \A t \in Thread : pc[t] = "drop" /\ ret[t] = "waitLoop" => t \in Range(WaitSet)

ListInv == AtMostOneList /\ OffLists /\ Joined

\* A step of t leaves the control state and the locals of the others alone.
Frame(t) ==
  \A u \in Thread \ {t} : /\ pc'[u] = pc[u] /\ ret'[u] = ret[u]
                          /\ w'[u] = w[u] /\ List'[u] = List[u]

SameTransit(t) == InTransit(t)' = InTransit(t)
NoLonger(t) == Off(t)' => Off(t)

\* The ways in which a step of t may change the lists.
KeepLists(t) ==
  /\ UNCHANGED <<cxq, EntryList, WaitSet, OnDeck>> /\ SameTransit(t) /\ NoLonger(t)
EnqueueSelf(t) ==
  /\ Off(t) /\ ~Off(t)' /\ SameTransit(t)
  /\ \/ cxq' = <<t>> \o cxq /\ WaitSet' = WaitSet
     \/ WaitSet' = <<t>> \o WaitSet /\ cxq' = cxq
  /\ UNCHANGED <<EntryList, OnDeck>>
LeaveOnDeck(t) ==
  /\ OnDeck = t /\ OnDeck' = NULL /\ SameTransit(t)
  /\ UNCHANGED <<cxq, EntryList, WaitSet>>
InnerLock(t) ==
  /\ OnDeck' \in {NULL, LBIT} /\ SameTransit(t) /\ NoLonger(t)
  /\ UNCHANGED <<cxq, EntryList, WaitSet>>
TakeHead(t) ==
  /\ InTransit(t) = <<>> /\ NoLonger(t)
  /\ \/ /\ EntryList # <<>> /\ InTransit(t)' = <<Head(EntryList)>>
        /\ EntryList' = Tail(EntryList) /\ WaitSet' = WaitSet
     \/ /\ WaitSet # <<>> /\ InTransit(t)' = <<Head(WaitSet)>>
        /\ WaitSet' = Tail(WaitSet) /\ EntryList' = EntryList
  /\ UNCHANGED <<cxq, OnDeck>>
PutOnDeck(t) ==
  /\ w[t] \in Thread /\ InTransit(t) = <<w[t]>> /\ OnDeck' = w[t]
  /\ InTransit(t)' = <<>> /\ NoLonger(t)
  /\ UNCHANGED <<cxq, EntryList, WaitSet>>
PutOnCxq(t) ==
  /\ w[t] \in Thread /\ InTransit(t) = <<w[t]>> /\ cxq' = <<w[t]>> \o cxq
  /\ InTransit(t)' = <<>> /\ NoLonger(t)
  /\ UNCHANGED <<EntryList, WaitSet, OnDeck>>
DetachCxq(t) ==
  /\ InTransit(t) = <<>> /\ InTransit(t)' = cxq /\ cxq' = <<>> /\ NoLonger(t)
  /\ UNCHANGED <<EntryList, WaitSet, OnDeck>>
AttachEntryList(t) ==
  /\ pc[t] = "setEntryList"
  /\ EntryList' = InTransit(t) /\ InTransit(t)' = <<>> /\ NoLonger(t)
  /\ UNCHANGED <<cxq, WaitSet, OnDeck>>
LeaveWaitSet(t) ==
  /\ Unlink(t) /\ SameTransit(t)
  /\ UNCHANGED <<cxq, EntryList, OnDeck>>

ListEffect(t) ==
  \/ KeepLists(t) \/ EnqueueSelf(t) \/ LeaveOnDeck(t) \/ InnerLock(t)
  \/ TakeHead(t) \/ PutOnDeck(t) \/ PutOnCxq(t) \/ DetachCxq(t)
  \/ AttachEntryList(t) \/ LeaveWaitSet(t)

LEMMA TransitFacts ==
  ASSUME NEW t \in Thread, LocalInv(t), List[t] \in Seq(Thread)
  PROVE  /\ pc[t] \in {"passOnDeck", "notifyPush"} => InTransit(t) = <<w[t]>>
         /\ pc[t] = "setEntryList" => InTransit(t) = List[t]
         /\ pc[t] \notin {"passOnDeck", "notifyPush", "setEntryList"} =>
              InTransit(t) = <<>>
  BY DEF LocalInv, InTransit

\* Every step moves at most one thread, or one detached segment.
LEMMA ListStep ==
  ASSUME IInv, IInv', 32 \notin NativeMonitorFlags,
         NEW t \in Thread, Run(t) \/ Call(t)
  PROVE  ListEffect(t) /\ Frame(t)
<1>a. /\ ControlInv /\ ControlInv' /\ LocalInv(t) /\ LocalInv(t)' /\ OnDeckIsSelf
      /\ w \in [Thread -> Thread \cup {NULL, THREADPTR}]
      /\ List \in [Thread -> Seq(Thread)] /\ List' \in [Thread -> Seq(Thread)]
  BY DEF IInv, DataInv, DataType
<1>b. /\ pc[t] \in {"passOnDeck", "notifyPush"} => InTransit(t) = <<w[t]>>
      /\ pc[t] = "setEntryList" => InTransit(t) = List[t]
      /\ pc[t] \notin {"passOnDeck", "notifyPush", "setEntryList"} =>
           InTransit(t) = <<>>
  BY <1>a, TransitFacts
<1>c. /\ pc'[t] \in {"passOnDeck", "notifyPush"} => InTransit(t)' = <<w'[t]>>
      /\ pc'[t] = "setEntryList" => InTransit(t)' = List'[t]
      /\ pc'[t] \notin {"passOnDeck", "notifyPush", "setEntryList"} =>
           InTransit(t)' = <<>>
  BY <1>a DEF LocalInv, InTransit
<1>. USE <1>a, <1>b, <1>c
     DEF ControlInv, LocalInv, Frame, SameTransit, NoLonger, Off, OffLabels,
         Releasing, Inner, Caller
<1>1. CASE ILock(t)
  BY ZenonT(30), <1>1 DEF ILock, TryFastAndSpin, Free, KeepLists, ListEffect
<1>2. CASE ResetEvent(t)
  BY <1>2 DEF ResetEvent, InnerFree, KeepLists, ListEffect
<1>3. CASE RawReset(t)
  BY <1>3 DEF RawReset, KeepLists, ListEffect
<1>4. CASE AcquireOrPush(t, "AcquireOrPush", "awaitOnDeck")
  BY SMT, <1>4 DEF AcquireOrPush, Free, Pushed, KeepLists, EnqueueSelf, ListEffect
<1>5. CASE AcquireOrPush(t, "rawPush", "reenter")
  BY SMT, <1>5 DEF AcquireOrPush, Free, Pushed, KeepLists, EnqueueSelf, ListEffect
<1>6. CASE AwaitOnDeck(t)
  BY <1>6 DEF AwaitOnDeck, IsOnDeck, KeepLists, ListEffect
<1>7. CASE ParkCommon(t, "parkAwait", "awaitOnDeck")
  BY <1>7 DEF ParkCommon, KeepLists, ListEffect
<1>8. CASE ParkCommon(t, "parkOnDeck", "OnDeck_LOOP")
  BY <1>8 DEF ParkCommon, KeepLists, ListEffect
<1>9. CASE ParkCommon(t, "parkReenter", "reenter")
  BY <1>9 DEF ParkCommon, KeepLists, ListEffect
<1>10. CASE OnDeck_LOOP(t)
  BY SMT, <1>10 DEF OnDeck_LOOP, TryFastAndSpin, Free, KeepLists, ListEffect
<1>11. CASE ClearOnDeck(t)
  BY <1>11 DEF ClearOnDeck, OnDeckIsSelf, HeirPresumptive, LeaveOnDeck, ListEffect
<1>12. CASE SetOwner(t)
  BY ZenonT(30), <1>12 DEF SetOwner, KeepLists, ListEffect
<1>13. CASE unlock(t)
  BY <1>13 DEF unlock, KeepLists, ListEffect
<1>14. CASE DropLock(t)
  BY <1>14 DEF DropLock, KeepLists, ListEffect
<1>15. CASE ReadOnDeck(t)
  BY SMT, <1>15 DEF ReadOnDeck, Return, KeepLists, ListEffect
<1>16. CASE Unpark(t)
  BY <1>16 DEF Unpark, Unparked, Return, KeepLists, ListEffect
<1>17. CASE SampleLockWord(t)
  BY <1>17 DEF SampleLockWord, KeepLists, ListEffect
<1>18. CASE SampleEntryList(t)
  BY ZenonT(30), <1>18 DEF SampleEntryList, Return, NoSample, KeepLists, ListEffect
<1>19. CASE Succession(t)
  BY SMT, <1>19 DEF Succession, InnerFree, Return, InnerLock, KeepLists, ListEffect
<1>20. CASE WakeOne(t)
  BY ZenonT(30), <1>20 DEF WakeOne, TakeHead, ListEffect
<1>21. CASE PassOnDeck(t)
  BY <1>21 DEF PassOnDeck, PutOnDeck, ListEffect
<1>22. CASE RecheckLock(t)
  BY SMT, <1>22 DEF RecheckLock, Return, KeepLists, ListEffect
<1>23. CASE Drain(t)
  BY SMTT(30), <1>23 DEF Drain, DetachCxq, KeepLists, ListEffect
<1>24. CASE SetEntryList(t)
  BY ZenonT(30), <1>24 DEF SetEntryList, AttachEntryList, ListEffect
<1>25. CASE Punt(t)
  BY <1>25 DEF Punt, InnerLock, ListEffect
<1>26. CASE Resample(t)
  BY ZenonT(30), <1>26 DEF Resample, Return, KeepLists, ListEffect
<1>27. CASE NotifyTest(t)
  BY ZenonT(30), <1>27 DEF NotifyTest, KeepLists, ListEffect
<1>28. CASE NotifyPop(t)
  BY SMT, <1>28 DEF NotifyPop, WaitSetTail, NotifyReturn, TakeHead, KeepLists, ListEffect
<1>29. CASE NotifyPush(t)
  BY <1>29 DEF NotifyPush, Pushed, PutOnCxq, ListEffect
<1>30. CASE NotifyFlag(t)
  BY SMT, <1>30 DEF NotifyFlag, NotifyReturn, KeepLists, ListEffect
<1>31. CASE NotifyUnpark(t)
  BY SMT, <1>31 DEF NotifyUnpark, Unparked, NotifyReturn, KeepLists, ListEffect
<1>32. CASE WaitAdd(t)
  BY <1>32 DEF WaitAdd, EnqueueSelf, ListEffect
<1>33. CASE WaitLoop(t)
  BY <1>33 DEF WaitLoop, KeepLists, ListEffect
<1>34. CASE WaitPark(t)
  BY SMT, <1>34 DEF WaitPark, KeepLists, ListEffect
<1>35. CASE WaitDone(t)
  BY <1>35 DEF WaitDone, KeepLists, ListEffect
<1>36. CASE WaitUnlink(t)
  BY SMT, <1>36 DEF WaitUnlink, LeaveWaitSet, KeepLists, ListEffect
<1>37. CASE Reenter(t)
  BY SMT, <1>37 DEF Reenter, Free, IsOnDeck, KeepLists, ListEffect
<1>38. CASE lock(t)
  BY <1>38 DEF lock, Begin, KeepLists, ListEffect
<1>39. CASE try_lock(t)
  BY <1>39 DEF try_lock, Begin, Free, KeepLists, ListEffect
<1>40. CASE jvm_raw_lock(t)
  BY SMT, <1>40 DEF jvm_raw_lock, Begin, Free, KeepLists, ListEffect
<1>41. CASE SuspendAfterWait(t)
  BY ZenonT(30), <1>41 DEF SuspendAfterWait, Begin, KeepLists, ListEffect
<1>42. CASE Resumed(t)
  BY <1>42 DEF Resumed, KeepLists, ListEffect
<1>43. ASSUME NEW op \in Ops, notify(t, op)
      PROVE  ListEffect(t) /\ Frame(t)
  BY ZenonT(30), <1>43 DEF notify, Begin, KeepLists, ListEffect
<1>44. ASSUME NEW op \in Ops, wait(t, op)
      PROVE  ListEffect(t) /\ Frame(t)
  BY <1>44 DEF wait, Begin, KeepLists, ListEffect
<1>. QED
  BY ZenonT(30), <1>1, <1>2, <1>3, <1>4, <1>5, <1>6, <1>7, <1>8, <1>9, <1>10,
     <1>11, <1>12, <1>13, <1>14, <1>15, <1>16, <1>17, <1>18, <1>19, <1>20,
     <1>21, <1>22, <1>23, <1>24, <1>25, <1>26, <1>27, <1>28, <1>29, <1>30,
     <1>31, <1>32, <1>33, <1>34, <1>35, <1>36, <1>37, <1>38, <1>39, <1>40,
     <1>41, <1>42, <1>43, <1>44
  DEF Run, Call, Park

\* What the others have in transit, and whether they are off the lists, stays.
LEMMA FrameFacts ==
  ASSUME NEW t \in Thread, Frame(t), NEW u \in Thread \ {t}
  PROVE  InTransit(u)' = InTransit(u) /\ (Off(u)' <=> Off(u))
  BY DEF Frame, InTransit, Off

\* y is at most once in the lists C, E and W, OnDeck, or in transit.
Once(y, C, E, W, d, T) ==
  /\ ~(y \in C /\ y \in E) /\ ~(y \in C /\ y \in W) /\ ~(y \in E /\ y \in W)
  /\ d = y => y \notin C /\ y \notin E /\ y \notin W
  /\ \A u \in Thread : y \in T[u] =>
       /\ y \notin C /\ y \notin E /\ y \notin W /\ d # y
       /\ \A v \in Thread \ {u} : y \notin T[v]

\* y is nowhere.
Nowhere(y, C, E, W, d, T) ==
  y \notin C /\ y \notin E /\ y \notin W /\ d # y /\ \A u \in Thread : y \notin T[u]

Injective ==
  /\ IsInjective(cxq) /\ IsInjective(EntryList) /\ IsInjective(WaitSet)
  /\ \A u \in Thread : IsInjective(InTransit(u))

ListTypes ==
  /\ cxq \in Seq(Thread) /\ EntryList \in Seq(Thread) /\ WaitSet \in Seq(Thread)
  /\ \A u \in Thread : InTransit(u) \in Seq(Thread)

LEMMA PointwiseForm ==
  ASSUME ListTypes
  PROVE  LET C == Range(cxq)
             E == Range(EntryList)
             W == Range(WaitSet)
             T == [u \in Thread |-> Transit(u)]
         IN  /\ AtMostOneList <=> Injective /\ \A y \in Thread : Once(y, C, E, W, OnDeck, T)
             /\ OffLists <=> \A t \in Thread : Off(t) => Nowhere(t, C, E, W, OnDeck, T)
<1>1. /\ Range(cxq) \subseteq Thread /\ Range(EntryList) \subseteq Thread
      /\ Range(WaitSet) \subseteq Thread
      /\ \A u \in Thread : Range(InTransit(u)) \subseteq Thread
  BY SMT DEF ListTypes, Range
<1>2. AtMostOneList => Injective /\ \A y \in Thread :
         Once(y, Range(cxq), Range(EntryList), Range(WaitSet), OnDeck,
              [u \in Thread |-> Transit(u)])
  BY DEF AtMostOneList, Injective, Once, Listed, Transit
<1>3. ASSUME Injective, \A y \in Thread :
         Once(y, Range(cxq), Range(EntryList), Range(WaitSet), OnDeck,
              [u \in Thread |-> Transit(u)])
      PROVE AtMostOneList
  BY <1>1, <1>3 DEF AtMostOneList, Injective, Once, Listed, Transit
<1>4. OffLists <=> \A t \in Thread : Off(t) =>
         Nowhere(t, Range(cxq), Range(EntryList), Range(WaitSet), OnDeck,
                 [u \in Thread |-> Transit(u)])
  BY DEF OffLists, Nowhere, Listed, Transit
<1>. QED  BY <1>2, <1>3, <1>4

\* Each way of changing the lists keeps them disjoint.
LEMMA ListInvStep ==
  ASSUME NEW t \in Thread, AtMostOneList, OffLists, Frame(t), ListEffect(t),
         ListTypes, ListTypes'
  PROVE  AtMostOneList' /\ OffLists'
<1>. DEFINE C == Range(cxq)
            E == Range(EntryList)
            W == Range(WaitSet)
            T == [u \in Thread |-> Transit(u)]
            T2 == [u \in Thread |-> Transit(u)']
<1>1. Injective /\ \A y \in Thread : Once(y, C, E, W, OnDeck, T)
  BY PointwiseForm
<1>2. \A u \in Thread : Off(u) => Nowhere(u, C, E, W, OnDeck, T)
  BY PointwiseForm
<1>3. SUFFICES /\ Injective'
               /\ \A y \in Thread : Once(y, C', E', W', OnDeck', T2)
               /\ \A u \in Thread : Off(u)' => Nowhere(u, C', E', W', OnDeck', T2)
  <2>1. /\ Range(cxq') \subseteq Thread /\ Range(EntryList') \subseteq Thread
        /\ Range(WaitSet') \subseteq Thread
        /\ \A u \in Thread : Range(InTransit(u)') \subseteq Thread
    BY SMT DEF ListTypes, Range
  <2>2. AtMostOneList'
    BY <2>1, <1>3 DEF AtMostOneList, Injective, Once, Listed, Transit
  <2>3. OffLists'
    BY <1>3 DEF OffLists, Nowhere, Listed, Transit
  <2>. QED  BY <2>2, <2>3
<1>4. ASSUME NEW u \in Thread \ {t}
      PROVE  InTransit(u)' = InTransit(u) /\ (Off(u)' <=> Off(u))
  BY FrameFacts
<1>5. /\ \A u \in Thread \ {t} : T2[u] = T[u]
      /\ T[t] = Range(InTransit(t)) /\ T2[t] = Range(InTransit(t)')
  BY <1>4 DEF Transit
<1>6. \A u \in Thread \ {t} : IsInjective(InTransit(u)')
  BY <1>1, <1>4 DEF Injective
<1>7. \A u \in Thread \ {t} : Off(u)' => Nowhere(u, C, E, W, OnDeck, T)
  BY <1>2, <1>4
<1>8. Off(t) => Nowhere(t, C, E, W, OnDeck, T)
  BY <1>2
<1>9. C = Range(cxq) /\ E = Range(EntryList) /\ W = Range(WaitSet)
      /\ C' = Range(cxq') /\ E' = Range(EntryList') /\ W' = Range(WaitSet')
  OBVIOUS
<1>10. NULL \notin Thread /\ LBIT \notin Thread
  BY ConstantsAssumption
<1>11. /\ cxq \in Seq(Thread) /\ EntryList \in Seq(Thread) /\ WaitSet \in Seq(Thread)
       /\ IsInjective(cxq) /\ IsInjective(EntryList) /\ IsInjective(WaitSet)
  BY <1>1 DEF ListTypes, Injective
<1>. HIDE DEF C, E, W, T, T2
<1>12. CASE KeepLists(t)
  <2>1. C' = C /\ E' = E /\ W' = W /\ OnDeck' = OnDeck /\ T2[t] = T[t]
    BY <1>12, <1>5, <1>9 DEF KeepLists, SameTransit
  <2>2. Injective'
    BY <1>12, <1>1, <1>6 DEF KeepLists, SameTransit, Injective
  <2>3. \A y \in Thread : Once(y, C', E', W', OnDeck', T2)
    BY <1>1, <1>5, <1>10, <2>1 DEF Once, Nowhere
  <2>4. \A u \in Thread : Off(u)' => Nowhere(u, C', E', W', OnDeck', T2)
    BY SMT, <1>12, <1>1, <1>5, <1>7, <1>8, <1>10, <2>1
    DEF Once, Nowhere, KeepLists, NoLonger
  <2>. QED  BY <2>2, <2>3, <2>4
<1>13. CASE InnerLock(t)
  <2>1. C' = C /\ E' = E /\ W' = W /\ T2[t] = T[t] /\ OnDeck' \in {NULL, LBIT}
    BY <1>13, <1>5, <1>9 DEF InnerLock, SameTransit
  <2>2. Injective'
    BY <1>13, <1>1, <1>6 DEF InnerLock, SameTransit, Injective
  <2>3. \A y \in Thread : Once(y, C', E', W', OnDeck', T2)
    BY <1>1, <1>5, <1>10, <2>1 DEF Once, Nowhere
  <2>4. \A u \in Thread : Off(u)' => Nowhere(u, C', E', W', OnDeck', T2)
    BY SMT, <1>13, <1>1, <1>5, <1>7, <1>8, <1>10, <2>1
    DEF Once, Nowhere, InnerLock, NoLonger
  <2>. QED  BY <2>2, <2>3, <2>4
<1>14. CASE LeaveOnDeck(t)
  <2>1. C' = C /\ E' = E /\ W' = W /\ T2[t] = T[t] /\ OnDeck = t /\ OnDeck' = NULL
    BY <1>14, <1>5, <1>9 DEF LeaveOnDeck, SameTransit
  <2>2. Injective'
    BY <1>14, <1>1, <1>6 DEF LeaveOnDeck, SameTransit, Injective
  <2>3. \A y \in Thread : Once(y, C', E', W', OnDeck', T2)
    BY ZenonT(30), <1>1, <1>5, <1>10, <2>1 DEF Once, Nowhere
  <2>4. \A u \in Thread : Off(u)' => Nowhere(u, C', E', W', OnDeck', T2)
    BY <1>14, <1>1, <1>5, <1>7, <1>8, <1>10, <2>1
    DEF Once, Nowhere, LeaveOnDeck
  <2>. QED  BY <2>2, <2>3, <2>4
<1>15. CASE PutOnDeck(t)
  <2>a. Range(<<w[t]>>) = {w[t]} /\ Range(<<>>) = {} /\ IsInjective(<<>>)
    BY ShortLists
  <2>1. C' = C /\ E' = E /\ W' = W /\ T[t] = {w[t]} /\ T2[t] = {} /\ OnDeck' = w[t]
    BY <1>15, <1>5, <1>9, <2>a DEF PutOnDeck, SameTransit
  <2>2. Injective'
    BY <1>15, <1>1, <1>6, <2>a DEF PutOnDeck, SameTransit, Injective
  <2>3. \A y \in Thread : Once(y, C', E', W', OnDeck', T2)
    BY <1>1, <1>5, <1>10, <2>1 DEF Once, Nowhere
  <2>4. \A u \in Thread : Off(u)' => Nowhere(u, C', E', W', OnDeck', T2)
    BY SMT, <1>15, <1>1, <1>5, <1>7, <1>8, <1>10, <2>1
    DEF Once, Nowhere, PutOnDeck, NoLonger
  <2>. QED  BY <2>2, <2>3, <2>4
<1>16. CASE PutOnCxq(t)
  <2>a. Range(<<w[t]>>) = {w[t]} /\ Range(<<>>) = {} /\ IsInjective(<<>>)
    BY ShortLists
  <2>b. w[t] \in Thread /\ w[t] \notin C
    BY SMT, <1>16, <2>a, <1>1, <1>5 DEF PutOnCxq, Once
  <2>c. cxq' = <<w[t]>> \o cxq /\ Range(cxq') = {w[t]} \cup C /\ IsInjective(cxq')
    BY <1>16, <2>b, <1>9, <1>11, PushFacts DEF PutOnCxq
  <2>1. C' = {w[t]} \cup C /\ E' = E /\ W' = W /\ OnDeck' = OnDeck /\ T[t] = {w[t]} /\ T2[t] = {}
    BY <1>16, <1>5, <1>9, <2>a, <2>c DEF PutOnCxq, SameTransit
  <2>2. Injective'
    BY <1>16, <1>1, <1>6, <2>a, <2>c DEF PutOnCxq, SameTransit, Injective
  <2>3. \A y \in Thread : Once(y, C', E', W', OnDeck', T2)
    BY <1>1, <1>5, <1>10, <2>1, SMTT(30) DEF Once, Nowhere
  <2>4. \A u \in Thread : Off(u)' => Nowhere(u, C', E', W', OnDeck', T2)
    BY SMTT(30), <1>16, <1>1, <1>5, <1>7, <1>8, <1>10, <2>1
    DEF Once, Nowhere, PutOnCxq, NoLonger
  <2>. QED  BY <2>2, <2>3, <2>4
<1>17. CASE DetachCxq(t)
  <2>a. Range(<<>>) = {} /\ IsInjective(<<>>)
    BY ShortLists
  <2>1. C' = {} /\ E' = E /\ W' = W /\ OnDeck' = OnDeck /\ T[t] = {} /\ T2[t] = C
    BY <1>17, <1>5, <1>9, <2>a, <1>11 DEF DetachCxq, SameTransit
  <2>2. Injective'
    BY <1>17, <1>1, <1>6, <2>a, <1>11 DEF DetachCxq, SameTransit, Injective
  <2>3. \A y \in Thread : Once(y, C', E', W', OnDeck', T2)
    BY <1>1, <1>5, <1>10, <2>1 DEF Once, Nowhere
  <2>4. \A u \in Thread : Off(u)' => Nowhere(u, C', E', W', OnDeck', T2)
    BY SMT, <1>17, <1>1, <1>5, <1>7, <1>8, <1>10, <2>1
    DEF Once, Nowhere, DetachCxq, NoLonger
  <2>. QED  BY <2>2, <2>3, <2>4
<1>18. CASE AttachEntryList(t)
  <2>a. Range(<<>>) = {} /\ IsInjective(<<>>)
    BY ShortLists
  <2>1. C' = C /\ E' = T[t] /\ W' = W /\ OnDeck' = OnDeck /\ T2[t] = {}
    BY <1>18, <1>5, <1>9, <2>a, <1>11 DEF AttachEntryList, SameTransit
  <2>2. Injective'
    BY <1>18, <1>1, <1>6, <2>a, <1>11 DEF AttachEntryList, SameTransit, Injective
  <2>3. \A y \in Thread : Once(y, C', E', W', OnDeck', T2)
    BY <1>1, <1>5, <1>10, <2>1 DEF Once, Nowhere
  <2>4. \A u \in Thread : Off(u)' => Nowhere(u, C', E', W', OnDeck', T2)
    BY SMTT(30), <1>18, <1>1, <1>5, <1>7, <1>8, <1>10, <2>1
    DEF Once, Nowhere, AttachEntryList, NoLonger
  <2>. QED  BY <2>2, <2>3, <2>4
<1>19. CASE LeaveWaitSet(t)
  <2>a. W' = W \ {t} /\ IsInjective(WaitSet') /\ t \in W
    <3>1. PICK i \in DOMAIN WaitSet : WaitSet[i] = t /\ WaitSet' = RemoveAt(WaitSet, i)
      BY <1>19 DEF LeaveWaitSet, Unlink
    <3>2. WaitSet[i] \in Range(WaitSet)
      BY DEF Range
    <3>. QED  BY <3>1, <3>2, <1>9, <1>11, RemoveFacts
  <2>1. C' = C /\ E' = E /\ W' = W \ {t} /\ t \in W /\ OnDeck' = OnDeck /\ T2[t] = T[t]
    BY <1>19, <1>5, <1>9, <2>a DEF LeaveWaitSet, SameTransit
  <2>2. Injective'
    BY <1>19, <1>1, <1>6, <2>a DEF LeaveWaitSet, SameTransit, Injective
  <2>3. \A y \in Thread : Once(y, C', E', W', OnDeck', T2)
    BY <1>1, <1>5, <1>10, <2>1 DEF Once, Nowhere
  <2>4. \A u \in Thread : Off(u)' => Nowhere(u, C', E', W', OnDeck', T2)
    BY <1>19, <1>1, <1>5, <1>7, <1>8, <1>10, <2>1
    DEF Once, Nowhere, LeaveWaitSet
  <2>. QED  BY <2>2, <2>3, <2>4
<1>20. CASE EnqueueSelf(t)
  <2>0. Nowhere(t, C, E, W, OnDeck, T)
    BY <1>20, <1>8 DEF EnqueueSelf
  <2>a. /\ Range(<<t>> \o cxq) = {t} \cup C /\ IsInjective(<<t>> \o cxq)
        /\ Range(<<t>> \o WaitSet) = {t} \cup W /\ IsInjective(<<t>> \o WaitSet)
    BY <2>0, <1>9, <1>11, PushFacts DEF Nowhere
  <2>1. /\ E' = E /\ OnDeck' = OnDeck /\ T2[t] = T[t]
        /\ \/ C' = {t} \cup C /\ W' = W
           \/ W' = {t} \cup W /\ C' = C
    BY <1>20, <1>5, <1>9, <2>a DEF EnqueueSelf, SameTransit
  <2>2. Injective'
    BY <1>20, <1>1, <1>6, <2>a DEF EnqueueSelf, SameTransit, Injective
  <2>3. \A y \in Thread : Once(y, C', E', W', OnDeck', T2)
    BY SMT, <1>1, <1>5, <1>10, <2>0, <2>1 DEF Once, Nowhere
  <2>4. \A u \in Thread : Off(u)' => Nowhere(u, C', E', W', OnDeck', T2)
    BY <1>20, <1>5, <1>7, <1>10, <2>1 DEF Nowhere, EnqueueSelf
  <2>. QED  BY <2>2, <2>3, <2>4
<1>21. CASE TakeHead(t)
  <2>a. Range(<<>>) = {} /\ \A y : Range(<<y>>) = {y} /\ IsInjective(<<y>>)
    BY ShortLists
  <2>1. CASE /\ EntryList # <<>> /\ InTransit(t)' = <<Head(EntryList)>>
             /\ EntryList' = Tail(EntryList) /\ WaitSet' = WaitSet
    <3>1. /\ E = {Head(EntryList)} \cup E' /\ Head(EntryList) \notin E'
          /\ IsInjective(EntryList') /\ Head(EntryList) \in Thread
      BY <2>1, <1>9, <1>11, PopFacts
    <3>2. /\ C' = C /\ W' = W /\ OnDeck' = OnDeck
          /\ T[t] = {} /\ T2[t] = {Head(EntryList)}
      BY <1>21, <2>1, <2>a, <1>5, <1>9 DEF TakeHead
    <3>3. Injective'
      BY <1>21, <2>1, <2>a, <3>1, <1>1, <1>6 DEF TakeHead, Injective
    <3>4. \A y \in Thread : Once(y, C', E', W', OnDeck', T2)
      BY <1>1, <1>5, <3>1, <3>2 DEF Once
    <3>5. \A u \in Thread : Off(u)' => Nowhere(u, C', E', W', OnDeck', T2)
      BY <1>21, <1>5, <1>7, <1>8, <3>1, <3>2 DEF Nowhere, TakeHead, NoLonger
    <3>. QED  BY <3>3, <3>4, <3>5
  <2>2. CASE /\ WaitSet # <<>> /\ InTransit(t)' = <<Head(WaitSet)>>
             /\ WaitSet' = Tail(WaitSet) /\ EntryList' = EntryList
    <3>1. /\ W = {Head(WaitSet)} \cup W' /\ Head(WaitSet) \notin W'
          /\ IsInjective(WaitSet') /\ Head(WaitSet) \in Thread
      BY <2>2, <1>9, <1>11, PopFacts
    <3>2. /\ C' = C /\ E' = E /\ OnDeck' = OnDeck
          /\ T[t] = {} /\ T2[t] = {Head(WaitSet)}
      BY ZenonT(30), <1>21, <2>2, <2>a, <1>5, <1>9 DEF TakeHead
    <3>3. Injective'
      BY ZenonT(30), <1>21, <2>2, <2>a, <3>1, <1>1, <1>6 DEF TakeHead, Injective
    <3>4. \A y \in Thread : Once(y, C', E', W', OnDeck', T2)
      BY ZenonT(30), <1>1, <1>5, <3>1, <3>2 DEF Once
    <3>5. \A u \in Thread : Off(u)' => Nowhere(u, C', E', W', OnDeck', T2)
      BY <1>21, <1>5, <1>7, <1>8, <3>1, <3>2 DEF Nowhere, TakeHead, NoLonger
    <3>. QED  BY <3>3, <3>4, <3>5
  <2>. QED  BY <1>21, <2>1, <2>2 DEF TakeHead
<1>. QED
  BY <1>12, <1>13, <1>14, <1>15, <1>16, <1>17, <1>18, <1>19, <1>20, <1>21
  DEF ListEffect

LEMMA ListTypesHold == IInv => ListTypes
<1>. SUFFICES ASSUME IInv PROVE ListTypes
  OBVIOUS
<1>1. cxq \in Seq(Thread) /\ EntryList \in Seq(Thread) /\ WaitSet \in Seq(Thread)
  BY DEF IInv, DataInv, DataType
<1>2. ASSUME NEW u \in Thread PROVE InTransit(u) \in Seq(Thread)
  <2>1. LocalInv(u) /\ List[u] \in Seq(Thread)
    BY DEF IInv, DataInv, DataType
  <2>2. \/ pc[u] \in {"passOnDeck", "notifyPush"} /\ InTransit(u) = <<w[u]>>
        \/ InTransit(u) = List[u] \/ InTransit(u) = <<>>
    BY <2>1, TransitFacts
  <2>3. pc[u] \in {"passOnDeck", "notifyPush"} => w[u] \in Thread
    BY <2>1 DEF LocalInv
  <2>4. pc[u] \in {"passOnDeck", "notifyPush"} => <<w[u]>> \in Seq(Thread)
    BY SMT, <2>3
  <2>5. <<>> \in Seq(Thread)
    BY SMT
  <2>. QED  BY <2>1, <2>2, <2>4, <2>5
<1>. QED  BY <1>1, <1>2 DEF ListTypes

----------------------------------------------------------------------------
(* The monitor the clients see.                                            *)

\* A step of t as its clients see it: nothing, an acquisition, a release, a
\* notification, the start of a wait, or the end of one by a timeout.
Acquires(t) ==
  /\ ~LockByte /\ pc[t] \notin Locked /\ pc'[t] \in Locked \ {"drop"}
  /\ Off(t) \/ OnDeck = t
  /\ UNCHANGED WaitSet
Releases(t) ==
  pc[t] = "drop" /\ pc'[t] \notin Locked /\ UNCHANGED WaitSet
Notifies(t) ==
  /\ pc[t] = "notifyPop" /\ pc'[t] = "notifyPush"
  /\ WaitSet # <<>> /\ WaitSet' = Tail(WaitSet)
Joins(t) ==
  pc[t] = "waitAdd" /\ pc'[t] = "drop" /\ WaitSet' = <<t>> \o WaitSet
GivesUp(t) ==
  pc[t] \notin Locked /\ pc'[t] \notin Locked /\ Unlink(t)
Unseen(t) ==
  /\ UNCHANGED WaitSet
  /\ pc[t] \in Locked <=> pc'[t] \in Locked
  /\ pc'[t] = "drop" => ret'[t] # "waitLoop"

ClientEffect(t) ==
  \/ Acquires(t) \/ Releases(t) \/ Notifies(t) \/ Joins(t) \/ GivesUp(t) \/ Unseen(t)

\* Every step is one of these.
LEMMA ClientStep ==
  ASSUME ControlInv, OnDeckIsSelf, NEW t \in Thread, Run(t) \/ Call(t)
  PROVE  ClientEffect(t)
<1>. USE DEF ControlInv, Off, OffLabels, Locked, Releasing, Inner, ClientEffect
<1>1. CASE ILock(t)
  BY <1>1 DEF ILock, TryFastAndSpin, Free, Acquires, Unseen
<1>2. CASE ResetEvent(t)
  BY <1>2 DEF ResetEvent, InnerFree, Unseen
<1>3. CASE RawReset(t)
  BY <1>3 DEF RawReset, Unseen
<1>4. CASE AcquireOrPush(t, "AcquireOrPush", "awaitOnDeck")
  BY <1>4 DEF AcquireOrPush, Free, Acquires, Unseen
<1>5. CASE AcquireOrPush(t, "rawPush", "reenter")
  BY <1>5 DEF AcquireOrPush, Free, Acquires, Unseen
<1>6. CASE AwaitOnDeck(t)
  BY <1>6 DEF AwaitOnDeck, IsOnDeck, Unseen
<1>7. CASE ParkCommon(t, "parkAwait", "awaitOnDeck")
  BY <1>7 DEF ParkCommon, Unseen
<1>8. CASE ParkCommon(t, "parkOnDeck", "OnDeck_LOOP")
  BY <1>8 DEF ParkCommon, Unseen
<1>9. CASE ParkCommon(t, "parkReenter", "reenter")
  BY <1>9 DEF ParkCommon, Unseen
<1>10. CASE OnDeck_LOOP(t)
  BY <1>10 DEF OnDeck_LOOP, TryFastAndSpin, Free, OnDeckIsSelf, HeirPresumptive, Acquires, Unseen
<1>11. CASE ClearOnDeck(t)
  BY <1>11 DEF ClearOnDeck, Unseen
<1>12. CASE SetOwner(t)
  BY <1>12 DEF SetOwner, Unseen
<1>13. CASE unlock(t)
  BY <1>13 DEF unlock, Unseen
<1>14. CASE DropLock(t)
  BY <1>14 DEF DropLock, Releases
<1>15. CASE ReadOnDeck(t)
  BY <1>15 DEF ReadOnDeck, Return, Unseen
<1>16. CASE Unpark(t)
  BY <1>16 DEF Unpark, Return, Unseen
<1>17. CASE SampleLockWord(t)
  BY <1>17 DEF SampleLockWord, Unseen
<1>18. CASE SampleEntryList(t)
  BY <1>18 DEF SampleEntryList, Return, Unseen
<1>19. CASE Succession(t)
  BY <1>19 DEF Succession, InnerFree, Return, Unseen
<1>20. CASE WakeOne(t)
  BY <1>20 DEF WakeOne, Unseen
<1>21. CASE PassOnDeck(t)
  BY <1>21 DEF PassOnDeck, Unseen
<1>22. CASE RecheckLock(t)
  BY <1>22 DEF RecheckLock, Return, Unseen
<1>23. CASE Drain(t)
  BY <1>23 DEF Drain, Unseen
<1>24. CASE SetEntryList(t)
  BY <1>24 DEF SetEntryList, Unseen
<1>25. CASE Punt(t)
  BY <1>25 DEF Punt, Unseen
<1>26. CASE Resample(t)
  BY <1>26 DEF Resample, Return, Unseen
<1>27. CASE NotifyTest(t)
  BY <1>27 DEF NotifyTest, Unseen
<1>28. CASE NotifyPop(t)
  BY <1>28 DEF NotifyPop, WaitSetTail, NotifyReturn, Notifies, Unseen
<1>29. CASE NotifyPush(t)
  BY <1>29 DEF NotifyPush, Unseen
<1>30. CASE NotifyFlag(t)
  BY <1>30 DEF NotifyFlag, NotifyReturn, Unseen
<1>31. CASE NotifyUnpark(t)
  BY <1>31 DEF NotifyUnpark, NotifyReturn, Unseen
<1>32. CASE WaitAdd(t)
  BY <1>32 DEF WaitAdd, Joins
<1>33. CASE WaitLoop(t)
  BY <1>33 DEF WaitLoop, Unseen
<1>34. CASE WaitPark(t)
  BY <1>34 DEF WaitPark, Unseen
<1>35. CASE WaitDone(t)
  BY <1>35 DEF WaitDone, Unseen
<1>36. CASE WaitUnlink(t)
  BY <1>36 DEF WaitUnlink, GivesUp, Unseen
<1>37. CASE Reenter(t)
  BY <1>37 DEF Reenter, Free, IsOnDeck, Acquires, Unseen
<1>38. CASE lock(t)
  BY <1>38 DEF lock, Begin, Unseen
<1>39. CASE try_lock(t)
  BY <1>39 DEF try_lock, Begin, Free, Acquires
<1>40. CASE jvm_raw_lock(t)
  BY <1>40 DEF jvm_raw_lock, Begin, Free, Acquires, Unseen
<1>41. CASE SuspendAfterWait(t)
  BY <1>41 DEF SuspendAfterWait, Begin, Unseen
<1>42. CASE Resumed(t)
  BY <1>42 DEF Resumed, Unseen
<1>43. ASSUME NEW op \in Ops, notify(t, op)
      PROVE  ClientEffect(t)
  BY <1>43 DEF notify, Begin, Unseen
<1>44. ASSUME NEW op \in Ops, wait(t, op)
      PROVE  ClientEffect(t)
  BY <1>44 DEF wait, Begin, Unseen
<1>. QED
  BY ZenonT(30), <1>1, <1>2, <1>3, <1>4, <1>5, <1>6, <1>7, <1>8, <1>9, <1>10,
     <1>11, <1>12, <1>13, <1>14, <1>15, <1>16, <1>17, <1>18, <1>19, <1>20,
     <1>21, <1>22, <1>23, <1>24, <1>25, <1>26, <1>27, <1>28, <1>29, <1>30,
     <1>31, <1>32, <1>33, <1>34, <1>35, <1>36, <1>37, <1>38, <1>39, <1>40,
     <1>41, <1>42, <1>43, <1>44
  DEF Run, Call, Park

\* A thread that joined the WaitSet in wait() leaves it neither by a step of
\* its own before it has released the lock, nor by one of another thread.
LEMMA JoinedStep ==
  ASSUME IInv, Joined, WaitSet \in Seq(Thread), IsInjective(WaitSet),
         NEW t \in Thread, Frame(t), ClientEffect(t), LockEffect(t)
  PROVE  Joined'
<1>. SUFFICES ASSUME NEW u \in Thread, pc'[u] = "drop", ret'[u] = "waitLoop"
              PROVE  u \in Range(WaitSet')
  BY DEF Joined
<1>1. Range(<<t>> \o WaitSet) = {t} \cup Range(WaitSet)
  BY PushFacts
<1>2. CASE u = t
  BY <1>1, <1>2 DEF ClientEffect, Acquires, Releases, Notifies, Joins, GivesUp, Unseen, Locked
<1>3. CASE u # t
  <2>1. pc[u] = "drop" /\ u \in Range(WaitSet) /\ HasLock(u)
    BY <1>3 DEF Frame, Joined, HasLock, Locked
  <2>2. ~HasLock(t)
    BY <1>3, <2>1 DEF IInv, MutualExclusion
  <2>3. CASE GivesUp(t)
    <3>1. PICK i \in DOMAIN WaitSet : WaitSet[i] = t /\ WaitSet' = RemoveAt(WaitSet, i)
      BY <2>3 DEF GivesUp, Unlink
    <3>2. Range(WaitSet') = Range(WaitSet) \ {t}
      BY <3>1, RemoveFacts
    <3>. QED  BY <3>2, <2>1, <1>3
  <2>. QED
    BY <1>1, <2>1, <2>2, <2>3
    DEF ClientEffect, Acquires, Releases, Notifies, Joins, Unseen, HasLock, Locked
<1>. QED  BY <1>2, <1>3

LEMMA InitListInv == Init => ListInv
<1>. SUFFICES ASSUME Init PROVE ListInv
  OBVIOUS
<1>1. cxq = <<>> /\ EntryList = <<>> /\ WaitSet = <<>> /\ OnDeck = NULL
  BY DEF Init
<1>2. Range(<<>>) = {} /\ IsInjective(<<>>)
  BY ShortLists
<1>3. \A t \in Thread : InTransit(t) = <<>>
  BY DEF Init, InTransit
<1>4. AtMostOneList
  BY <1>1, <1>2, <1>3 DEF AtMostOneList, Listed
<1>5. OffLists
  BY <1>1, <1>2, <1>3, ConstantsAssumption DEF OffLists, Listed, Transit
<1>6. Joined
  BY DEF Init, Joined
<1>. QED  BY <1>4, <1>5, <1>6 DEF ListInv

LEMMA OtherListInv ==
  ASSUME ListInv, Quiesce \/ UNCHANGED vars PROVE ListInv'
<1>1. UNCHANGED <<cxq, EntryList, WaitSet, OnDeck, pc, ret, w, List>>
  BY DEF Quiesce, vars
<1>2. \A u \in Thread : InTransit(u)' = InTransit(u) /\ (Off(u)' <=> Off(u))
  BY <1>1 DEF InTransit, Off
<1>3. AtMostOneList'
  BY <1>1, <1>2 DEF ListInv, AtMostOneList, Listed
<1>4. OffLists' /\ Joined'
  BY <1>1, <1>2 DEF ListInv, OffLists, Joined, Listed, Transit
<1>. QED  BY <1>3, <1>4 DEF ListInv

LEMMA StepListInv ==
  ASSUME IInv, IInv', ListInv, 32 \notin NativeMonitorFlags,
         NEW t \in Thread, Run(t) \/ Call(t)
  PROVE  ListInv'
<1>1. ListEffect(t) /\ Frame(t)
  BY ListStep
<1>2. ListTypes /\ ListTypes'
  BY ListTypesHold, PTL
<1>3. AtMostOneList' /\ OffLists'
  BY <1>1, <1>2, ListInvStep DEF ListInv
<1>4. LockEffect(t) /\ ClientEffect(t)
  BY StepEffect, ClientStep DEF IInv
<1>5. Joined'
  BY <1>1, <1>2, <1>4, JoinedStep DEF ListInv, ListTypes, AtMostOneList
<1>. QED  BY <1>3, <1>5 DEF ListInv

\* The inductive invariant of the lists, on top of that of the locks.
THEOREM ListInvariance ==
  ASSUME 32 \notin NativeMonitorFlags PROVE Spec => []ListInv
<1>1. Init => ListInv
  BY InitListInv
<1>2. IInv /\ IInv' /\ ListInv /\ [Next]_vars => ListInv'
  BY StepListInv, OtherListInv DEF Next
<1>. QED  BY <1>1, <1>2, Invariance, PTL DEF Spec

\* "A thread can appear on at most one list": no ParkEvent is linked twice by
\* the cxq, the EntryList, the WaitSet and the segments detached from them.
THEOREM ListsDisjoint ==
  ASSUME 32 \notin NativeMonitorFlags PROVE Spec => []AtMostOneList
<1>1. ListInv => AtMostOneList
  BY DEF ListInv
<1>. QED  BY <1>1, ListInvariance, PTL

LEMMA HolderFacts ==
  ASSUME MutualExclusion
  PROVE  /\ \A t \in Thread : HasLock(t) => Holder = t
         /\ ~LockByte => Holder = NULL /\ \A t \in Thread : ~HasLock(t)
         /\ (\A t \in Thread : ~HasLock(t)) => Holder = NULL
  BY DEF MutualExclusion, Holder

\* Each step is a step of the abstract monitor, or leaves it unchanged.
LEMMA MonitorStep ==
  ASSUME IInv, IInv', ListInv, 32 \notin NativeMonitorFlags,
         NEW t \in Thread, Run(t) \/ Call(t)
  PROVE  Abs!AbsNext \/ UNCHANGED <<Holder, Waiting>>
<1>1. Frame(t) /\ ClientEffect(t)
  BY ListStep, ClientStep DEF IInv
<1>2. \A u \in Thread \ {t} : HasLock(u)' <=> HasLock(u)
  BY <1>1 DEF Frame, HasLock
<1>3. WaitSet \in Seq(Thread) /\ IsInjective(WaitSet) /\ Range(WaitSet) \subseteq Thread
  <2>1. WaitSet \in Seq(Thread)
    BY DEF IInv, DataInv, DataType
  <2>2. IsInjective(WaitSet)
    BY DEF ListInv, AtMostOneList
  <2>3. Range(WaitSet) \subseteq Thread
    BY SMT, <2>1 DEF Range
  <2>. QED
    BY <2>1, <2>2, <2>3
<1>4. MutualExclusion /\ MutualExclusion'
  BY DEF IInv
<1>5. /\ \A u \in Thread : HasLock(u) => Holder = u
      /\ ~LockByte => Holder = NULL /\ \A u \in Thread : ~HasLock(u)
      /\ (\A u \in Thread : ~HasLock(u)) => Holder = NULL
  BY <1>4, HolderFacts
<1>6. /\ \A u \in Thread : HasLock(u)' => Holder' = u
      /\ (\A u \in Thread : ~HasLock(u)') => Holder' = NULL
  BY <1>4 DEF MutualExclusion, Holder
<1>7. \A u, v \in Thread : HasLock(u) /\ HasLock(v) => u = v
  BY <1>4 DEF MutualExclusion
<1>8. Off(t) \/ OnDeck = t => t \notin Range(WaitSet)
  BY DEF ListInv, AtMostOneList, OffLists, Listed
<1>9. CASE Unseen(t)
  <2>1. \A u \in Thread : HasLock(u)' <=> HasLock(u)
    BY <1>2, <1>9 DEF Unseen, HasLock
  <2>2. Holder' = Holder
    BY <2>1, <1>5, <1>6
  <2>3. Waiting' = Waiting
    BY <2>1, <1>3, <1>9 DEF Unseen, Waiting
  <2>. QED  BY <2>2, <2>3
<1>10. CASE Acquires(t)
  <2>1. Holder = NULL /\ HasLock(t)' /\ Holder' = t /\ t \notin Range(WaitSet)
    BY <1>5, <1>6, <1>8, <1>10 DEF Acquires, HasLock
  <2>2. Waiting' = Waiting /\ t \notin Waiting
    BY <2>1, <1>2, <1>3, <1>10 DEF Acquires, Waiting
  <2>. QED  BY <2>1, <2>2 DEF Abs!AbsNext, Abs!Acquire
<1>11. CASE Releases(t)
  <2>1. HasLock(t) /\ ~HasLock(t)' /\ Holder = t
    BY <1>5, <1>11 DEF Releases, HasLock, Locked
  <2>2. Holder' = NULL
    BY <2>1, <1>2, <1>6, <1>7
  <2>3. Waiting' = Waiting \/ Waiting' = Waiting \cup {t}
    <3>1. CASE t \in Range(WaitSet)
      BY <3>1, <2>1, <1>2, <1>3, <1>11 DEF Releases, Waiting
    <3>2. CASE t \notin Range(WaitSet)
      BY <3>2, <2>1, <1>2, <1>3, <1>11 DEF Releases, Waiting
    <3>. QED  BY <3>1, <3>2
  <2>. QED  BY <2>1, <2>2, <2>3 DEF Abs!AbsNext, Abs!Release, Abs!ReleaseAndWait
<1>12. CASE Notifies(t)
  <2>1. HasLock(t) /\ HasLock(t)' /\ Off(t)
    BY <1>12 DEF Notifies, HasLock, Locked, Off, OffLabels
  <2>2. Holder = t /\ Holder' = t /\ t \notin Range(WaitSet)
    BY <2>1, <1>5, <1>6, <1>8
  <2>3. PICK u \in Thread : /\ Range(WaitSet) = {u} \cup Range(WaitSet')
                            /\ u \notin Range(WaitSet')
    BY <1>3, <1>12, PopFacts DEF Notifies
  <2>4. ~HasLock(u) /\ u # t
    BY <2>1, <2>2, <2>3, <1>7
  <2>5. \A v \in Thread : HasLock(v)' <=> HasLock(v)
    BY <2>1, <1>2
  <2>6. u \in Waiting /\ Waiting' = Waiting \ {u}
    BY <2>3, <2>4, <2>5, <1>3 DEF Waiting
  <2>. QED  BY <2>2, <2>6 DEF Abs!AbsNext, Abs!NotifyOne
<1>13. CASE Joins(t)
  <2>1. \A u \in Thread : HasLock(u)' <=> HasLock(u)
    BY <1>2, <1>13 DEF Joins, HasLock, Locked
  <2>2. HasLock(t)'
    BY <1>13 DEF Joins, HasLock, Locked
  <2>3. Range(WaitSet') = {t} \cup Range(WaitSet)
    BY <1>3, <1>13, PushFacts DEF Joins
  <2>4. Holder' = Holder
    BY <2>1, <1>5, <1>6
  <2>5. Waiting' = Waiting
    BY <2>1, <2>2, <2>3, <1>3 DEF Waiting
  <2>. QED  BY <2>4, <2>5
<1>14. CASE GivesUp(t)
  <2>1. PICK i \in DOMAIN WaitSet : WaitSet[i] = t /\ WaitSet' = RemoveAt(WaitSet, i)
    BY <1>14 DEF GivesUp, Unlink
  <2>2. Range(WaitSet') = Range(WaitSet) \ {t} /\ t \in Range(WaitSet)
    <3>1. WaitSet[i] \in Range(WaitSet)
      BY DEF Range
    <3>. QED  BY <2>1, <3>1, <1>3, RemoveFacts
  <2>3. ~HasLock(t) /\ \A u \in Thread : HasLock(u)' <=> HasLock(u)
    BY <1>2, <1>14 DEF GivesUp, HasLock
  <2>4. t \in Waiting /\ Waiting' = Waiting \ {t} /\ Holder' = Holder
    BY <2>2, <2>3, <1>3, <1>5, <1>6 DEF Waiting
  <2>. QED  BY <2>4 DEF Abs!AbsNext, Abs!GiveUp
<1>. QED  BY <1>1, <1>9, <1>10, <1>11, <1>12, <1>13, <1>14 DEF ClientEffect

\* mutex.cpp implements a monitor, for any number of threads: lock(), wait(),
\* notify() and the timeouts, as their callers see them.
THEOREM MonitorRefinement ==
  ASSUME 32 \notin NativeMonitorFlags PROVE Spec => ImplementsMonitor
<1>1. Init => Abs!AbsInit
  <2>. SUFFICES ASSUME Init PROVE Abs!AbsInit
    OBVIOUS
  <2>1. \A t \in Thread : ~HasLock(t)
    BY DEF Init, HasLock, Locked
  <2>2. Holder = NULL
    BY <2>1 DEF Holder
  <2>3. Range(WaitSet) = {}
    BY ShortLists DEF Init
  <2>. QED  BY <2>2, <2>3 DEF Abs!AbsInit, Waiting
<1>2. IInv /\ IInv' /\ ListInv /\ [Next]_vars => [Abs!AbsNext]_(Abs!absVars)
  <2>1. ASSUME Quiesce \/ UNCHANGED vars PROVE UNCHANGED <<Holder, Waiting>>
    <3>1. UNCHANGED <<pc, WaitSet>>
      BY <2>1 DEF Quiesce, vars
    <3>. QED  BY <3>1 DEF Holder, Waiting, HasLock
  <2>. QED  BY <2>1, MonitorStep DEF Next, Abs!absVars
<1>. QED
  BY <1>1, <1>2, Invariance, ListInvariance, PTL DEF Spec, ImplementsMonitor, Abs!AbsSpec

----------------------------------------------------------------------------
(* The notifications: who is on the WaitSet, chosen by a notify(), or      *)
(* notified.                                                               *)

\* A thread inside IWait(), from its joining the WaitSet to the end of its loop.
WaitLabels == {"waitLoop", "waitPark", "waitDone", "waitUnlink"}
Waits(t) == \/ pc[t] \in WaitLabels
            \/ pc[t] \in Releasing \cup {"drop"} /\ ret[t] = "waitLoop"

\* A waiter in the hands of the thread u that notifies it.
NotifyLabels == {"notifyPush", "notifyFlag"}
HoldsNotifyee(u, t) == pc[u] \in NotifyLabels /\ w[u] = t

\* A waiter that no notify() is done with.
Unnotified(t) == t \in Range(WaitSet) \/ \E u \in Thread : HoldsNotifyee(u, t)

\* A thread queued for the lock.
Queued(t) == \/ OnDeck = t \/ t \in Range(cxq) \/ t \in Range(EntryList)
             \/ \E u \in Thread : t \in Transit(u)

InIWait == {"waitLoop", "suspended"}

\* ret names the caller: IWait() from its joining the WaitSet to set_owner.
CallerInv(t) ==
  /\ pc[t] \in WaitLabels => ret[t] = "waitLoop"
  /\ pc[t] = "suspended" => ret[t] = "suspended"
  /\ pc[t] \in {"idle", "cs", "waitAdd"} => ret[t] = "idle"
  /\ pc[t] \in {"notify", "notifyPop", "notifyPush", "notifyFlag", "notifyUnpark"} =>
       ret[t] \in {"notify", "notify_all"}

WaitInv(t) ==
  /\ Unnotified(t) <=> Waits(t) /\ ~Notified[t]
  /\ Waits(t) /\ Notified[t] => Queued(t)
  /\ Waits(t) => ~WasOnWaitSet[t]
  /\ ret[t] \notin InIWait => ~WasOnWaitSet[t]
  /\ ret[t] \in InIWait /\ ~Waits(t) => (WasOnWaitSet[t] <=> ~Notified[t])

HandInv(u) ==
  /\ pc[u] \in NotifyLabels => WaitLock = u
  /\ pc[u] = "notifyFlag" => w[u] \in Range(cxq)

\* IUnlock()'s w is the ParkEvent of another thread.
OwnInv(t) ==
  /\ w[t] # NULL => pc[t] \in {"passOnDeck", "recheckLock", "unpark", "notifyPush",
                               "notifyFlag", "notifyUnpark"}
  /\ pc[t] \in Releasing /\ Off(t) => w[t] # t

\* The cxq is detached only when the EntryList is empty.
EmptyInv(t) == pc[t] \in {"drain", "setEntryList", "Punt"} => EntryList = <<>>

NoteInv == \A t \in Thread : /\ CallerInv(t) /\ WaitInv(t) /\ HandInv(t)
                            /\ OwnInv(t) /\ EmptyInv(t)

\* What a step of t does to the notifications.
Unheard(t) ==
  /\ UNCHANGED <<Notified, WasOnWaitSet, WaitSet, WaitLock>>
  /\ Waits(t)' <=> Waits(t)
  /\ ret'[t] \in InIWait <=> ret[t] \in InIWait
  /\ pc[t] \notin NotifyLabels /\ pc'[t] \notin NotifyLabels
StartsWait(t) ==
  /\ pc[t] = "waitAdd" /\ pc'[t] = "drop" /\ ret'[t] = "waitLoop"
  /\ Notified' = [Notified EXCEPT ![t] = FALSE] /\ WaitSet' = <<t>> \o WaitSet
  /\ UNCHANGED <<WasOnWaitSet, WaitLock>>
EndsWait(t) ==
  /\ pc[t] \in WaitLabels /\ Notified[t] /\ pc'[t] = "reenter" /\ ret'[t] = ret[t]
  /\ UNCHANGED <<Notified, WasOnWaitSet, WaitSet, WaitLock>>
TimesOut(t) ==
  /\ pc[t] = "waitUnlink" /\ ~Notified[t] /\ pc'[t] = "ILock" /\ ret'[t] = ret[t]
  /\ WaitLock = NULL /\ Unlink(t) /\ WasOnWaitSet' = [WasOnWaitSet EXCEPT ![t] = TRUE]
  /\ UNCHANGED <<Notified, WaitLock>>
Chooses(t) ==
  /\ pc[t] = "notifyPop" /\ pc'[t] = "notifyPush" /\ ret'[t] = ret[t]
  /\ WaitLock = NULL /\ WaitLock' = t /\ w'[t] = Head(WaitSet)
  /\ WaitSet # <<>> /\ WaitSet' = Tail(WaitSet)
  /\ UNCHANGED <<Notified, WasOnWaitSet>>
Requeues(t) ==
  /\ pc[t] = "notifyPush" /\ pc'[t] = "notifyFlag" /\ ret'[t] = ret[t]
  /\ w'[t] = w[t] /\ cxq' = <<w[t]>> \o cxq
  /\ UNCHANGED <<Notified, WasOnWaitSet, WaitSet, WaitLock>>
Flags(t) ==
  /\ pc[t] = "notifyFlag" /\ pc'[t] \in {"notify", "cs", "notifyUnpark"}
  /\ ret'[t] \notin InIWait
  /\ Notified' = [Notified EXCEPT ![w[t]] = TRUE] /\ WaitLock' = NULL
  /\ UNCHANGED <<WasOnWaitSet, WaitSet>>
Returns(t) ==
  /\ pc[t] = "set_owner" /\ pc'[t] = "cs" /\ ret'[t] = "idle"
  /\ WasOnWaitSet' = [WasOnWaitSet EXCEPT ![t] = FALSE]
  /\ UNCHANGED <<Notified, WaitSet, WaitLock>>

NoteEffect(t) ==
  \/ Unheard(t) \/ StartsWait(t) \/ EndsWait(t) \/ TimesOut(t)
  \/ Chooses(t) \/ Requeues(t) \/ Flags(t) \/ Returns(t)

\* The cxq grows only while the lock is held, and is detached only while it is free.
CxqEffect(t) ==
  \/ cxq' = cxq
  \/ LockByte /\ LockByte' = LockByte /\ \E x \in Thread : cxq' = <<x>> \o cxq
  \/ ~LockByte /\ pc[t] = "drain" /\ cxq' = <<>>

\* Every step has one of these effects.
LEMMA NoteStep ==
  ASSUME IInv, NEW t \in Thread, CallerInv(t), Run(t) \/ Call(t)
  PROVE  NoteEffect(t) /\ CxqEffect(t)
<1>a. /\ ControlInv /\ LocalInv(t) /\ MutualExclusion
      /\ w \in [Thread -> Thread \cup {NULL, THREADPTR}]
  BY DEF IInv, DataInv, DataType
<1>. USE <1>a
     DEF ControlInv, CallerInv, Waits, WaitLabels, InIWait, NotifyLabels, Releasing,
         Inner, Caller, NoteEffect, CxqEffect
<1>1. CASE ILock(t)
  BY <1>1 DEF ILock, TryFastAndSpin, Free, Unheard
<1>2. CASE ResetEvent(t)
  BY <1>2 DEF ResetEvent, InnerFree, Unheard
<1>3. CASE RawReset(t)
  BY <1>3 DEF RawReset, Unheard
<1>4. CASE AcquireOrPush(t, "AcquireOrPush", "awaitOnDeck")
  <2>1. Unheard(t)
    BY <1>4 DEF AcquireOrPush, Unheard
  <2>2. \/ cxq' = cxq
        \/ LockByte /\ LockByte' = LockByte /\ cxq' = <<t>> \o cxq
    BY <1>4 DEF AcquireOrPush, Pushed
  <2>. QED  BY <2>1, <2>2
<1>5. CASE AcquireOrPush(t, "rawPush", "reenter")
  <2>1. Unheard(t)
    BY <1>5 DEF AcquireOrPush, Unheard
  <2>2. \/ cxq' = cxq
        \/ LockByte /\ LockByte' = LockByte /\ cxq' = <<t>> \o cxq
    BY <1>5 DEF AcquireOrPush, Pushed
  <2>. QED  BY <2>1, <2>2
<1>6. CASE AwaitOnDeck(t)
  BY <1>6 DEF AwaitOnDeck, IsOnDeck, Unheard
<1>7. CASE ParkCommon(t, "parkAwait", "awaitOnDeck")
  BY <1>7 DEF ParkCommon, Unheard
<1>8. CASE ParkCommon(t, "parkOnDeck", "OnDeck_LOOP")
  BY <1>8 DEF ParkCommon, Unheard
<1>9. CASE ParkCommon(t, "parkReenter", "reenter")
  BY <1>9 DEF ParkCommon, Unheard
<1>10. CASE OnDeck_LOOP(t)
  BY <1>10 DEF OnDeck_LOOP, TryFastAndSpin, Free, Unheard
<1>11. CASE ClearOnDeck(t)
  BY <1>11 DEF ClearOnDeck, Unheard
<1>12. CASE SetOwner(t)
  BY <1>12 DEF SetOwner, Returns
<1>13. CASE unlock(t)
  BY <1>13 DEF unlock, Unheard
<1>14. CASE DropLock(t)
  BY <1>14 DEF DropLock, Unheard
<1>15. CASE ReadOnDeck(t)
  BY <1>15 DEF ReadOnDeck, Return, Unheard
<1>16. CASE Unpark(t)
  BY <1>16 DEF Unpark, Unparked, Return, Unheard
<1>17. CASE SampleLockWord(t)
  BY <1>17 DEF SampleLockWord, Unheard
<1>18. CASE SampleEntryList(t)
  BY <1>18 DEF SampleEntryList, Return, Unheard
<1>19. CASE Succession(t)
  BY <1>19 DEF Succession, InnerFree, Return, Unheard
<1>20. CASE WakeOne(t)
  BY <1>20 DEF WakeOne, Unheard
<1>21. CASE PassOnDeck(t)
  BY <1>21 DEF PassOnDeck, Unheard
<1>22. CASE RecheckLock(t)
  BY <1>22 DEF RecheckLock, Return, Unheard
<1>23. CASE Drain(t)
  BY <1>23 DEF Drain, Unheard
<1>24. CASE SetEntryList(t)
  BY <1>24 DEF SetEntryList, Unheard
<1>25. CASE Punt(t)
  BY <1>25 DEF Punt, Unheard
<1>26. CASE Resample(t)
  BY <1>26 DEF Resample, Return, Unheard
<1>27. CASE NotifyTest(t)
  BY <1>27 DEF NotifyTest, Unheard
<1>28. CASE NotifyPop(t)
  BY SMT, <1>28 DEF NotifyPop, WaitSetTail, NotifyReturn, Chooses, Unheard
<1>29. CASE NotifyPush(t)
  BY <1>29 DEF NotifyPush, Pushed, Requeues, LocalInv, MutualExclusion, HasLock, Locked
<1>30. CASE NotifyFlag(t)
  BY <1>30 DEF NotifyFlag, NotifyReturn, Flags
<1>31. CASE NotifyUnpark(t)
  BY <1>31 DEF NotifyUnpark, Unparked, NotifyReturn, Unheard
<1>32. CASE WaitAdd(t)
  BY <1>32 DEF WaitAdd, StartsWait
<1>33. CASE WaitLoop(t)
  BY <1>33 DEF WaitLoop, EndsWait, Unheard
<1>34. CASE WaitPark(t)
  BY <1>34 DEF WaitPark, Unheard
<1>35. CASE WaitDone(t)
  BY <1>35 DEF WaitDone, WasNotified, EndsWait, Unheard
<1>36. CASE WaitUnlink(t)
  BY <1>36 DEF WaitUnlink, EndsWait, TimesOut
<1>37. CASE Reenter(t)
  BY <1>37 DEF Reenter, Free, IsOnDeck, Unheard
<1>38. CASE lock(t)
  BY <1>38 DEF lock, Begin, Unheard
<1>39. CASE try_lock(t)
  BY <1>39 DEF try_lock, Begin, Free, Unheard
<1>40. CASE jvm_raw_lock(t)
  BY <1>40 DEF jvm_raw_lock, Begin, Free, Unheard
<1>41. CASE SuspendAfterWait(t)
  BY <1>41 DEF SuspendAfterWait, Begin, Unheard
<1>42. CASE Resumed(t)
  BY <1>42 DEF Resumed, Unheard
<1>43. ASSUME NEW op \in Ops, notify(t, op)
      PROVE  NoteEffect(t) /\ CxqEffect(t)
  BY <1>43 DEF notify, Begin, Unheard
<1>44. ASSUME NEW op \in Ops, wait(t, op)
      PROVE  NoteEffect(t) /\ CxqEffect(t)
  BY <1>44 DEF wait, Begin, Unheard
<1>. QED
  BY ZenonT(30), <1>1, <1>2, <1>3, <1>4, <1>5, <1>6, <1>7, <1>8, <1>9, <1>10,
     <1>11, <1>12, <1>13, <1>14, <1>15, <1>16, <1>17, <1>18, <1>19, <1>20,
     <1>21, <1>22, <1>23, <1>24, <1>25, <1>26, <1>27, <1>28, <1>29, <1>30,
     <1>31, <1>32, <1>33, <1>34, <1>35, <1>36, <1>37, <1>38, <1>39, <1>40,
     <1>41, <1>42, <1>43, <1>44
  DEF Run, Call, Park

\* Every step of t leaves its ret and its w as its place requires.
LEMMA CallerStep ==
  ASSUME IInv, ListInv, NEW t \in Thread, CallerInv(t), OwnInv(t), EmptyInv(t),
         Run(t) \/ Call(t)
  PROVE  CallerInv(t)' /\ OwnInv(t)' /\ EmptyInv(t)'
<1>a. /\ ControlInv /\ LocalInv(t) /\ OffLists
      /\ pc \in [Thread -> Label] /\ ret \in [Thread -> Caller]
      /\ w \in [Thread -> Thread \cup {NULL, THREADPTR}]
  BY DEF IInv, ListInv, ControlInv, DataInv, DataType
<1>b. /\ pc[t] \in Releasing \cup {"drop"} => ret[t] \in {"idle", "waitLoop", "suspended"}
      /\ Off(t) => OnDeck # t /\ t \notin Range(EntryList)
      /\ NULL \notin Thread
  BY <1>a, ConstantsAssumption DEF ControlInv, OffLists, Listed
<1>. USE <1>a, <1>b
     DEF CallerInv, OwnInv, EmptyInv, WaitLabels, Off, OffLabels, Releasing, Inner
<1>1. CASE ILock(t)
  BY <1>1 DEF ILock, TryFastAndSpin, Free
<1>2. CASE ResetEvent(t)
  BY <1>2 DEF ResetEvent, InnerFree
<1>3. CASE RawReset(t)
  BY <1>3 DEF RawReset
<1>4. CASE AcquireOrPush(t, "AcquireOrPush", "awaitOnDeck")
  BY <1>4 DEF AcquireOrPush, Free, Pushed
<1>5. CASE AcquireOrPush(t, "rawPush", "reenter")
  BY <1>5 DEF AcquireOrPush, Free, Pushed
<1>6. CASE AwaitOnDeck(t)
  BY <1>6 DEF AwaitOnDeck, IsOnDeck
<1>7. CASE ParkCommon(t, "parkAwait", "awaitOnDeck")
  BY <1>7 DEF ParkCommon
<1>8. CASE ParkCommon(t, "parkOnDeck", "OnDeck_LOOP")
  BY <1>8 DEF ParkCommon
<1>9. CASE ParkCommon(t, "parkReenter", "reenter")
  BY <1>9 DEF ParkCommon
<1>10. CASE OnDeck_LOOP(t)
  BY <1>10 DEF OnDeck_LOOP, TryFastAndSpin, Free
<1>11. CASE ClearOnDeck(t)
  BY <1>11 DEF ClearOnDeck
<1>12. CASE SetOwner(t)
  BY <1>12 DEF SetOwner
<1>13. CASE unlock(t)
  BY <1>13 DEF unlock
<1>14. CASE DropLock(t)
  BY <1>14 DEF DropLock
<1>15. CASE ReadOnDeck(t)
  BY <1>15 DEF ReadOnDeck, Return
<1>16. CASE Unpark(t)
  BY <1>16 DEF Unpark, Unparked, Return
<1>17. CASE SampleLockWord(t)
  BY <1>17 DEF SampleLockWord
<1>18. CASE SampleEntryList(t)
  BY <1>18 DEF SampleEntryList, Return
<1>19. CASE Succession(t)
  BY <1>19 DEF Succession, InnerFree, Return
<1>20. CASE WakeOne(t)
  <2>1. EntryList # <<>> /\ EntryList \in Seq(Thread)
    BY <1>20 DEF WakeOne, LocalInv, IInv, DataInv, DataType
  <2>2. Range(EntryList) = {Head(EntryList)} \cup Range(Tail(EntryList))
    BY <2>1, PopFacts
  <2>3. Off(t) => Head(EntryList) # t
    BY <2>2
  <2>4. w'[t] = Head(EntryList) /\ pc[t] = "WakeOne" /\ pc'[t] = "passOnDeck" /\ ret' = ret
    BY <1>20 DEF WakeOne
  <2>. QED  BY <2>3, <2>4
<1>21. CASE PassOnDeck(t)
  BY <1>21 DEF PassOnDeck
<1>22. CASE RecheckLock(t)
  BY <1>22 DEF RecheckLock, Return
<1>23. CASE Drain(t)
  BY <1>23 DEF Drain
<1>24. CASE SetEntryList(t)
  BY <1>24 DEF SetEntryList
<1>25. CASE Punt(t)
  BY <1>25 DEF Punt
<1>26. CASE Resample(t)
  BY <1>26 DEF Resample, Return
<1>27. CASE NotifyTest(t)
  BY <1>27 DEF NotifyTest
<1>28. CASE NotifyPop(t)
  BY <1>28 DEF NotifyPop, WaitSetTail, NotifyReturn
<1>29. CASE NotifyPush(t)
  BY <1>29 DEF NotifyPush, Pushed
<1>30. CASE NotifyFlag(t)
  BY <1>30 DEF NotifyFlag, NotifyReturn
<1>31. CASE NotifyUnpark(t)
  BY <1>31 DEF NotifyUnpark, Unparked, NotifyReturn
<1>32. CASE WaitAdd(t)
  BY <1>32 DEF WaitAdd
<1>33. CASE WaitLoop(t)
  BY <1>33 DEF WaitLoop
<1>34. CASE WaitPark(t)
  BY <1>34 DEF WaitPark
<1>35. CASE WaitDone(t)
  BY <1>35 DEF WaitDone, WasNotified
<1>36. CASE WaitUnlink(t)
  BY <1>36 DEF WaitUnlink
<1>37. CASE Reenter(t)
  BY <1>37 DEF Reenter, Free, IsOnDeck
<1>38. CASE lock(t)
  BY <1>38 DEF lock, Begin
<1>39. CASE try_lock(t)
  BY <1>39 DEF try_lock, Begin, Free
<1>40. CASE jvm_raw_lock(t)
  BY <1>40 DEF jvm_raw_lock, Begin, Free
<1>41. CASE SuspendAfterWait(t)
  BY <1>41 DEF SuspendAfterWait, Begin
<1>42. CASE Resumed(t)
  BY <1>42 DEF Resumed
<1>43. ASSUME NEW op \in Ops, notify(t, op)
      PROVE  CallerInv(t)' /\ OwnInv(t)' /\ EmptyInv(t)'
  BY <1>43 DEF notify, Begin
<1>44. ASSUME NEW op \in Ops, wait(t, op)
      PROVE  CallerInv(t)' /\ OwnInv(t)' /\ EmptyInv(t)'
  BY <1>44 DEF wait, Begin
<1>. QED
  BY ZenonT(30), <1>1, <1>2, <1>3, <1>4, <1>5, <1>6, <1>7, <1>8, <1>9, <1>10,
     <1>11, <1>12, <1>13, <1>14, <1>15, <1>16, <1>17, <1>18, <1>19, <1>20,
     <1>21, <1>22, <1>23, <1>24, <1>25, <1>26, <1>27, <1>28, <1>29, <1>30,
     <1>31, <1>32, <1>33, <1>34, <1>35, <1>36, <1>37, <1>38, <1>39, <1>40,
     <1>41, <1>42, <1>43, <1>44
  DEF Run, Call, Park

\* A thread queued for the lock stays queued until it clears OnDeck itself.
LEMMA QueuedStep ==
  ASSUME IInv, ListTypes, NEW t \in Thread, ListEffect(t), OnDeckEffect(t), Frame(t),
         NEW y \in Thread, Queued(y), y = t => pc[t] # "clearOnDeck",
         EmptyInv(t)
  PROVE  Queued(y)'
<1>. USE ConstantsAssumption
<1>1. \A u \in Thread \ {t} : Transit(u)' = Transit(u)
  BY FrameFacts DEF Transit
<1>2. OnDeck = y => OnDeck' = y
  <2>1. OneConsumer /\ OnDeckIsSelf /\ LBIT \notin Thread /\ NULL \notin Thread
    BY DEF IInv
  <2>2. ASSUME OnDeck = y PROVE pc[t] \notin Inner
    BY <2>1, <2>2 DEF OneConsumer
  <2>3. "passOnDeck" \in Inner /\ "Punt" \in Inner
    BY DEF Inner
  <2>4. pc[t] = "clearOnDeck" => OnDeck = t
    BY <2>1 DEF OnDeckIsSelf, HeirPresumptive
  <2>. QED  BY <2>1, <2>2, <2>3, <2>4 DEF OnDeckEffect
<1>3. CASE OnDeck = y
  BY <1>2, <1>3 DEF Queued
<1>4. CASE y \in Range(cxq)
  <2>1. \A x \in Thread : Range(<<x>> \o cxq) = {x} \cup Range(cxq)
    BY PushFacts DEF ListTypes
  <2>2. y \in Range(cxq') \/ y \in Transit(t)'
    <3>1. CASE DetachCxq(t)
      BY <1>4, <3>1 DEF DetachCxq, Transit
    <3>2. CASE ~DetachCxq(t)
      BY <1>4, <2>1, <3>2
      DEF ListEffect, KeepLists, EnqueueSelf, LeaveOnDeck, InnerLock, TakeHead, PutOnDeck,
          PutOnCxq, AttachEntryList, LeaveWaitSet
    <3>. QED  BY <3>1, <3>2
  <2>. QED  BY <2>2 DEF Queued
<1>5. CASE y \in Range(EntryList)
  <2>1. EntryList # <<>> =>
          /\ Range(EntryList) = {Head(EntryList)} \cup Range(Tail(EntryList))
          /\ Range(<<Head(EntryList)>>) = {Head(EntryList)}
    BY PopFacts, ShortLists DEF ListTypes
  <2>2. EntryList # <<>>
    BY <1>5, ShortLists
  <2>3. CASE TakeHead(t)
    <3>1. y \in Range(EntryList') \/ y \in Transit(t)'
      BY <1>5, <2>1, <2>2, <2>3 DEF TakeHead, Transit
    <3>. QED  BY <3>1 DEF Queued
  <2>4. CASE AttachEntryList(t)
    BY <2>2, <2>4 DEF AttachEntryList, EmptyInv
  <2>5. CASE EntryList' = EntryList
    BY <1>5, <2>5 DEF Queued
  <2>. QED
    BY <2>3, <2>4, <2>5
    DEF ListEffect, KeepLists, EnqueueSelf, LeaveOnDeck, InnerLock, PutOnDeck, PutOnCxq,
        DetachCxq, LeaveWaitSet
<1>6. CASE \E u \in Thread : y \in Transit(u)
  <2>1. PICK u \in Thread : y \in Transit(u)
    BY <1>6
  <2>2. CASE u # t
    BY <1>1, <2>1, <2>2 DEF Queued
  <2>3. CASE u = t
    <3>. USE <2>1, <2>3, ShortLists
    <3>1. CASE SameTransit(t)
      BY <3>1 DEF SameTransit, Transit, Queued
    <3>2. CASE PutOnDeck(t)
      BY <3>2 DEF PutOnDeck, Transit, Queued
    <3>3. CASE PutOnCxq(t)
      <4>1. y = w[t] /\ Range(<<w[t]>> \o cxq) = {w[t]} \cup Range(cxq)
        BY <3>3, PushFacts DEF PutOnCxq, Transit, ListTypes
      <4>. QED  BY <3>3, <4>1 DEF PutOnCxq, Queued
    <3>4. CASE AttachEntryList(t)
      BY <3>4 DEF AttachEntryList, Transit, Queued
    <3>. QED
      BY <3>1, <3>2, <3>3, <3>4
      DEF ListEffect, KeepLists, EnqueueSelf, LeaveOnDeck, InnerLock, TakeHead, DetachCxq,
          LeaveWaitSet, Transit
  <2>. QED  BY <2>2, <2>3
<1>. QED  BY <1>3, <1>4, <1>5, <1>6 DEF Queued

\* A step of t leaves ret, w and the EntryList as the place of u requires.
LEMMA OthersNote ==
  ASSUME IInv, NoteInv, NEW t \in Thread, Frame(t), DataEffect(t),
         NEW u \in Thread \ {t}
  PROVE  CallerInv(u)' /\ OwnInv(u)' /\ EmptyInv(u)'
<1>1. /\ pc'[u] = pc[u] /\ ret'[u] = ret[u] /\ w'[u] = w[u]
      /\ CallerInv(u) /\ OwnInv(u) /\ EmptyInv(u)
  BY DEF Frame, NoteInv
<1>2. CallerInv(u)' /\ OwnInv(u)'
  BY <1>1 DEF CallerInv, OwnInv, Off
<1>3. pc[u] \in {"drain", "setEntryList", "Punt"} => pc[t] \notin Inner
  BY DEF IInv, OneConsumer, Inner
<1>4. EmptyInv(u)'
  BY <1>1, <1>3 DEF EmptyInv, DataEffect, Inner
<1>. QED  BY <1>2, <1>4

\* The WaitLock is held, and its holder's notifyee is on the cxq once pushed.
LEMMA HandStep ==
  ASSUME IInv, NoteInv, ListTypes, NEW t \in Thread, Frame(t), NoteEffect(t), CxqEffect(t),
         w[t] \in Thread \/ pc[t] # "notifyPush"
  PROVE  \A u \in Thread : HandInv(u)'
<1>. USE DEF NotifyLabels
<1>1. \A x \in Thread : Range(<<x>> \o cxq) = {x} \cup Range(cxq)
  BY PushFacts DEF ListTypes
<1>2. (\E u \in Thread : pc[u] = "notifyFlag") => LockByte
  BY DEF IInv, MutualExclusion, HasLock, Locked
<1>3. LockByte => Range(cxq) \subseteq Range(cxq')
  BY <1>1 DEF CxqEffect
<1>4. \A u \in Thread \ {t} : pc'[u] = pc[u] /\ w'[u] = w[u]
  BY DEF Frame
<1>5. \A u \in Thread : HandInv(u) /\ (pc[u] \in NotifyLabels => WaitLock = u)
  BY DEF NoteInv, HandInv
<1>6. ASSUME NEW u \in Thread, u # t PROVE HandInv(u)'
  <2>1. pc[u] \in NotifyLabels => WaitLock' = WaitLock
    BY <1>5, <1>6, ConstantsAssumption
    DEF NoteEffect, Unheard, StartsWait, EndsWait, TimesOut, Chooses, Requeues, Flags, Returns
  <2>. QED  BY <1>2, <1>3, <1>4, <1>5, <1>6, <2>1 DEF HandInv
<1>7. HandInv(t)'
  BY <1>1, <1>5
  DEF HandInv, NoteEffect, Unheard, StartsWait, EndsWait, TimesOut, Chooses, Requeues, Flags,
      Returns, WaitLabels
<1>. QED  BY <1>6, <1>7

\* A waiter is on the WaitSet or with its notifier until it is notified, and
\* queued for the lock from then on.
LEMMA WaitStep ==
  ASSUME IInv, ListInv, NoteInv, ListTypes, NEW t \in Thread, Frame(t), ListEffect(t),
         OnDeckEffect(t), NoteEffect(t)
  PROVE  \A y \in Thread : WaitInv(y)'
<1>. USE ConstantsAssumption
<1>1. /\ Notified \in [Thread -> BOOLEAN] /\ WasOnWaitSet \in [Thread -> BOOLEAN]
      /\ WaitSet \in Seq(Thread) /\ IsInjective(WaitSet)
      /\ \A y \in Thread : /\ CallerInv(y) /\ WaitInv(y) /\ HandInv(y)
                           /\ pc[y] = "notifyFlag" => w[y] \in Thread
  BY DEF IInv, DataInv, DataType, LocalInv, NoteInv, ListTypes, ListInv, AtMostOneList
<1>2. \A u \in Thread \ {t} : /\ pc'[u] = pc[u] /\ ret'[u] = ret[u] /\ (Waits(u)' <=> Waits(u))
                              /\ \A y \in Thread : HoldsNotifyee(u, y)' <=> HoldsNotifyee(u, y)
  BY DEF Frame, Waits, HoldsNotifyee
<1>3. \A y \in Thread : Queued(y) /\ Waits(y) => Queued(y)'
  <2>1. EmptyInv(t)
    BY DEF NoteInv
  <2>2. pc[t] = "clearOnDeck" => ~Waits(t)
    BY DEF Waits, WaitLabels, Releasing, Inner
  <2>. QED  BY <2>1, <2>2, QueuedStep
<1>4. \A u \in Thread : pc[u] \in NotifyLabels => WaitLock = u
  BY <1>1 DEF HandInv
<1>5. \A y \in Thread : /\ Waits(y) => ret[y] = "waitLoop"
                        /\ pc[y] \in WaitLabels => Waits(y)
  BY <1>1 DEF Waits, CallerInv
<1>. SUFFICES ASSUME NEW y \in Thread PROVE WaitInv(y)'
  OBVIOUS
<1>6. WaitInv(y) /\ (Queued(y) /\ Waits(y) => Queued(y)')
  BY <1>1, <1>3
<1>7. ASSUME UNCHANGED <<Notified, WasOnWaitSet>>, Waits(y)' <=> Waits(y),
             Unnotified(y)' <=> Unnotified(y), ret'[y] \in InIWait <=> ret[y] \in InIWait
      PROVE  WaitInv(y)'
  BY <1>6, <1>7 DEF WaitInv
<1>8. CASE Unheard(t)
  <2>1. Waits(y)' <=> Waits(y)
    BY <1>2, <1>8 DEF Unheard
  <2>2. Unnotified(y)' <=> Unnotified(y)
    <3>1. ~HoldsNotifyee(t, y) /\ ~HoldsNotifyee(t, y)' /\ WaitSet' = WaitSet
      BY <1>8 DEF Unheard, HoldsNotifyee
    <3>. QED  BY <1>2, <3>1 DEF Unnotified
  <2>. QED  BY <1>2, <1>7, <1>8, <2>1, <2>2 DEF Unheard
<1>9. CASE Requeues(t)
  <2>1. Waits(y)' <=> Waits(y)
    BY <1>2, <1>9 DEF Requeues, Waits, WaitLabels, Releasing, Inner
  <2>2. Unnotified(y)' <=> Unnotified(y)
    <3>1. (HoldsNotifyee(t, y)' <=> HoldsNotifyee(t, y)) /\ WaitSet' = WaitSet
      BY <1>9 DEF Requeues, HoldsNotifyee, NotifyLabels
    <3>. QED  BY <1>2, <3>1 DEF Unnotified
  <2>. QED  BY <1>2, <1>7, <1>9, <2>1, <2>2 DEF Requeues
<1>10. CASE Chooses(t)
  <2>1. Waits(y)' <=> Waits(y)
    BY <1>2, <1>10 DEF Chooses, Waits, WaitLabels, Releasing, Inner
  <2>2. Range(WaitSet) = {Head(WaitSet)} \cup Range(WaitSet')
    BY <1>1, <1>10, PopFacts DEF Chooses
  <2>3. /\ HoldsNotifyee(t, y)' <=> y = Head(WaitSet)
        /\ ~HoldsNotifyee(t, y)
    BY <1>10 DEF Chooses, HoldsNotifyee, NotifyLabels
  <2>4. Unnotified(y)' <=> Unnotified(y)
    BY <1>2, <2>2, <2>3 DEF Unnotified
  <2>. QED  BY <1>2, <1>7, <1>10, <2>1, <2>4 DEF Chooses
<1>11. CASE StartsWait(t)
  <2>1. Range(WaitSet') = {t} \cup Range(WaitSet)
    BY <1>1, <1>11, PushFacts DEF StartsWait
  <2>2. Unnotified(y)' <=> Unnotified(y) \/ y = t
    BY <1>2, <1>11, <2>1 DEF StartsWait, Unnotified, HoldsNotifyee, NotifyLabels
  <2>3. CASE y = t
    <3>1. ~WasOnWaitSet'[t] /\ ~Notified'[t] /\ ret'[t] = "waitLoop" /\ Waits(t)'
      <4>1. ret[t] = "idle"
        BY <1>1, <1>11 DEF CallerInv, StartsWait
      <4>2. ~WasOnWaitSet[t]
        BY <1>1, <4>1 DEF WaitInv, InIWait
      <4>3. Waits(t)'
        BY <1>11 DEF StartsWait, Waits
      <4>. QED  BY <1>1, <1>11, <4>2, <4>3 DEF StartsWait
    <3>. QED  BY <2>2, <2>3, <3>1 DEF WaitInv, InIWait
  <2>4. CASE y # t
    <3>1. /\ Notified'[y] = Notified[y] /\ WasOnWaitSet'[y] = WasOnWaitSet[y]
          /\ ret'[y] = ret[y] /\ (Waits(y)' <=> Waits(y)) /\ (Unnotified(y)' <=> Unnotified(y))
      BY <1>1, <1>2, <1>11, <2>2, <2>4 DEF StartsWait
    <3>. QED  BY <1>6, <3>1 DEF WaitInv
  <2>. QED  BY <2>3, <2>4
<1>12. CASE EndsWait(t)
  <2>1. Unnotified(y)' <=> Unnotified(y)
    BY <1>2, <1>12 DEF EndsWait, Unnotified, HoldsNotifyee, NotifyLabels, WaitLabels
  <2>2. CASE y = t
    <3>1. /\ ~WasOnWaitSet[t] /\ Notified[t] /\ ~Unnotified(t) /\ ret'[t] = "waitLoop"
          /\ ~Waits(t)'
      <4>1. Waits(t) /\ ret[t] = "waitLoop"
        BY <1>5, <1>12 DEF EndsWait
      <4>2. ~Waits(t)'
        BY <1>12 DEF EndsWait, Waits, WaitLabels, Releasing, Inner
      <4>. QED  BY <1>6, <1>12, <2>2, <4>1, <4>2 DEF WaitInv, EndsWait
    <3>. QED  BY <1>12, <2>1, <2>2, <3>1 DEF WaitInv, InIWait, EndsWait
  <2>3. CASE y # t
    <3>1. ret'[y] = ret[y] /\ (Waits(y)' <=> Waits(y))
      BY <1>2, <2>3
    <3>. QED  BY <1>7, <1>12, <2>1, <3>1 DEF EndsWait
  <2>. QED  BY <2>2, <2>3
<1>13. CASE TimesOut(t)
  <2>1. Range(WaitSet') = Range(WaitSet) \ {t}
    <3>1. PICK i \in DOMAIN WaitSet : WaitSet[i] = t /\ WaitSet' = RemoveAt(WaitSet, i)
      BY <1>13 DEF TimesOut, Unlink
    <3>. QED  BY <1>1, <3>1, RemoveFacts
  <2>2. \A u \in Thread : pc[u] \notin NotifyLabels
    BY <1>4, <1>13 DEF TimesOut
  <2>3. \A u \in Thread : pc'[u] \notin NotifyLabels
    BY <1>2, <1>13, <2>2 DEF TimesOut, NotifyLabels
  <2>4. /\ Unnotified(y) <=> y \in Range(WaitSet)
        /\ Unnotified(y)' <=> y \in Range(WaitSet')
    BY <2>2, <2>3 DEF Unnotified, HoldsNotifyee
  <2>5. CASE y = t
    <3>1. WasOnWaitSet'[t] /\ ~Notified'[t] /\ ret'[t] = "waitLoop" /\ ~Waits(t)'
      <4>1. ret[t] = "waitLoop"
        BY <1>1, <1>13 DEF TimesOut, CallerInv, WaitLabels
      <4>2. ~Waits(t)'
        BY <1>13 DEF TimesOut, Waits, WaitLabels, Releasing, Inner
      <4>. QED  BY <1>1, <1>13, <4>1, <4>2 DEF TimesOut
    <3>. QED  BY <2>1, <2>4, <2>5, <3>1 DEF WaitInv, InIWait
  <2>6. CASE y # t
    <3>1. /\ Notified'[y] = Notified[y] /\ WasOnWaitSet'[y] = WasOnWaitSet[y]
          /\ ret'[y] = ret[y] /\ (Waits(y)' <=> Waits(y)) /\ (Unnotified(y)' <=> Unnotified(y))
      BY <1>1, <1>2, <1>13, <2>1, <2>4, <2>6 DEF TimesOut
    <3>. QED  BY <1>6, <3>1 DEF WaitInv
  <2>. QED  BY <2>5, <2>6
<1>14. CASE Flags(t)
  <2>1. w[t] \in Thread /\ pc[t] = "notifyFlag" /\ ~Waits(t) /\ ~Waits(t)'
    BY <1>1, <1>14 DEF Flags, Waits, WaitLabels, Releasing, Inner
  <2>2. \A u \in Thread \ {t} : pc[u] \notin NotifyLabels
    BY <1>4, <2>1 DEF NotifyLabels
  <2>3. \A u \in Thread : pc'[u] \notin NotifyLabels
    BY <1>2, <1>14, <2>2 DEF Flags, NotifyLabels
  <2>4. /\ Unnotified(y)' <=> y \in Range(WaitSet)
        /\ Unnotified(y) <=> y \in Range(WaitSet) \/ y = w[t]
    BY <1>14, <2>1, <2>2, <2>3 DEF Flags, Unnotified, HoldsNotifyee, NotifyLabels
  <2>5. w[t] \in Range(cxq) /\ w[t] \notin Range(WaitSet)
    BY <1>1, <2>1 DEF HandInv, ListInv, AtMostOneList
  <2>6. Waits(y)' <=> Waits(y)
    BY <1>2, <2>1
  <2>7. CASE y = w[t]
    <3>1. Waits(y) /\ ~Notified[y] /\ Queued(y)
      BY <1>6, <2>4, <2>5, <2>7 DEF WaitInv, Queued
    <3>2. Notified'[y] /\ WasOnWaitSet'[y] = WasOnWaitSet[y] /\ ret'[y] = ret[y] /\ y # t
      BY <1>1, <1>2, <1>14, <2>1, <2>7, <3>1 DEF Flags
    <3>. QED  BY <1>5, <1>6, <2>4, <2>5, <2>6, <2>7, <3>1, <3>2 DEF WaitInv, InIWait
  <2>8. CASE y # w[t]
    <3>1. Notified'[y] = Notified[y] /\ WasOnWaitSet'[y] = WasOnWaitSet[y]
      BY <1>1, <1>14, <2>1, <2>8 DEF Flags
    <3>2. ret'[y] \in InIWait <=> ret[y] \in InIWait
      BY <1>1, <1>2, <1>14 DEF Flags, CallerInv, InIWait
    <3>. QED  BY <1>6, <2>4, <2>6, <2>8, <3>1, <3>2 DEF WaitInv
  <2>. QED  BY <2>7, <2>8
<1>15. CASE Returns(t)
  <2>1. Unnotified(y)' <=> Unnotified(y)
    BY <1>2, <1>15 DEF Returns, Unnotified, HoldsNotifyee, NotifyLabels
  <2>2. CASE y = t
    <3>1. ~WasOnWaitSet'[t] /\ ret'[t] = "idle" /\ ~Waits(t) /\ ~Waits(t)'
      BY <1>1, <1>15 DEF Returns, Waits, WaitLabels, Releasing, Inner
    <3>. QED  BY <1>6, <2>1, <2>2, <3>1 DEF WaitInv, InIWait
  <2>3. CASE y # t
    <3>1. /\ Notified'[y] = Notified[y] /\ WasOnWaitSet'[y] = WasOnWaitSet[y]
          /\ ret'[y] = ret[y] /\ (Waits(y)' <=> Waits(y))
      BY <1>1, <1>2, <1>15, <2>3 DEF Returns
    <3>. QED  BY <1>6, <2>1, <3>1 DEF WaitInv
  <2>. QED  BY <2>2, <2>3
<1>. QED
  BY <1>8, <1>9, <1>10, <1>11, <1>12, <1>13, <1>14, <1>15 DEF NoteEffect

LEMMA InitNoteInv == Init => NoteInv
<1>. SUFFICES ASSUME Init, NEW t \in Thread
              PROVE  /\ CallerInv(t) /\ WaitInv(t) /\ HandInv(t)
                     /\ OwnInv(t) /\ EmptyInv(t)
  BY DEF NoteInv
<1>1. \A u \in Thread : pc[u] = "idle" /\ ret[u] = "idle" /\ w[u] = NULL
  BY DEF Init
<1>2. ~WasOnWaitSet[t] /\ Range(WaitSet) = {}
  BY ShortLists DEF Init
<1>3. CallerInv(t) /\ HandInv(t) /\ OwnInv(t) /\ EmptyInv(t)
  BY <1>1
  DEF CallerInv, HandInv, OwnInv, EmptyInv, WaitLabels, NotifyLabels, Releasing, Inner
<1>4. ~Waits(t) /\ ~Unnotified(t)
  BY <1>1, <1>2
  DEF Waits, Unnotified, HoldsNotifyee, NotifyLabels, WaitLabels, Releasing, Inner
<1>5. WaitInv(t)
  BY <1>1, <1>2, <1>4 DEF WaitInv, InIWait
<1>. QED  BY <1>3, <1>5

LEMMA OtherNoteInv ==
  ASSUME NoteInv, Quiesce \/ UNCHANGED vars PROVE NoteInv'
<1>1. /\ UNCHANGED <<cxq, EntryList, WaitSet, WaitLock, OnDeck, Notified>>
      /\ UNCHANGED <<pc, ret, w, List, WasOnWaitSet>>
  BY DEF Quiesce, vars
<1>2. \A u \in Thread : Transit(u)' = Transit(u)
  BY <1>1 DEF InTransit, Transit
<1>. SUFFICES ASSUME NEW t \in Thread
              PROVE  /\ CallerInv(t)' /\ WaitInv(t)' /\ HandInv(t)'
                     /\ OwnInv(t)' /\ EmptyInv(t)'
  BY DEF NoteInv
<1>3. CallerInv(t) /\ WaitInv(t) /\ HandInv(t) /\ OwnInv(t) /\ EmptyInv(t)
  BY DEF NoteInv
<1>4. CallerInv(t)' /\ HandInv(t)' /\ OwnInv(t)' /\ EmptyInv(t)'
  BY <1>1, <1>3 DEF CallerInv, HandInv, OwnInv, EmptyInv, Off
<1>5. WaitInv(t)'
  BY <1>1, <1>2, <1>3 DEF WaitInv, Waits, Unnotified, HoldsNotifyee, Queued
<1>. QED  BY <1>4, <1>5

LEMMA StepNoteInv ==
  ASSUME IInv, IInv', ListInv, NoteInv, 32 \notin NativeMonitorFlags,
         NEW t \in Thread, Run(t) \/ Call(t)
  PROVE  NoteInv'
<1>1. /\ ControlInv /\ DataInv /\ OneConsumer /\ OnDeckIsSelf /\ LocalInv(t)
      /\ CallerInv(t) /\ OwnInv(t) /\ EmptyInv(t)
  BY DEF IInv, DataInv, NoteInv
<1>2. ListTypes
  BY ListTypesHold
<1>3. ListEffect(t) /\ Frame(t)
  BY ListStep
<1>4. OnDeckEffect(t) /\ DataEffect(t)
  BY <1>1, StepEffect, DataEffectLemma
<1>5. NoteEffect(t) /\ CxqEffect(t)
  BY <1>1, NoteStep
<1>6. ASSUME NEW u \in Thread PROVE CallerInv(u)' /\ OwnInv(u)' /\ EmptyInv(u)'
  <2>1. CASE u = t
    BY <1>1, <2>1, CallerStep
  <2>2. CASE u # t
    BY <1>3, <1>4, <2>2, OthersNote
  <2>. QED  BY <2>1, <2>2
<1>7. \A u \in Thread : HandInv(u)'
  <2>1. w[t] \in Thread \/ pc[t] # "notifyPush"
    BY <1>1 DEF LocalInv
  <2>. QED  BY <1>2, <1>3, <1>5, <2>1, HandStep
<1>8. \A u \in Thread : WaitInv(u)'
  BY <1>2, <1>3, <1>4, <1>5, WaitStep
<1>. QED  BY <1>6, <1>7, <1>8 DEF NoteInv

\* The inductive invariant of the notifications, on top of that of the lists.
THEOREM NoteInvariance ==
  ASSUME 32 \notin NativeMonitorFlags PROVE Spec => []NoteInv
<1>1. Init => NoteInv
  BY InitNoteInv
<1>2. IInv /\ IInv' /\ ListInv /\ NoteInv /\ [Next]_vars => NoteInv'
  BY StepNoteInv, OtherNoteInv DEF Next
<1>. QED  BY <1>1, <1>2, Invariance, ListInvariance, PTL DEF Spec

\* No notification is lost and none is invented: IWait() returns "timed out"
\* exactly to the threads that no notify() has chosen.
THEOREM NotificationsAreKept ==
  ASSUME 32 \notin NativeMonitorFlags PROVE Spec => []NotificationsKept
<1>1. IInv /\ NoteInv => NotificationsKept
  <2>. SUFFICES ASSUME IInv, NoteInv, NEW t \in Thread
                PROVE  /\ InWait(t) /\ ~Notified[t] =>
                            t \in Range(WaitSet) \/ \E u \in Thread :
                                w[u] = t /\ pc[u] \in {"notifyPush", "notifyFlag"}
                       /\ InWait(t) /\ Notified[t] =>
                            \/ OnDeck = t \/ t \in Range(cxq \o EntryList)
                            \/ \E u \in Thread : t \in Range(InTransit(u))
                       /\ pc[t] = "set_owner" /\ ret[t] \in {"waitLoop", "suspended"} =>
                            WasOnWaitSet[t] = ~Notified[t]
    BY DEF NotificationsKept
  <2>1. WaitInv(t) /\ ListTypes
    BY ListTypesHold DEF NoteInv
  <2>2. InWait(t) => Waits(t)
    BY DEF InWait, Waits, WaitLabels
  <2>3. pc[t] = "set_owner" => ~Waits(t)
    BY DEF Waits, WaitLabels, Releasing, Inner
  <2>4. InWait(t) /\ ~Notified[t] =>
          t \in Range(WaitSet) \/ \E u \in Thread :
              w[u] = t /\ pc[u] \in {"notifyPush", "notifyFlag"}
    BY <2>1, <2>2 DEF WaitInv, Unnotified, HoldsNotifyee, NotifyLabels
  <2>5. InWait(t) /\ Notified[t] =>
          \/ OnDeck = t \/ t \in Range(cxq \o EntryList)
          \/ \E u \in Thread : t \in Range(InTransit(u))
    <3>1. Range(cxq) \cup Range(EntryList) \subseteq Range(cxq \o EntryList)
      BY <2>1, AppendFacts DEF ListTypes
    <3>. QED  BY <2>1, <2>2, <3>1 DEF WaitInv, Queued, Transit
  <2>6. pc[t] = "set_owner" /\ ret[t] \in {"waitLoop", "suspended"} =>
          WasOnWaitSet[t] = ~Notified[t]
    <3>1. Notified[t] \in BOOLEAN /\ WasOnWaitSet[t] \in BOOLEAN
      BY DEF IInv, DataInv, DataType
    <3>2. pc[t] = "set_owner" /\ ret[t] \in {"waitLoop", "suspended"} =>
            (WasOnWaitSet[t] <=> ~Notified[t])
      BY <2>1, <2>3 DEF WaitInv, InIWait
    <3>. QED  BY <3>1, <3>2
  <2>. QED  BY <2>4, <2>5, <2>6
<1>. QED  BY <1>1, Invariance, NoteInvariance, PTL

\* The assertions w != Thread::current()->_MutexEvent of IUnlock() hold.
THEOREM SuccessorIsAnother ==
  ASSUME 32 \notin NativeMonitorFlags PROVE Spec => []NeverOwnSuccessor
<1>1. NoteInv => NeverOwnSuccessor
  BY DEF NoteInv, OwnInv, NeverOwnSuccessor, Off
<1>. QED  BY <1>1, NoteInvariance, PTL

----------------------------------------------------------------------------
(* The succession.                                                         *)

\* t will see to a successor: it has yet to read OnDeck, or it knows that
\* somebody is queued.
Looks(t) ==
  \/ pc[t] \in {"readOnDeck", "sampleLockWord", "Succession"}
  \/ pc[t] = "sampleEntryList" /\ ~seen[t].locked /\ (cxq # <<>> => ~seen[t].empty)
  \/ pc[t] = "resample" /\ cxq # <<>>

\* t will unpark u if it is OnDeck.
Wakes(t, u) ==
  \/ pc[t] = "readOnDeck"
  \/ pc[t] \in {"recheckLock", "unpark"} /\ w[t] = u

\* While the lock is free, an OnDeck thread is awake or will be woken, and a
\* queued thread has somebody to see to it.
StrandInv ==
  /\ OnDeck # THREADPTR
  /\ ~LockByte =>
       /\ \A u \in Thread : OnDeck = u => Runs(u) \/ \E t \in Thread : Wakes(t, u)
       /\ OnDeck = NULL /\ (cxq # <<>> \/ EntryList # <<>>) => \E t \in Thread : Looks(t)

\* The points of IUnlock() at which a thread sees to the succession.
Serving == {"readOnDeck", "sampleLockWord", "sampleEntryList", "Succession", "resample",
            "recheckLock", "unpark"}

\* What a step of t does to the succession: nothing while the lock is held
\* after it; it drops the lock; it leaves the succession alone, and does not
\* park the OnDeck thread; or it is one of IUnlock()'s steps.
Stay(t) ==
  /\ UNCHANGED <<LockByte, cxq, EntryList, OnDeck>>
  /\ pc[t] \notin Serving /\ pc'[t] \notin Serving
  /\ OnDeck = t => Runs(t)'
  /\ \A u \in Thread \ {t} : Event'[u] = Event[u] /\ seen'[u] = seen[u]
Serves(t) ==
  \/ ReadOnDeck(t) \/ Unpark(t) \/ SampleLockWord(t) \/ SampleEntryList(t)
  \/ Succession(t) \/ WakeOne(t) \/ PassOnDeck(t) \/ RecheckLock(t)
  \/ Drain(t) \/ SetEntryList(t) \/ Punt(t) \/ Resample(t)
StrandEffect(t) ==
  \/ LockByte' = TRUE
  \/ LockByte /\ LockByte' = LockByte
  \/ pc'[t] = "readOnDeck" \/ Stay(t) \/ Serves(t)

\* Every step has one of these effects.
LEMMA StrandStep ==
  ASSUME IInv, ListInv, NoteInv, 32 \notin NativeMonitorFlags,
         NEW t \in Thread, Run(t) \/ Call(t)
  PROVE  StrandEffect(t)
<1>a. /\ pc \in [Thread -> Label] /\ ret \in [Thread -> Caller]
      /\ Event \in [Thread -> {0, 1}]
      /\ seen \in [Thread -> [locked : BOOLEAN, empty : BOOLEAN]]
      /\ pc[t] \in Locked => LockByte
  BY DEF IInv, ControlInv, DataInv, DataType, MutualExclusion, HasLock
<1>b. pc[t] = "waitLoop" /\ ~Notified[t] /\ ~LockByte => OnDeck # t
  <2>. SUFFICES ASSUME pc[t] = "waitLoop", ~Notified[t], ~LockByte PROVE OnDeck # t
    OBVIOUS
  <2>1. Unnotified(t)
    BY DEF NoteInv, WaitInv, Waits, WaitLabels
  <2>2. \A u \in Thread : pc[u] \notin NotifyLabels
    BY DEF IInv, MutualExclusion, HasLock, Locked, NotifyLabels
  <2>3. t \in Range(WaitSet)
    BY <2>1, <2>2 DEF Unnotified, HoldsNotifyee
  <2>. QED  BY <2>3 DEF ListInv, AtMostOneList, Listed
<1>. USE <1>a, <1>b DEF Locked, StrandEffect
<1>1. CASE ILock(t)
  BY <1>1 DEF ILock, TryFastAndSpin, Free, Stay, Serving, Runs
<1>2. CASE ResetEvent(t)
  BY <1>2 DEF ResetEvent, InnerFree, Stay, Serving, Runs
<1>3. CASE RawReset(t)
  BY <1>3 DEF RawReset, Stay, Serving, Runs
<1>4. CASE AcquireOrPush(t, "AcquireOrPush", "awaitOnDeck")
  BY <1>4 DEF AcquireOrPush, Free, Pushed, Stay, Serving, Runs
<1>5. CASE AcquireOrPush(t, "rawPush", "reenter")
  BY <1>5 DEF AcquireOrPush, Free, Pushed, Stay, Serving, Runs
<1>6. CASE AwaitOnDeck(t)
  BY <1>6 DEF AwaitOnDeck, IsOnDeck, Stay, Serving, Runs
<1>7. CASE ParkCommon(t, "parkAwait", "awaitOnDeck")
  BY <1>7 DEF ParkCommon, Stay, Serving, Runs
<1>8. CASE ParkCommon(t, "parkOnDeck", "OnDeck_LOOP")
  BY <1>8 DEF ParkCommon, Stay, Serving, Runs
<1>9. CASE ParkCommon(t, "parkReenter", "reenter")
  BY <1>9 DEF ParkCommon, Stay, Serving, Runs
<1>10. CASE OnDeck_LOOP(t)
  BY <1>10 DEF OnDeck_LOOP, TryFastAndSpin, Free, Stay, Serving, Runs
<1>11. CASE ClearOnDeck(t)
  BY <1>11 DEF ClearOnDeck, Stay, Serving, Runs
<1>12. CASE SetOwner(t)
  BY <1>12 DEF SetOwner, Stay, Serving, Runs
<1>13. CASE unlock(t)
  BY <1>13 DEF unlock, Stay, Serving, Runs
<1>14. CASE DropLock(t)
  BY <1>14 DEF DropLock
<1>15. CASE ReadOnDeck(t)
  BY <1>15 DEF Serves
<1>16. CASE Unpark(t)
  BY <1>16 DEF Serves
<1>17. CASE SampleLockWord(t)
  BY <1>17 DEF Serves
<1>18. CASE SampleEntryList(t)
  BY <1>18 DEF Serves
<1>19. CASE Succession(t)
  BY <1>19 DEF Serves
<1>20. CASE WakeOne(t)
  BY <1>20 DEF Serves
<1>21. CASE PassOnDeck(t)
  BY <1>21 DEF Serves
<1>22. CASE RecheckLock(t)
  BY <1>22 DEF Serves
<1>23. CASE Drain(t)
  BY <1>23 DEF Serves
<1>24. CASE SetEntryList(t)
  BY <1>24 DEF Serves
<1>25. CASE Punt(t)
  BY <1>25 DEF Serves
<1>26. CASE Resample(t)
  BY <1>26 DEF Serves
<1>27. CASE NotifyTest(t)
  BY <1>27 DEF NotifyTest, Stay, Serving, Runs
<1>28. CASE NotifyPop(t)
  BY <1>28 DEF NotifyPop, WaitSetTail, NotifyReturn, Stay, Serving, Runs
<1>29. CASE NotifyPush(t)
  BY <1>29 DEF NotifyPush, Pushed, Stay, Serving, Runs
<1>30. CASE NotifyFlag(t)
  BY <1>30 DEF NotifyFlag, NotifyReturn, Stay, Serving, Runs
<1>31. CASE NotifyUnpark(t)
  BY <1>31 DEF NotifyUnpark, Unparked, NotifyReturn, Stay, Serving, Runs
<1>32. CASE WaitAdd(t)
  BY <1>32 DEF WaitAdd, Stay, Serving, Runs
<1>33. CASE WaitLoop(t)
  BY <1>33 DEF WaitLoop, Stay, Serving, Runs
<1>34. CASE WaitPark(t)
  BY <1>34 DEF WaitPark, Stay, Serving, Runs
<1>35. CASE WaitDone(t)
  BY <1>35 DEF WaitDone, WasNotified, Stay, Serving, Runs
<1>36. CASE WaitUnlink(t)
  BY <1>36 DEF WaitUnlink, Stay, Serving, Runs
<1>37. CASE Reenter(t)
  BY <1>37 DEF Reenter, Free, IsOnDeck, Stay, Serving, Runs
<1>38. CASE lock(t)
  BY <1>38 DEF lock, Begin, Stay, Serving, Runs
<1>39. CASE try_lock(t)
  BY <1>39 DEF try_lock, Begin, Free, Stay, Serving, Runs
<1>40. CASE jvm_raw_lock(t)
  BY <1>40 DEF jvm_raw_lock, Begin, Free, Stay, Serving, Runs
<1>41. CASE SuspendAfterWait(t)
  BY <1>41 DEF SuspendAfterWait, Begin, Stay, Serving, Runs
<1>42. CASE Resumed(t)
  BY <1>42 DEF Resumed, Stay, Serving, Runs
<1>43. ASSUME NEW op \in Ops, notify(t, op)
      PROVE  StrandEffect(t)
  BY <1>43 DEF notify, Begin, Stay, Serving, Runs
<1>44. ASSUME NEW op \in Ops, wait(t, op)
      PROVE  StrandEffect(t)
  BY <1>44 DEF wait, Begin, Stay, Serving, Runs
<1>. QED
  BY ZenonT(30), <1>1, <1>2, <1>3, <1>4, <1>5, <1>6, <1>7, <1>8, <1>9, <1>10,
     <1>11, <1>12, <1>13, <1>14, <1>15, <1>16, <1>17, <1>18, <1>19, <1>20,
     <1>21, <1>22, <1>23, <1>24, <1>25, <1>26, <1>27, <1>28, <1>29, <1>30,
     <1>31, <1>32, <1>33, <1>34, <1>35, <1>36, <1>37, <1>38, <1>39, <1>40,
     <1>41, <1>42, <1>43, <1>44
  DEF Run, Call, Park

\* A step that leaves the shared words alone keeps whoever sees to the others.
LEMMA SeenTo ==
  ASSUME NEW t \in Thread, Frame(t), \A u \in Thread \ {t} : seen'[u] = seen[u]
  PROVE  /\ \A u \in Thread, s \in Thread \ {t} : Wakes(s, u) => Wakes(s, u)'
         /\ cxq' = cxq => \A s \in Thread \ {t} : Looks(s) => Looks(s)'
<1>1. \A s \in Thread \ {t} : pc'[s] = pc[s] /\ w'[s] = w[s] /\ seen'[s] = seen[s]
  BY DEF Frame
<1>. QED  BY <1>1 DEF Wakes, Looks

\* IUnlock()'s steps keep the invariant while the lock is free.
LEMMA ServeStep ==
  ASSUME IInv, NoteInv, StrandInv, NEW t \in Thread, Frame(t), Serves(t), ~LockByte
  PROVE  /\ \A u \in Thread : OnDeck' = u => Runs(u)' \/ \E s \in Thread : Wakes(s, u)'
         /\ OnDeck' = NULL /\ (cxq' # <<>> \/ EntryList' # <<>>) =>
              \E s \in Thread : Looks(s)'
<1>. USE ConstantsAssumption
<1>1. /\ pc \in [Thread -> Label] /\ w \in [Thread -> Thread \cup {NULL, THREADPTR}]
      /\ seen \in [Thread -> [locked : BOOLEAN, empty : BOOLEAN]]
      /\ Event \in [Thread -> {0, 1}]
      /\ LocalInv(t) /\ EmptyInv(t)
      /\ pc[t] \in Releasing => ret[t] \in {"idle", "waitLoop", "suspended"}
  BY DEF IInv, ControlInv, DataInv, DataType, NoteInv
<1>2. \A u \in Thread \ {t} : pc'[u] = pc[u]
  BY DEF Frame
<1>3. \A u \in Thread \ {t} : seen'[u] = seen[u]
  BY <1>1
  DEF Serves, ReadOnDeck, Unpark, SampleLockWord, SampleEntryList, Succession, WakeOne,
      PassOnDeck, RecheckLock, Drain, SetEntryList, Punt, Resample
<1>4. /\ \A u \in Thread, s \in Thread \ {t} : Wakes(s, u) => Wakes(s, u)'
      /\ cxq' = cxq => \A s \in Thread \ {t} : Looks(s) => Looks(s)'
  BY <1>3, SeenTo
<1>5. /\ \A u \in Thread : OnDeck = u => Runs(u) \/ \E s \in Thread : Wakes(s, u)
      /\ OnDeck = NULL /\ (cxq # <<>> \/ EntryList # <<>>) => \E s \in Thread : Looks(s)
  BY DEF StrandInv
<1>6. pc[t] \in Inner => OnDeck = LBIT
  BY DEF IInv, OneConsumer
<1>7. ASSUME UNCHANGED <<OnDeck, Event>>, \A u \in Thread : Wakes(t, u) => Wakes(t, u)',
             pc'[t] \in Releasing \cup {"idle", "waitLoop", "suspended"}
      PROVE  \A u \in Thread : OnDeck' = u => Runs(u)' \/ \E s \in Thread : Wakes(s, u)'
  <2>1. \A u \in Thread : Runs(u) => Runs(u)'
    BY <1>2, <1>7 DEF Runs, Releasing, Inner
  <2>. QED  BY <1>4, <1>5, <1>7, <2>1
<1>8. CASE ReadOnDeck(t)
  <2>1. UNCHANGED <<cxq, EntryList, OnDeck>> /\ pc[t] = "readOnDeck"
    BY <1>8 DEF ReadOnDeck
  <2>2. ASSUME NEW u \in Thread, OnDeck = u PROVE Wakes(t, u)'
    BY <1>1, <1>8, <2>2 DEF ReadOnDeck, Wakes
  <2>3. ASSUME OnDeck = NULL PROVE Looks(t)'
    BY <1>1, <1>8, <2>3 DEF ReadOnDeck, Looks
  <2>. QED  BY <2>1, <2>2, <2>3
<1>9. CASE Unpark(t)
  <2>1. UNCHANGED <<cxq, EntryList, OnDeck>> /\ pc[t] = "unpark" /\ pc'[t] = ret[t]
    BY <1>1, <1>9 DEF Unpark, Return
  <2>2. ~Looks(t) /\ \A u \in Thread : Wakes(t, u) => w[t] = u
    BY <2>1 DEF Looks, Wakes
  <2>3. \A u \in Thread : (Event'[u] = Event[u] \/ Event'[u] = 1) /\ (w[t] = u => Event'[u] = 1)
    BY <1>9 DEF Unpark, Unparked, Signalled
  <2>4. ret[t] \in {"idle", "waitLoop", "suspended"}
    BY <1>1, <2>1 DEF Releasing
  <2>5. \A u \in Thread : Runs(u) \/ w[t] = u => Runs(u)'
    BY <1>2, <2>1, <2>3, <2>4 DEF Runs
  <2>6. ASSUME NEW u \in Thread, OnDeck = u PROVE Runs(u)' \/ \E s \in Thread : Wakes(s, u)'
    BY <1>4, <1>5, <2>2, <2>5, <2>6
  <2>. QED  BY <1>4, <1>5, <2>1, <2>2, <2>6
<1>10. CASE SampleLockWord(t)
  <2>1. /\ UNCHANGED <<cxq, EntryList, OnDeck, Event>>
        /\ pc[t] = "sampleLockWord" /\ pc'[t] = "sampleEntryList"
    BY <1>1, <1>10 DEF SampleLockWord
  <2>2. \A u \in Thread : ~Wakes(t, u)
    BY <2>1 DEF Wakes
  <2>3. Looks(t)'
    BY <1>1, <1>10, <2>1 DEF SampleLockWord, Looks
  <2>4. pc'[t] \in Releasing
    BY <2>1 DEF Releasing
  <2>. QED  BY <1>7, <2>1, <2>2, <2>3, <2>4
<1>11. CASE SampleEntryList(t)
  <2>1. /\ UNCHANGED <<cxq, EntryList, OnDeck, Event>> /\ pc[t] = "sampleEntryList"
        /\ pc'[t] = IF NoSuccession(t) THEN ret[t] ELSE "Succession"
    BY <1>1, <1>11 DEF SampleEntryList, Return
  <2>2. \A u \in Thread : ~Wakes(t, u)
    BY <2>1 DEF Wakes
  <2>3. Looks(t) /\ (cxq # <<>> \/ EntryList # <<>>) => Looks(t)'
    BY <2>1 DEF Looks, NoSuccession
  <2>4. pc'[t] \in Releasing \cup {"idle", "waitLoop", "suspended"}
    BY <1>1, <2>1 DEF Releasing
  <2>5. \A u \in Thread : OnDeck' = u => Runs(u)' \/ \E s \in Thread : Wakes(s, u)'
    BY <1>7, <2>1, <2>2, <2>4
  <2>. QED  BY <1>4, <1>5, <2>1, <2>3, <2>5
<1>12. CASE Succession(t)
  <2>1. CASE OnDeck = NULL
    BY <1>12, <2>1 DEF Succession, InnerFree
  <2>2. CASE OnDeck # NULL
    <3>1. UNCHANGED <<cxq, EntryList, OnDeck, Event>> /\ pc[t] = "Succession" /\ pc'[t] = ret[t]
      BY <1>1, <1>12, <2>2 DEF Succession, InnerFree, Return
    <3>2. \A u \in Thread : ~Wakes(t, u)
      BY <3>1 DEF Wakes
    <3>3. pc'[t] \in Releasing \cup {"idle", "waitLoop", "suspended"}
      BY <1>1, <3>1 DEF Releasing
    <3>. QED  BY <1>7, <2>2, <3>1, <3>2, <3>3
  <2>. QED  BY <2>1, <2>2
<1>13. CASE WakeOne(t) \/ Drain(t) \/ SetEntryList(t)
  <2>1. OnDeck' = OnDeck /\ pc[t] \in Inner
    BY <1>13 DEF WakeOne, Drain, SetEntryList, Inner
  <2>. QED  BY <1>6, <2>1
<1>14. CASE PassOnDeck(t)
  <2>1. /\ OnDeck' = w[t] /\ w[t] \in Thread /\ w'[t] = w[t]
        /\ pc'[t] = "recheckLock"
    BY <1>1, <1>14 DEF PassOnDeck, LocalInv
  <2>2. \A u \in Thread : OnDeck' = u => Wakes(t, u)'
    BY <2>1 DEF Wakes
  <2>. QED  BY <2>1, <2>2
<1>15. CASE RecheckLock(t)
  <2>1. /\ UNCHANGED <<cxq, EntryList, OnDeck, Event, w>>
        /\ pc[t] = "recheckLock" /\ pc'[t] = "unpark"
    BY <1>1, <1>15 DEF RecheckLock, Delegated
  <2>2. ~Looks(t) /\ \A u \in Thread : Wakes(t, u) => Wakes(t, u)'
    BY <2>1 DEF Looks, Wakes
  <2>3. pc'[t] \in Releasing
    BY <2>1 DEF Releasing
  <2>4. \A u \in Thread : OnDeck' = u => Runs(u)' \/ \E s \in Thread : Wakes(s, u)'
    BY <1>7, <2>1, <2>2, <2>3
  <2>. QED  BY <1>4, <1>5, <2>1, <2>2, <2>4
<1>16. CASE Punt(t)
  <2>1. /\ OnDeck' = NULL /\ UNCHANGED <<cxq, EntryList>> /\ EntryList = <<>>
        /\ pc'[t] = "resample"
    BY <1>1, <1>16 DEF Punt, EmptyInv
  <2>2. cxq # <<>> => Looks(t)'
    BY <2>1 DEF Looks
  <2>. QED  BY <2>1, <2>2
<1>17. CASE Resample(t)
  <2>1. /\ UNCHANGED <<cxq, EntryList, OnDeck, Event>> /\ pc[t] = "resample"
        /\ pc'[t] = IF cxq # <<>> THEN "Succession" ELSE ret[t]
    BY <1>1, <1>17 DEF Resample, LateArrival, Return
  <2>2. \A u \in Thread : ~Wakes(t, u)
    BY <2>1 DEF Wakes
  <2>3. Looks(t) => Looks(t)'
    BY <2>1 DEF Looks
  <2>4. pc'[t] \in Releasing \cup {"idle", "waitLoop", "suspended"}
    BY <1>1, <2>1 DEF Releasing
  <2>5. \A u \in Thread : OnDeck' = u => Runs(u)' \/ \E s \in Thread : Wakes(s, u)'
    BY <1>7, <2>1, <2>2, <2>4
  <2>. QED  BY <1>4, <1>5, <2>1, <2>3, <2>5
<1>. QED
  BY <1>8, <1>9, <1>10, <1>11, <1>12, <1>13, <1>14, <1>15, <1>16, <1>17 DEF Serves

LEMMA StepStrandInv ==
  ASSUME IInv, IInv', ListInv, NoteInv, StrandInv, 32 \notin NativeMonitorFlags,
         NEW t \in Thread, Run(t) \/ Call(t)
  PROVE  StrandInv'
<1>. USE ConstantsAssumption
<1>1. ControlInv /\ OneConsumer /\ OnDeckIsSelf /\ LocalInv(t)
  BY DEF IInv, DataInv
<1>2. OnDeckEffect(t) /\ Frame(t) /\ StrandEffect(t)
  BY <1>1, StepEffect, ListStep, StrandStep
<1>3. OnDeck' # THREADPTR
  BY <1>1, <1>2 DEF OnDeckEffect, LocalInv, StrandInv
<1>4. ASSUME ~LockByte'
      PROVE  /\ \A u \in Thread : OnDeck' = u => Runs(u)' \/ \E s \in Thread : Wakes(s, u)'
             /\ OnDeck' = NULL /\ (cxq' # <<>> \/ EntryList' # <<>>) =>
                  \E s \in Thread : Looks(s)'
  <2>1. CASE LockByte' = TRUE
    BY SMT, <1>4, <2>1
  <2>2. CASE LockByte /\ LockByte' = LockByte
    BY SMT, <1>4, <2>2
  <2>3. CASE pc'[t] = "readOnDeck"
    <3>1. Looks(t)' /\ \A u \in Thread : Wakes(t, u)'
      BY <2>3 DEF Looks, Wakes
    <3>. QED  BY <3>1
  <2>4. CASE Stay(t)
    <3>1. ~LockByte /\ UNCHANGED <<cxq, EntryList, OnDeck>>
      BY SMT, <1>4, <2>4 DEF Stay
    <3>2. /\ \A u \in Thread, s \in Thread \ {t} : Wakes(s, u) => Wakes(s, u)'
          /\ \A s \in Thread \ {t} : Looks(s) => Looks(s)'
      BY <1>2, <2>4, <3>1, SeenTo DEF Stay
    <3>3. ~Looks(t) /\ \A u \in Thread : ~Wakes(t, u)
      BY <2>4 DEF Stay, Serving, Looks, Wakes
    <3>4. \A u \in Thread : OnDeck = u /\ Runs(u) => Runs(u)'
      <4>1. \A u \in Thread \ {t} : Runs(u) => Runs(u)'
        BY <1>2, <2>4 DEF Stay, Frame, Runs
      <4>. QED  BY <2>4, <4>1 DEF Stay
    <3>. QED  BY <3>1, <3>2, <3>3, <3>4 DEF StrandInv
  <2>5. CASE Serves(t)
    <3>1. ~LockByte
      <4>1. LockByte' = LockByte
        BY <2>5
        DEF Serves, ReadOnDeck, Unpark, SampleLockWord, SampleEntryList, Succession, WakeOne,
            PassOnDeck, RecheckLock, Drain, SetEntryList, Punt, Resample
      <4>. QED  BY SMT, <1>4, <4>1
    <3>. QED  BY <1>2, <2>5, <3>1, ServeStep
  <2>. QED  BY <1>2, <2>1, <2>2, <2>3, <2>4, <2>5 DEF StrandEffect
<1>. QED  BY <1>3, <1>4 DEF StrandInv

LEMMA OtherStrandInv ==
  ASSUME StrandInv, Quiesce \/ UNCHANGED vars PROVE StrandInv'
<1>1. /\ UNCHANGED <<LockByte, cxq, EntryList, OnDeck>>
      /\ UNCHANGED <<Event, pc, w, seen>>
  BY DEF Quiesce, vars
<1>. QED  BY <1>1 DEF StrandInv, Runs, Wakes, Looks

\* The inductive invariant of the succession.
THEOREM StrandInvariance ==
  ASSUME 32 \notin NativeMonitorFlags PROVE Spec => []StrandInv
<1>1. Init => StrandInv
  <2>. SUFFICES ASSUME Init PROVE StrandInv
    OBVIOUS
  <2>1. cxq = <<>> /\ EntryList = <<>> /\ OnDeck = NULL
    BY DEF Init
  <2>. QED  BY <2>1, ConstantsAssumption DEF StrandInv
<1>2. IInv /\ IInv' /\ ListInv /\ NoteInv /\ StrandInv /\ [Next]_vars => StrandInv'
  BY StepStrandInv, OtherStrandInv DEF Next
<1>. QED  BY <1>1, <1>2, Invariance, ListInvariance, NoteInvariance, PTL DEF Spec

\* No stranding, for any number of threads: while the lock is free, whoever is
\* queued for it has an exiting thread to wake them, or is OnDeck and awake.
THEOREM NobodyStranded ==
  ASSUME 32 \notin NativeMonitorFlags PROVE Spec => []NoStranding
<1>1. IInv /\ StrandInv => NoStranding
  <2>. SUFFICES ASSUME IInv, StrandInv, ~LockByte, cxq \o EntryList # <<>> \/ OnDeck # NULL
                PROVE  \/ \E t \in Thread : pc[t] \in Releasing
                       \/ \E t \in Thread : OnDeck = t /\ Runs(t)
    BY DEF NoStranding
  <2>1. OnDeck \in Thread \cup {NULL, LBIT} /\ OneConsumer
    BY DEF IInv, DataInv, DataType, StrandInv
  <2>2. \A t, u \in Thread : Wakes(t, u) \/ Looks(t) => pc[t] \in Releasing
    BY DEF Wakes, Looks, Releasing
  <2>3. CASE OnDeck \in Thread
    BY <2>2, <2>3 DEF StrandInv
  <2>4. CASE OnDeck = LBIT
    BY <2>1, <2>4 DEF OneConsumer, Releasing
  <2>5. CASE OnDeck = NULL
    <3>1. cxq # <<>> \/ EntryList # <<>>
      BY SMT, <2>5
    <3>. QED  BY <2>2, <2>5, <3>1 DEF StrandInv
  <2>. QED  BY <2>1, <2>3, <2>4, <2>5
<1>. QED  BY <1>1, Invariance, StrandInvariance, PTL

=============================================================================
