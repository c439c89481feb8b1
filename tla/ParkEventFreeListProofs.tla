---------------------- MODULE ParkEventFreeListProofs ----------------------
(***************************************************************************)
(* Proofs about ParkEventFreeList, for any threads and any events.         *)
(*                                                                         *)
(* A list is the smallest set that its head is in and FreeNext does not    *)
(* lead out of; what the proofs need to know about lists (what a push, a   *)
(* pop and an append make of them) follows from that by set reasoning, not *)
(* by induction on their length.                                           *)
(***************************************************************************)
EXTENDS ParkEventFreeList, TLAPS

\* Zenon proves most leaves; those that say so are left to SMT.
USE ZenonT(40)

----------------------------------------------------------------------------
(* Lists.                                                                  *)

\* A list contains its head and every successor that is not NULL; the list at
\* NULL is empty.
LEMMA ReachFacts ==
  ASSUME NEW f \in [ParkEvent -> Ptr], NEW p \in Ptr
  PROVE  /\ Reach(f, p) \subseteq ParkEvent
         /\ p # NULL => p \in Reach(f, p)
         /\ \A e \in Reach(f, p) : f[e] \in Reach(f, p) \cup {NULL}
         /\ p = NULL => Reach(f, p) = {}
<1>1. Reach(f, p) \subseteq ParkEvent
  BY DEF Reach
<1>2. p # NULL => p \in Reach(f, p)
  BY DEF Reach, Ptr
<1>3. ASSUME NEW e \in Reach(f, p), f[e] # NULL PROVE f[e] \in Reach(f, p)
  BY <1>3, FreeListAssumption DEF Reach, Ptr
<1>4. ASSUME p = NULL PROVE Reach(f, p) = {}
  <2>1. {} \in SUBSET ParkEvent
    OBVIOUS
  <2>. QED BY <1>4, <2>1 DEF Reach
<1>. QED BY <1>1, <1>2, <1>3, <1>4

\* It is the smallest such set.
LEMMA ReachLeast ==
  ASSUME NEW f \in [ParkEvent -> Ptr], NEW p \in Ptr, NEW S \in SUBSET ParkEvent,
         p \in S \cup {NULL}, \A x \in S : f[x] \in S \cup {NULL}
  PROVE  Reach(f, p) \subseteq S
  BY DEF Reach

\* What links the events of a list says which events those are.
LEMMA ReachFrame ==
  ASSUME NEW f \in [ParkEvent -> Ptr], NEW g \in [ParkEvent -> Ptr], NEW p \in Ptr,
         \A e \in Reach(f, p) : g[e] = f[e]
  PROVE  Reach(g, p) = Reach(f, p)
<1>1. Reach(g, p) \subseteq Reach(f, p)
  <2>1. Reach(f, p) \in SUBSET ParkEvent /\ p \in Reach(f, p) \cup {NULL}
    BY ReachFacts
  <2>2. \A x \in Reach(f, p) : g[x] \in Reach(f, p) \cup {NULL}
    BY ReachFacts
  <2>. QED BY <2>1, <2>2, ReachLeast
<1>2. Reach(f, p) \subseteq Reach(g, p)
  <2>1. Reach(g, p) \in SUBSET ParkEvent /\ p \in Reach(g, p) \cup {NULL}
    BY ReachFacts
  <2>2. \A x \in Reach(g, p) : f[x] \in Reach(g, p) \cup {NULL}
    BY <1>1, ReachFacts
  <2>. QED BY <2>1, <2>2, ReachLeast
<1>. QED BY <1>1, <1>2

\* A list is its head and the list of its successor.
LEMMA ReachStep ==
  ASSUME NEW f \in [ParkEvent -> Ptr], NEW p \in ParkEvent
  PROVE  /\ f[p] \in Ptr /\ Reach(f, p) = {p} \cup Reach(f, f[p])
<1>1. p \in Ptr /\ p # NULL /\ f[p] \in Ptr
  BY FreeListAssumption DEF Ptr
<1>2. Reach(f, p) \subseteq {p} \cup Reach(f, f[p])
  <2>. DEFINE S == {p} \cup Reach(f, f[p])
  <2>1. S \in SUBSET ParkEvent /\ p \in S \cup {NULL}
    BY <1>1, ReachFacts
  <2>2. \A x \in S : f[x] \in S \cup {NULL}
    BY <1>1, ReachFacts
  <2>. HIDE DEF S
  <2>3. Reach(f, p) \subseteq S
    BY <1>1, <2>1, <2>2, ReachLeast
  <2>. QED BY <2>3 DEF S
<1>3. Reach(f, f[p]) \subseteq Reach(f, p)
  <2>1. Reach(f, p) \in SUBSET ParkEvent /\ f[p] \in Reach(f, p) \cup {NULL}
    BY <1>1, ReachFacts
  <2>2. \A x \in Reach(f, p) : f[x] \in Reach(f, p) \cup {NULL}
    BY <1>1, ReachFacts
  <2>. QED BY <1>1, <2>1, <2>2, ReachLeast
<1>. QED BY <1>1, <1>2, <1>3, ReachFacts

\* The list ends: no part of it is a loop.
Ends(f, p) == \A S \in SUBSET Reach(f, p) : S # {} => \E e \in S : f[e] \notin S

LEMMA EmptyList ==
  ASSUME NEW f \in [ParkEvent -> Ptr]
  PROVE  Reach(f, NULL) = {} /\ Ends(f, NULL)
<1>1. Reach(f, NULL) = {}
  BY ReachFacts DEF Ptr
<1>. QED BY <1>1 DEF Ends

LEMMA EndsFrame ==
  ASSUME NEW f \in [ParkEvent -> Ptr], NEW g \in [ParkEvent -> Ptr], NEW p \in Ptr,
         \A e \in Reach(f, p) : g[e] = f[e], Ends(f, p)
  PROVE  Ends(g, p)
<1>1. Reach(g, p) = Reach(f, p)
  BY ReachFrame
<1>. QED BY <1>1 DEF Ends

\* Popping the head: it is not on the rest.
LEMMA EndsStep ==
  ASSUME NEW f \in [ParkEvent -> Ptr], NEW p \in ParkEvent, Ends(f, p)
  PROVE  Ends(f, f[p]) /\ p \notin Reach(f, f[p])
<1>1. f[p] \in Ptr /\ Reach(f, p) = {p} \cup Reach(f, f[p])
  BY ReachStep
<1>2. Ends(f, f[p])
  BY <1>1 DEF Ends
<1>3. ASSUME p \in Reach(f, f[p]) PROVE FALSE
  <2>. DEFINE S == {e \in Reach(f, p) : p \in Reach(f, e)}
  <2>1. S \in SUBSET Reach(f, p) /\ p \in S
    BY <1>1, <1>3
  <2>2. ASSUME NEW e \in S PROVE f[e] \in S
    <3>1. e \in ParkEvent /\ f[e] \in Ptr /\ Reach(f, e) = {e} \cup Reach(f, f[e])
      BY ReachStep, ReachFacts DEF Ptr
    <3>2. p \in Reach(f, f[e])
      BY <1>3, <3>1
    <3>3. f[e] # NULL
      BY <3>1, <3>2, ReachFacts
    <3>. QED BY <3>2, <3>3, ReachFacts DEF Ptr
  <2>. QED BY <2>1, <2>2 DEF Ends
<1>. QED BY <1>2, <1>3

\* Pushing an event that is not on the list.
LEMMA EndsPush ==
  ASSUME NEW f \in [ParkEvent -> Ptr], NEW p \in ParkEvent, Ends(f, f[p]),
         p \notin Reach(f, f[p])
  PROVE  Ends(f, p)
<1>1. f[p] \in Ptr /\ Reach(f, p) = {p} \cup Reach(f, f[p])
  BY ReachStep
<1>. SUFFICES ASSUME NEW S \in SUBSET Reach(f, p), S # {}
              PROVE  \E e \in S : f[e] \notin S
  BY DEF Ends
<1>2. CASE S \cap Reach(f, f[p]) = {}
  <2>1. S = {p}
    BY <1>1, <1>2
  <2>2. f[p] # p
    BY <1>1, ReachFacts, FreeListAssumption
  <2>. QED BY <2>1, <2>2
<1>3. CASE S \cap Reach(f, f[p]) # {}
  <2>. DEFINE R == S \cap Reach(f, f[p])
  <2>1. PICK e \in R : f[e] \notin R
    BY <1>3 DEF Ends
  <2>2. f[e] \in Reach(f, f[p]) \cup {NULL} /\ NULL \notin S
    BY <1>1, ReachFacts, FreeListAssumption
  <2>. QED BY <2>1, <2>2
<1>. QED BY <1>2, <1>3

\* Appending the list at q to the list at p, at an end l of it.
LEMMA ReachAppend ==
  ASSUME NEW f \in [ParkEvent -> Ptr], NEW p \in Ptr, NEW q \in Ptr,
         Ends(f, p), Ends(f, q), Reach(f, p) \cap Reach(f, q) = {},
         NEW l \in ParkEvent, l \in Reach(f, p), f[l] = NULL,
         NEW g \in [ParkEvent -> Ptr], g[l] = q, \A e \in ParkEvent \ {l} : g[e] = f[e]
  PROVE  Reach(g, p) = Reach(f, p) \cup Reach(f, q) /\ Ends(g, p)
<1>f. /\ Reach(f, p) \subseteq ParkEvent /\ p \in Reach(f, p) \cup {NULL}
      /\ \A x \in Reach(f, p) : f[x] \in Reach(f, p) \cup {NULL}
  BY ReachFacts
<1>q. /\ Reach(f, q) \subseteq ParkEvent /\ q \in Reach(f, q) \cup {NULL}
      /\ \A x \in Reach(f, q) : f[x] \in Reach(f, q) \cup {NULL}
  BY ReachFacts
<1>g. /\ Reach(g, p) \in SUBSET ParkEvent /\ p \in Reach(g, p) \cup {NULL}
      /\ \A x \in Reach(g, p) : g[x] \in Reach(g, p) \cup {NULL}
  BY ReachFacts
<1>2. Reach(g, q) = Reach(f, q)
  <2>1. \A e \in Reach(f, q) : g[e] = f[e]
    BY <1>q
  <2>. QED BY <2>1, ReachFrame
<1>3. Reach(g, p) \subseteq Reach(f, p) \cup Reach(f, q)
  <2>. DEFINE S == Reach(f, p) \cup Reach(f, q)
  <2>1. S \in SUBSET ParkEvent /\ p \in S \cup {NULL}
    BY <1>f, <1>q
  <2>2. \A x \in S : g[x] \in S \cup {NULL}
    BY <1>f, <1>q
  <2>. HIDE DEF S
  <2>3. Reach(g, p) \subseteq S
    BY <2>1, <2>2, ReachLeast
  <2>. QED BY <2>3 DEF S
<1>4. Reach(f, p) \subseteq Reach(g, p)
  <2>1. ASSUME NEW x \in Reach(g, p) PROVE f[x] \in Reach(g, p) \cup {NULL}
    <3>1. x = l \/ g[x] = f[x]
      BY <1>g
    <3>2. g[x] \in Reach(g, p) \cup {NULL}
      BY <1>g
    <3>. QED BY <3>1, <3>2
  <2>. QED BY <1>g, <2>1, ReachLeast
<1>5. Reach(f, q) \subseteq Reach(g, p)
  <2>1. q \in Reach(g, p) \cup {NULL}
    BY <1>4, <1>g
  <2>. DEFINE S == Reach(g, p)
  <2>2. S \in SUBSET ParkEvent /\ q \in S \cup {NULL} /\ \A x \in S : g[x] \in S \cup {NULL}
    BY <1>g, <2>1
  <2>. HIDE DEF S
  <2>3. Reach(g, q) \subseteq S
    BY <2>2, ReachLeast
  <2>. QED BY <1>2, <2>3 DEF S
<1>6. ASSUME NEW S \in SUBSET Reach(g, p), S # {}
      PROVE  \E e \in S : g[e] \notin S
  <2>0. NULL \notin S
    BY <1>g, FreeListAssumption
  <2>1. CASE S \cap Reach(f, q) = {}
    <3>1. S \in SUBSET Reach(f, p)
      BY <1>3, <2>1
    <3>2. PICK e \in S : f[e] \notin S
      BY <1>6, <3>1 DEF Ends
    <3>3. q \notin S
      BY <2>0, <2>1, <1>q
    <3>. QED BY <1>f, <3>1, <3>2, <3>3
  <2>2. CASE S \cap Reach(f, q) # {}
    <3>. DEFINE R == S \cap Reach(f, q)
    <3>1. PICK e \in R : f[e] \notin R
      BY <2>2 DEF Ends
    <3>2. g[e] = f[e] /\ f[e] \in Reach(f, q) \cup {NULL}
      BY <1>q
    <3>. QED BY <2>0, <3>1, <3>2
  <2>. QED BY <2>1, <2>2
<1>7. Reach(g, p) = Reach(f, p) \cup Reach(f, q)
  BY <1>3, <1>4, <1>5
<1>. QED BY <1>6, <1>7 DEF Ends
----------------------------------------------------------------------------
(* The inductive invariant.                                                *)

\* The lists that a thread has to itself end and share no event, and the event it
\* is about to take is on none of them; the one it is about to push is linked to
\* what it saw as the head.
ThreadInv(t) ==
  /\ pc[t] = "extract" => Ends(FreeNext, ev[t])
  /\ pc[t] \in {"reattach", "detachArv", "merge"} =>
       Ends(FreeNext, List[t]) /\ ev[t] \notin Chain(List[t])
  /\ pc[t] = "merge" => /\ Ends(FreeNext, Arv[t]) /\ ev[t] \notin Chain(Arv[t])
                        /\ Chain(List[t]) \cap Chain(Arv[t]) = {}
  /\ pc[t] = "push" => FreeNext[ev[t]] = List[t]

\* An event is associated with the thread that has allocated it, if any, and is
\* linked to nothing then.
Associations ==
  /\ \A t \in Thread : \A e \in holds[t] :
       FreeNext[e] = NULL /\ AssociatedWith[e] = t
  /\ \A e \in ParkEvent :
       (\A t \in Thread : e \notin holds[t]) => AssociatedWith[e] = NULL

Inv ==
  /\ TypeOK /\ InOneHand /\ Associations
  /\ Ends(FreeNext, FreeList)
  /\ \A t \in Thread : ThreadInv(t)

\* A step of t leaves the locals and the events of the other threads alone, ...
Others(t) ==
  \A u \in Thread \ {t} : /\ pc'[u] = pc[u] /\ ev'[u] = ev[u]
                          /\ List'[u] = List[u] /\ Arv'[u] = Arv[u]
                          /\ holds'[u] = holds[u]

\* ... and links only events that t has.
LinksOwn(t) == \A e \in ParkEvent \ Has(t) : FreeNext'[e] = FreeNext[e]

LEMMA PrivateFacts ==
  ASSUME NEW t \in Thread
  PROVE  /\ pc[t] = "extract" => Private(t) = Chain(ev[t])
         /\ pc[t] \in {"reattach", "detachArv"} =>
              Private(t) = {ev[t]} \cup Chain(List[t])
         /\ pc[t] = "merge" =>
              Private(t) = {ev[t]} \cup Chain(List[t]) \cup Chain(Arv[t])
         /\ pc[t] \in {"take", "push"} => Private(t) = {ev[t]}
         /\ pc[t] \in {"idle", "detach", "new"} => Private(t) = {}
  BY DEF Private

LEMMA PrivateFactsPrime ==
  ASSUME NEW t \in Thread
  PROVE  /\ pc'[t] = "extract" => Private(t)' = Reach(FreeNext', ev'[t])
         /\ pc'[t] \in {"reattach", "detachArv"} =>
              Private(t)' = {ev'[t]} \cup Reach(FreeNext', List'[t])
         /\ pc'[t] = "merge" =>
              Private(t)' = {ev'[t]} \cup Reach(FreeNext', List'[t])
                                    \cup Reach(FreeNext', Arv'[t])
         /\ pc'[t] \in {"take", "push"} => Private(t)' = {ev'[t]}
         /\ pc'[t] \in {"idle", "detach", "new"} => Private(t)' = {}
  BY DEF Private, Chain

\* A list of events that are not with t is not touched by a step of t.
LEMMA ChainKept ==
  ASSUME TypeOK, TypeOK', NEW t \in Thread, LinksOwn(t),
         NEW p \in Ptr, Has(t) \cap Chain(p) = {}
  PROVE  /\ Reach(FreeNext', p) = Chain(p)
         /\ Ends(FreeNext, p) => Ends(FreeNext', p)
<1>1. FreeNext \in [ParkEvent -> Ptr] /\ FreeNext' \in [ParkEvent -> Ptr]
  BY DEF TypeOK
<1>2. \A e \in Reach(FreeNext, p) : FreeNext'[e] = FreeNext[e]
  BY <1>1, ReachFacts DEF LinksOwn, Chain
<1>. QED BY <1>1, <1>2, ReachFrame, EndsFrame DEF Chain

\* Neither are the lists of another thread.
LEMMA OthersKept ==
  ASSUME Inv, TypeOK', NEW t \in Thread, Others(t), LinksOwn(t),
         NEW u \in Thread \ {t}
  PROVE  Private(u)' = Private(u) /\ ThreadInv(u)'
<1>1. /\ ThreadInv(u) /\ Has(t) \cap Private(u) = {}
      /\ ev[u] \in Ptr /\ List[u] \in Ptr /\ Arv[u] \in Ptr
      /\ pc[u] \in {"idle", "detach", "extract", "reattach", "detachArv",
                    "merge", "take", "new", "push"}
      /\ pc[u] \notin {"idle", "new"} => ev[u] # NULL
  BY DEF Inv, TypeOK, InOneHand, Has
<1>2. pc'[u] = pc[u] /\ ev'[u] = ev[u] /\ List'[u] = List[u] /\ Arv'[u] = Arv[u]
  BY DEF Others
<1>3. CASE pc[u] \in {"idle", "detach", "new"}
  BY <1>2, <1>3, PrivateFacts, PrivateFactsPrime DEF ThreadInv
<1>4. CASE pc[u] = "take"
  BY <1>2, <1>4, PrivateFacts, PrivateFactsPrime DEF ThreadInv
<1>5. CASE pc[u] = "push"
  <2>1. ev[u] \in ParkEvent \ Has(t)
    BY <1>1, <1>5, PrivateFacts DEF Ptr
  <2>2. FreeNext'[ev[u]] = List[u]
    BY <1>1, <1>5, <2>1 DEF LinksOwn, ThreadInv
  <2>3. Private(u)' = Private(u)
    BY <1>2, <1>5, PrivateFacts, PrivateFactsPrime
  <2>. QED BY <1>2, <1>5, <2>2, <2>3 DEF ThreadInv
<1>6. CASE pc[u] = "extract"
  <2>1. Has(t) \cap Chain(ev[u]) = {}
    BY <1>1, <1>6, PrivateFacts
  <2>2. Reach(FreeNext', ev[u]) = Chain(ev[u]) /\ Ends(FreeNext', ev[u])
    BY <1>1, <1>6, <2>1, ChainKept DEF ThreadInv, Inv
  <2>3. Private(u)' = Private(u)
    BY <1>2, <1>6, <2>2, PrivateFacts, PrivateFactsPrime
  <2>. QED BY <1>2, <1>6, <2>2, <2>3 DEF ThreadInv
<1>7. CASE pc[u] \in {"reattach", "detachArv"}
  <2>1. Has(t) \cap Chain(List[u]) = {}
    BY <1>1, <1>7, PrivateFacts
  <2>2. Reach(FreeNext', List[u]) = Chain(List[u]) /\ Ends(FreeNext', List[u])
    BY <1>1, <1>7, <2>1, ChainKept DEF ThreadInv, Inv
  <2>3. Private(u)' = Private(u)
    BY <1>2, <1>7, <2>2, PrivateFacts, PrivateFactsPrime
  <2>4. ThreadInv(u)'
    BY <1>1, <1>2, <1>7, <2>2 DEF ThreadInv, Chain
  <2>. QED BY <2>3, <2>4
<1>8. CASE pc[u] = "merge"
  <2>1. Has(t) \cap Chain(List[u]) = {} /\ Has(t) \cap Chain(Arv[u]) = {}
    BY <1>1, <1>8, PrivateFacts
  <2>2. Reach(FreeNext', List[u]) = Chain(List[u]) /\ Ends(FreeNext', List[u])
    BY <1>1, <1>8, <2>1, ChainKept DEF ThreadInv, Inv
  <2>3. Reach(FreeNext', Arv[u]) = Chain(Arv[u]) /\ Ends(FreeNext', Arv[u])
    BY <1>1, <1>8, <2>1, ChainKept DEF ThreadInv, Inv
  <2>4. Private(u)' = Private(u)
    BY <1>2, <1>8, <2>2, <2>3, PrivateFacts, PrivateFactsPrime
  <2>5. /\ ev[u] \notin Chain(List[u]) /\ ev[u] \notin Chain(Arv[u])
        /\ Chain(List[u]) \cap Chain(Arv[u]) = {}
    BY <1>1, <1>8 DEF ThreadInv
  <2>6. ThreadInv(u)'
    BY <1>2, <1>8, <2>2, <2>3, <2>5 DEF ThreadInv, Chain
  <2>. QED BY <2>4, <2>6
<1>. QED BY <1>1, <1>3, <1>4, <1>5, <1>6, <1>7, <1>8

\* A step of t only exchanges events between t, the free list and the events N
\* that it creates.
LEMMA Exchange ==
  ASSUME InOneHand, NEW t \in Thread, NEW N, N \cap extant = {},
         extant' = extant \cup N,
         \A u \in Thread \ {t} : holds'[u] = holds[u] /\ Private(u)' = Private(u),
         Chain(FreeList)' \cup holds'[t] \cup Private(t)' =
           Chain(FreeList) \cup Has(t) \cup N,
         Chain(FreeList)' \cap holds'[t] = {}, Chain(FreeList)' \cap Private(t)' = {},
         holds'[t] \cap Private(t)' = {}
  PROVE  InOneHand'
<1>. DEFINE F == Chain(FreeList)'
            H == holds'[t]
            P == Private(t)'
<1>1. Has(t)' = H \cup P /\ \A u \in Thread \ {t} : Has(u)' = Has(u)
  BY DEF Has
<1>2. extant' = Chain(FreeList)' \cup UNION {Has(u)' : u \in Thread}
  <2>1. UNION {Has(u)' : u \in Thread} = Has(t)' \cup UNION {Has(u) : u \in Thread \ {t}}
    BY <1>1
  <2>2. UNION {Has(u) : u \in Thread} = Has(t) \cup UNION {Has(u) : u \in Thread \ {t}}
    OBVIOUS
  <2>. HIDE DEF Has
  <2>. QED BY <1>1, <2>1, <2>2 DEF InOneHand
<1>3. ASSUME NEW u \in Thread \ {t}
      PROVE  Has(u) \cap (Chain(FreeList) \cup Has(t) \cup N) = {}
  <2>1. Has(u) \cap Chain(FreeList) = {} /\ Has(u) \cap Has(t) = {}
    BY DEF InOneHand
  <2>2. Has(u) \subseteq extant
    BY DEF InOneHand
  <2>. QED BY <2>1, <2>2
<1>4. ASSUME NEW u \in Thread
      PROVE  /\ Has(u)' \cap Chain(FreeList)' = {}
             /\ holds'[u] \cap Private(u)' = {}
             /\ \A v \in Thread \ {u} : Has(u)' \cap Has(v)' = {}
  <2>1. CASE u = t
    <3>1. ASSUME NEW v \in Thread \ {t} PROVE Has(t)' \cap Has(v)' = {}
      BY <1>1, <1>3
    <3>. QED BY <1>1, <2>1, <3>1
  <2>2. CASE u # t
    <3>1. Has(u)' = Has(u) /\ Has(u)' \cap (F \cup H \cup P) = {}
      BY <1>1, <1>3, <2>2
    <3>2. Has(u)' \cap Chain(FreeList)' = {} /\ Has(u)' \cap Has(t)' = {}
      BY <1>1, <3>1
    <3>3. holds'[u] \cap Private(u)' = {}
      BY <2>2 DEF InOneHand
    <3>4. ASSUME NEW v \in Thread \ {u} PROVE Has(u)' \cap Has(v)' = {}
      BY <1>1, <2>2, <3>2 DEF InOneHand
    <3>. QED BY <3>2, <3>3, <3>4
  <2>. QED BY <2>1, <2>2
<1>. QED BY <1>2, <1>4 DEF InOneHand

\* What a step has to show: what t and the list have afterwards, that the list and
\* those of t end, and that the associations are right.
LEMMA Preserved ==
  ASSUME Inv, TypeOK', NEW t \in Thread, Others(t), LinksOwn(t),
         NEW N, N \cap extant = {}, extant' = extant \cup N,
         Chain(FreeList)' \cup holds'[t] \cup Private(t)' =
           Chain(FreeList) \cup Has(t) \cup N,
         Chain(FreeList)' \cap holds'[t] = {}, Chain(FreeList)' \cap Private(t)' = {},
         holds'[t] \cap Private(t)' = {},
         Ends(FreeNext', FreeList'), ThreadInv(t)', Associations'
  PROVE  Inv'
<1>1. \A u \in Thread \ {t} : /\ holds'[u] = holds[u] /\ Private(u)' = Private(u)
                              /\ ThreadInv(u)'
  BY OthersKept DEF Others
<1>2. InOneHand'
  <2>1. InOneHand
    BY DEF Inv
  <2>2. \A u \in Thread \ {t} : holds'[u] = holds[u] /\ Private(u)' = Private(u)
    BY <1>1
  <2>. QED BY <2>1, <2>2, Exchange
<1>3. \A u \in Thread : ThreadInv(u)'
  BY <1>1
<1>4. Ends(FreeNext, FreeList)'
  BY DEF Ends, Reach
<1>. QED BY <1>2, <1>3, <1>4 DEF Inv

\* Links among the events a thread is moving concern no event that is allocated.
LEMMA AssociationsKept ==
  ASSUME Inv, NEW t \in Thread, UNCHANGED <<holds, AssociatedWith>>,
         \A e \in ParkEvent \ Private(t) : FreeNext'[e] = FreeNext[e]
  PROVE  Associations' /\ LinksOwn(t)
<1>1. ASSUME NEW u \in Thread, NEW e \in holds[u] PROVE e \in ParkEvent \ Private(t)
  <2>1. CASE u = t
    BY <2>1 DEF Inv, InOneHand, TypeOK
  <2>2. CASE u # t
    BY <2>2 DEF Inv, InOneHand, TypeOK, Has
  <2>. QED BY <2>1, <2>2
<1>2. Associations'
  BY <1>1 DEF Inv, Associations
<1>. QED BY <1>2 DEF LinksOwn, Has

\* What the invariant says of one thread.
LEMMA ThreadFacts ==
  ASSUME Inv, NEW t \in Thread
  PROVE  /\ FreeNext \in [ParkEvent -> Ptr] /\ FreeList \in Ptr
         /\ ev[t] \in Ptr /\ List[t] \in Ptr /\ Arv[t] \in Ptr
         /\ pc[t] \notin {"idle", "new"} => ev[t] \in ParkEvent
         /\ pc[t] \in {"reattach", "detachArv", "merge"} => List[t] \in ParkEvent
         /\ pc[t] = "merge" => Arv[t] \in ParkEvent
         /\ Chain(FreeList) \cap holds[t] = {} /\ Chain(FreeList) \cap Private(t) = {}
         /\ holds[t] \cap Private(t) = {} /\ Has(t) = holds[t] \cup Private(t)
         /\ Has(t) \cup Chain(FreeList) \subseteq extant
         /\ ThreadInv(t) /\ Ends(FreeNext, FreeList)
<1>1. TypeOK /\ InOneHand /\ ThreadInv(t) /\ Ends(FreeNext, FreeList)
  BY DEF Inv
<1>2. Has(t) \cap Chain(FreeList) = {} /\ holds[t] \cap Private(t) = {}
  BY <1>1 DEF InOneHand
<1>3. Has(t) \cup Chain(FreeList) \subseteq extant
  BY <1>1 DEF InOneHand
<1>. QED BY <1>1, <1>2, <1>3 DEF TypeOK, Has, Ptr

\* The types, action by action.
LEMMA TypeStep ==
  ASSUME TypeOK, NEW t \in Thread,
         \/ Allocate(t) \/ Detach(t) \/ Extract(t) \/ Reattach(t) \/ DetachArv(t)
         \/ Merge(t) \/ Take(t) \/ New(t) \/ OutOfEvents(t) \/ Push(t)
         \/ \E e \in holds[t] : Release(t, e)
  PROVE  TypeOK' /\ Others(t)
<1>. USE DEF TypeOK, Others, Step, Goto, Forget, Ptr
<1>1. CASE Allocate(t)
  BY SMT, <1>1 DEF Allocate, Loaded
<1>2. CASE Detach(t)
  BY SMT, <1>2, FreeListAssumption DEF Detach, Loaded
<1>3. CASE Extract(t)
  BY SMT, <1>3 DEF Extract
<1>4. CASE Reattach(t)
  BY SMT, <1>4 DEF Reattach, NoArrivals
<1>5. CASE DetachArv(t)
  BY SMT, <1>5, FreeListAssumption DEF DetachArv
<1>6. CASE Merge(t)
  <2>. DEFINE l == Last(List[t])
  <2>1. FreeNext' = [FreeNext EXCEPT ![l] = Arv[t]]
    BY <1>6 DEF Merge
  <2>. HIDE DEF l
  <2>2. Arv[t] \in Ptr /\ FreeNext \in [ParkEvent -> Ptr]
    OBVIOUS
  <2>3. FreeNext' \in [ParkEvent -> Ptr]
    BY <2>1, <2>2
  <2>. QED BY SMT, <1>6, <2>3 DEF Merge
<1>7. CASE Take(t)
  BY SMT, <1>7 DEF Take, Unlinked
<1>8. CASE New(t)
  BY SMT, <1>8, FreeListAssumption DEF New
<1>9. CASE OutOfEvents(t)
  BY SMT, <1>9 DEF OutOfEvents
<1>10. CASE Push(t)
  BY SMT, <1>10 DEF Push, HeadUnchanged
<1>11. CASE \E e \in holds[t] : Release(t, e)
  BY SMT, <1>11, FreeListAssumption DEF Release
<1>. QED BY <1>1, <1>2, <1>3, <1>4, <1>5, <1>6, <1>7, <1>8, <1>9, <1>10, <1>11

\* A step that links only events which t is moving, and keeps them.
LEMMA Relinking ==
  ASSUME Inv, TypeOK', NEW t \in Thread, Others(t),
         UNCHANGED <<FreeList, AssociatedWith, extant, holds>>,
         \A e \in ParkEvent \ Private(t) : FreeNext'[e] = FreeNext[e],
         Private(t)' = Private(t), ThreadInv(t)'
  PROVE  Inv'
<1>1. Associations' /\ LinksOwn(t)
  BY AssociationsKept
<1>2. /\ FreeList \in Ptr /\ Ends(FreeNext, FreeList) /\ TypeOK
      /\ Chain(FreeList) \cap holds[t] = {} /\ Chain(FreeList) \cap Private(t) = {}
      /\ holds[t] \cap Private(t) = {} /\ Has(t) = holds[t] \cup Private(t)
  BY ThreadFacts DEF Inv
<1>3. Has(t) \cap Chain(FreeList) = {}
  BY <1>2
<1>4. Reach(FreeNext', FreeList) = Chain(FreeList) /\ Ends(FreeNext', FreeList)
  BY <1>1, <1>2, <1>3, ChainKept
<1>5. Chain(FreeList)' = Chain(FreeList) /\ Ends(FreeNext', FreeList')
  BY <1>4 DEF Chain
<1>6. {} \cap extant = {} /\ extant' = extant \cup {}
  OBVIOUS
<1>7. Chain(FreeList)' \cup holds'[t] \cup Private(t)' =
        Chain(FreeList) \cup Has(t) \cup {}
  BY <1>2, <1>5
<1>. QED BY <1>1, <1>2, <1>5, <1>6, <1>7, Preserved

\* A step that links nothing and allocates nothing.
LEMMA Unlinking ==
  ASSUME Inv, TypeOK', NEW t \in Thread, Others(t),
         UNCHANGED <<FreeNext, AssociatedWith, extant, holds>>,
         Reach(FreeNext, FreeList') \cup Private(t)' = Chain(FreeList) \cup Private(t),
         Reach(FreeNext, FreeList') \cap Private(t)' = {},
         Ends(FreeNext, FreeList'), ThreadInv(t)'
  PROVE  Inv'
<1>1. Associations' /\ LinksOwn(t)
  BY AssociationsKept
<1>2. Chain(FreeList)' = Reach(FreeNext, FreeList') /\ Ends(FreeNext', FreeList')
  BY DEF Chain
<1>3. /\ Chain(FreeList) \cap holds[t] = {} /\ holds[t] \cap Private(t) = {}
      /\ Has(t) = holds[t] \cup Private(t)
  BY ThreadFacts
<1>4. /\ Chain(FreeList)' \cup holds'[t] \cup Private(t)' =
           Chain(FreeList) \cup Has(t) \cup {}
      /\ Chain(FreeList)' \cap holds'[t] = {} /\ Chain(FreeList)' \cap Private(t)' = {}
      /\ holds'[t] \cap Private(t)' = {}
  BY <1>2, <1>3
<1>5. {} \cap extant = {} /\ extant' = extant \cup {}
  OBVIOUS
<1>. QED BY <1>1, <1>2, <1>4, <1>5, Preserved

\* The list is loaded, or found to have changed; no event moves.
LEMMA StillInv ==
  ASSUME Inv, TypeOK', NEW t \in Thread, Others(t),
         UNCHANGED <<FreeList, FreeNext, AssociatedWith, extant, holds>>,
         Private(t)' = Private(t), ThreadInv(t)'
  PROVE  Inv'
<1>1. Chain(FreeList) \cap Private(t) = {} /\ Ends(FreeNext, FreeList)
  BY ThreadFacts
<1>. QED BY <1>1, Unlinking DEF Chain

LEMMA AllocateInv ==
  ASSUME Inv, TypeOK', NEW t \in Thread, Others(t), Allocate(t) \/ OutOfEvents(t)
  PROVE  Inv'
<1>1. pc[t] \in {"idle", "new"} /\ pc'[t] \in {"idle", "new", "detach"}
  BY DEF Inv, TypeOK, Allocate, OutOfEvents, Goto, Step, Loaded
<1>2. Private(t)' = Private(t) /\ ThreadInv(t)'
  BY <1>1, PrivateFacts, PrivateFactsPrime DEF ThreadInv
<1>. QED BY <1>2, StillInv DEF Allocate, OutOfEvents

LEMMA DetachInv ==
  ASSUME Inv, TypeOK', NEW t \in Thread, Others(t), Detach(t)
  PROVE  Inv'
<1>1. pc[t] = "detach" /\ Private(t) = {}
  BY PrivateFacts DEF Detach
<1>2. CASE FreeList = ev[t]
  <2>1. FreeList' = NULL /\ pc'[t] = "extract" /\ ev'[t] = FreeList /\ FreeNext' = FreeNext
    BY <1>2 DEF Inv, TypeOK, Detach, Goto
  <2>2. Private(t)' = Chain(FreeList) /\ ThreadInv(t)'
    BY <2>1, PrivateFactsPrime, ThreadFacts DEF ThreadInv, Chain
  <2>3. Reach(FreeNext, FreeList') = {} /\ Ends(FreeNext, FreeList')
    BY <2>1, EmptyList, ThreadFacts
  <2>. QED BY <1>1, <2>2, <2>3, Unlinking DEF Detach
<1>3. CASE FreeList # ev[t]
  <2>1. pc'[t] \in {"new", "detach"} /\ FreeList' = FreeList
    BY <1>3 DEF Inv, TypeOK, Detach, Goto, Loaded
  <2>2. Private(t)' = Private(t) /\ ThreadInv(t)'
    BY <1>1, <2>1, PrivateFactsPrime DEF ThreadInv
  <2>. QED BY <2>1, <2>2, StillInv DEF Detach
<1>. QED BY <1>2, <1>3

LEMMA ExtractInv ==
  ASSUME Inv, TypeOK', NEW t \in Thread, Others(t), Extract(t)
  PROVE  Inv'
<1>1. /\ pc[t] = "extract" /\ ev[t] \in ParkEvent /\ FreeNext \in [ParkEvent -> Ptr]
      /\ Private(t) = Chain(ev[t]) /\ Ends(FreeNext, ev[t])
  BY PrivateFacts, ThreadFacts DEF Extract, Step, ThreadInv
<1>2. /\ ev'[t] = ev[t] /\ List'[t] = FreeNext[ev[t]] /\ FreeNext' = FreeNext
      /\ pc'[t] = IF FreeNext[ev[t]] = NULL THEN "take" ELSE "reattach"
  BY DEF Inv, TypeOK, Extract, Step, Goto
<1>3. /\ FreeNext[ev[t]] \in Ptr
      /\ Chain(ev[t]) = {ev[t]} \cup Reach(FreeNext, FreeNext[ev[t]])
      /\ Ends(FreeNext, FreeNext[ev[t]]) /\ ev[t] \notin Reach(FreeNext, FreeNext[ev[t]])
  BY <1>1, ReachStep, EndsStep DEF Chain
<1>4. Private(t)' = Private(t) /\ ThreadInv(t)'
  <2>1. CASE FreeNext[ev[t]] = NULL
    <3>1. Reach(FreeNext, FreeNext[ev[t]]) = {}
      BY <1>1, <1>3, <2>1, ReachFacts
    <3>2. pc'[t] = "take"
      BY <1>2, <2>1
    <3>. QED BY <1>1, <1>2, <1>3, <3>1, <3>2, PrivateFactsPrime DEF ThreadInv
  <2>2. CASE FreeNext[ev[t]] # NULL
    <3>1. pc'[t] = "reattach"
      BY <1>2, <2>2
    <3>2. Private(t)' = Private(t)
      BY <1>1, <1>2, <1>3, <3>1, PrivateFactsPrime
    <3>. QED BY <1>2, <1>3, <3>1, <3>2 DEF ThreadInv, Chain
  <2>. QED BY <2>1, <2>2
<1>. QED BY <1>4, StillInv DEF Extract

LEMMA ReattachInv ==
  ASSUME Inv, TypeOK', NEW t \in Thread, Others(t), Reattach(t)
  PROVE  Inv'
<1>1. /\ pc[t] = "reattach" /\ FreeNext \in [ParkEvent -> Ptr]
      /\ Private(t) = {ev[t]} \cup Chain(List[t])
      /\ Ends(FreeNext, List[t]) /\ ev[t] \notin Chain(List[t])
  BY PrivateFacts, ThreadFacts DEF Reattach, ThreadInv
<1>2. CASE NoArrivals
  <2>1. FreeList' = List[t] /\ pc'[t] = "take" /\ ev'[t] = ev[t]
    BY <1>2 DEF Inv, TypeOK, Reattach, Goto
  <2>2. Chain(FreeList) = {}
    BY <1>1, <1>2, ReachFacts DEF NoArrivals, Chain, Ptr
  <2>3. Private(t)' = {ev[t]} /\ ThreadInv(t)'
    BY <2>1, PrivateFactsPrime DEF ThreadInv
  <2>4. /\ Reach(FreeNext, FreeList') \cup Private(t)' = Chain(FreeList) \cup Private(t)
        /\ Reach(FreeNext, FreeList') \cap Private(t)' = {}
    BY <1>1, <2>1, <2>2, <2>3 DEF Chain
  <2>. QED BY <1>1, <2>1, <2>3, <2>4, Unlinking DEF Reattach
<1>3. CASE ~NoArrivals
  <2>1. /\ FreeList' = FreeList /\ pc'[t] = "detachArv" /\ ev'[t] = ev[t]
        /\ List'[t] = List[t] /\ FreeNext' = FreeNext
    BY <1>3 DEF Inv, TypeOK, Reattach, Goto
  <2>2. Private(t)' = Private(t)
    BY <1>1, <2>1, PrivateFactsPrime DEF Chain
  <2>3. ThreadInv(t)'
    BY <1>1, <2>1 DEF ThreadInv, Chain
  <2>. QED BY <2>1, <2>2, <2>3, StillInv DEF Reattach
<1>. QED BY <1>2, <1>3

LEMMA DetachArvInv ==
  ASSUME Inv, TypeOK', NEW t \in Thread, Others(t), DetachArv(t)
  PROVE  Inv'
<1>1. /\ pc[t] = "detachArv" /\ FreeNext \in [ParkEvent -> Ptr]
      /\ Private(t) = {ev[t]} \cup Chain(List[t])
      /\ Ends(FreeNext, List[t]) /\ ev[t] \notin Chain(List[t])
      /\ Ends(FreeNext, FreeList) /\ Chain(FreeList) \cap Private(t) = {}
  BY PrivateFacts, ThreadFacts DEF DetachArv, ThreadInv
<1>2. ev'[t] = ev[t] /\ List'[t] = List[t] /\ FreeNext' = FreeNext /\ Arv'[t] = Arv[t]
  BY DEF DetachArv
<1>3. CASE FreeList = Arv[t]
  <2>1. FreeList' = NULL /\ pc'[t] = "merge"
    BY <1>3 DEF Inv, TypeOK, DetachArv, Goto
  <2>2. Reach(FreeNext, FreeList') = {} /\ Ends(FreeNext, FreeList')
    BY <1>1, <2>1, EmptyList
  <2>3. Private(t)' = Private(t) \cup Chain(FreeList)
    BY <1>1, <1>2, <1>3, <2>1, PrivateFactsPrime DEF Chain
  <2>4. ThreadInv(t)'
    BY <1>1, <1>2, <1>3, <2>1 DEF ThreadInv, Chain
  <2>. QED BY <2>2, <2>3, <2>4, Unlinking DEF DetachArv
<1>4. CASE FreeList # Arv[t]
  <2>1. FreeList' = FreeList /\ pc'[t] = "reattach"
    BY <1>4 DEF Inv, TypeOK, DetachArv, Goto
  <2>2. Private(t)' = Private(t)
    BY <1>1, <1>2, <2>1, PrivateFactsPrime DEF Chain
  <2>3. ThreadInv(t)'
    BY <1>1, <1>2, <2>1 DEF ThreadInv, Chain
  <2>. QED BY <2>1, <2>2, <2>3, StillInv DEF DetachArv
<1>. QED BY <1>3, <1>4

\* The arrivals are appended at the end of the rest.
LEMMA MergeInv ==
  ASSUME Inv, TypeOK', NEW t \in Thread, Others(t), Merge(t)
  PROVE  Inv'
<1>1. /\ pc[t] = "merge" /\ FreeNext \in [ParkEvent -> Ptr]
      /\ FreeNext' \in [ParkEvent -> Ptr] /\ FreeList \in Ptr
      /\ ev[t] \in ParkEvent /\ List[t] \in ParkEvent /\ Arv[t] \in ParkEvent
      /\ Private(t) = {ev[t]} \cup Chain(List[t]) \cup Chain(Arv[t])
      /\ Ends(FreeNext, List[t]) /\ ev[t] \notin Chain(List[t])
      /\ Ends(FreeNext, Arv[t]) /\ ev[t] \notin Chain(Arv[t])
      /\ Chain(List[t]) \cap Chain(Arv[t]) = {}
  BY PrivateFacts, ThreadFacts DEF Merge, Step, ThreadInv, TypeOK
<1>2. /\ pc'[t] = "reattach" /\ ev'[t] = ev[t] /\ List'[t] = List[t]
      /\ UNCHANGED <<FreeList, AssociatedWith, extant, holds>>
  BY DEF Inv, TypeOK, Merge, Step, Goto
<1>3. PICK l \in Chain(List[t]) :
        FreeNext[l] = NULL /\ FreeNext' = [FreeNext EXCEPT ![l] = Arv[t]]
  <2>1. List[t] \in Ptr
    BY <1>1 DEF Ptr
  <2>2. \E e \in Chain(List[t]) : FreeNext[e] = NULL
    <3>1. Chain(List[t]) # {}
      BY <1>1, <2>1, ReachFacts, FreeListAssumption DEF Chain
    <3>2. PICK e \in Chain(List[t]) : FreeNext[e] \notin Chain(List[t])
      BY <1>1, <3>1 DEF Ends, Chain
    <3>. QED BY <1>1, <2>1, <3>2, ReachFacts DEF Chain
  <2>3. Last(List[t]) \in Chain(List[t]) /\ FreeNext[Last(List[t])] = NULL
    BY <2>2 DEF Last
  <2>. QED BY <2>3 DEF Merge
<1>4. /\ Reach(FreeNext', List[t]) = Chain(List[t]) \cup Chain(Arv[t])
      /\ Ends(FreeNext', List[t])
  <2>1. List[t] \in Ptr /\ Arv[t] \in Ptr
    BY <1>1 DEF Ptr
  <2>2. /\ l \in Reach(FreeNext, List[t])
        /\ Reach(FreeNext, List[t]) \cap Reach(FreeNext, Arv[t]) = {}
    BY <1>1 DEF Chain
  <2>3. /\ Reach(FreeNext', List[t]) = Reach(FreeNext, List[t]) \cup Reach(FreeNext, Arv[t])
        /\ Ends(FreeNext', List[t])
    <3>1. l \in ParkEvent
      BY <1>1, <2>1, <2>2, ReachFacts
    <3>2. FreeNext'[l] = Arv[t] /\ \A e \in ParkEvent \ {l} : FreeNext'[e] = FreeNext[e]
      BY <1>1, <1>3, <3>1
    <3>. DEFINE f == FreeNext
                g == FreeNext'
                p == List[t]
                q == Arv[t]
    <3>3. /\ f \in [ParkEvent -> Ptr] /\ g \in [ParkEvent -> Ptr] /\ p \in Ptr /\ q \in Ptr
          /\ Ends(f, p) /\ Ends(f, q) /\ Reach(f, p) \cap Reach(f, q) = {}
          /\ l \in Reach(f, p) /\ f[l] = NULL
          /\ g[l] = q /\ \A e \in ParkEvent \ {l} : g[e] = f[e]
      BY <1>1, <1>3, <2>1, <2>2, <3>2
    <3>. HIDE DEF f, g, p, q
    <3>4. Reach(g, p) = Reach(f, p) \cup Reach(f, q) /\ Ends(g, p)
      BY <3>1, <3>3, ReachAppend
    <3>. QED BY <3>4 DEF f, g, p, q
  <2>. QED BY <2>3 DEF Chain
<1>5. Private(t)' = Private(t)
  BY <1>1, <1>2, <1>4, PrivateFactsPrime
<1>6. ThreadInv(t)'
  BY <1>1, <1>2, <1>4 DEF ThreadInv, Chain
<1>7. \A e \in ParkEvent \ Private(t) : FreeNext'[e] = FreeNext[e]
  BY <1>1, <1>3
<1>. QED BY <1>2, <1>5, <1>6, <1>7, Relinking

LEMMA TakeInv ==
  ASSUME Inv, TypeOK', NEW t \in Thread, Others(t), Take(t)
  PROVE  Inv'
<1>1. /\ pc[t] = "take" /\ ev[t] \in ParkEvent /\ FreeList \in Ptr
      /\ Private(t) = {ev[t]} /\ Has(t) = holds[t] \cup {ev[t]}
      /\ Chain(FreeList) \cap holds[t] = {} /\ Chain(FreeList) \cap Private(t) = {}
      /\ holds[t] \cap Private(t) = {} /\ Ends(FreeNext, FreeList)
  BY PrivateFacts, ThreadFacts DEF Take, Step
<1>2. /\ FreeNext' = [FreeNext EXCEPT ![ev[t]] = NULL]
      /\ AssociatedWith' = [AssociatedWith EXCEPT ![ev[t]] = t]
      /\ holds' = [holds EXCEPT ![t] = @ \cup {ev[t]}]
      /\ UNCHANGED <<FreeList, extant>>
  BY DEF Take, Unlinked
<1>3. /\ FreeNext \in [ParkEvent -> Ptr] /\ AssociatedWith \in [ParkEvent -> Thread \cup {NULL}]
      /\ holds \in [Thread -> SUBSET ParkEvent] /\ pc \in [Thread -> {"idle", "detach",
           "extract", "reattach", "detachArv", "merge", "take", "new", "push"}]
  BY DEF Inv, TypeOK
<1>4. /\ FreeNext'[ev[t]] = NULL /\ AssociatedWith'[ev[t]] = t
      /\ \A e \in ParkEvent \ {ev[t]} :
           FreeNext'[e] = FreeNext[e] /\ AssociatedWith'[e] = AssociatedWith[e]
      /\ holds'[t] = holds[t] \cup {ev[t]}
      /\ \A u \in Thread \ {t} : holds'[u] = holds[u] /\ ev[t] \notin holds[u]
  <2>1. \A u \in Thread \ {t} : Has(t) \cap holds[u] = {}
    BY DEF Inv, InOneHand, Has
  <2>. QED BY <1>1, <1>2, <1>3, <2>1
<1>5. Private(t)' = {} /\ ThreadInv(t)'
  <2>1. pc'[t] = "idle"
    BY <1>3 DEF Take, Step, Goto
  <2>. QED BY <2>1, PrivateFactsPrime DEF ThreadInv
<1>6. LinksOwn(t)
  BY <1>1, <1>4 DEF LinksOwn
<1>7. Chain(FreeList)' = Chain(FreeList) /\ Ends(FreeNext', FreeList')
  <2>1. Has(t) \cap Chain(FreeList) = {} /\ TypeOK
    BY <1>1 DEF Inv
  <2>2. Reach(FreeNext', FreeList) = Chain(FreeList) /\ Ends(FreeNext', FreeList)
    BY <1>1, <1>6, <2>1, ChainKept
  <2>. QED BY <1>2, <2>2 DEF Chain
<1>8. Associations'
  <2>1. ASSUME NEW u \in Thread, NEW e \in holds'[u]
        PROVE  FreeNext'[e] = NULL /\ AssociatedWith'[e] = u
    <3>1. CASE e = ev[t]
      BY <1>4, <2>1, <3>1
    <3>2. CASE e # ev[t]
      <4>1. e \in holds[u] /\ e \in ParkEvent
        BY <1>3, <1>4, <2>1, <3>2
      <4>. QED BY <1>4, <3>2, <4>1 DEF Inv, Associations
    <3>. QED BY <3>1, <3>2
  <2>2. ASSUME NEW e \in ParkEvent, \A u \in Thread : e \notin holds'[u]
        PROVE  AssociatedWith'[e] = NULL
    <3>1. e # ev[t] /\ \A u \in Thread : e \notin holds[u]
      BY <1>4, <2>2
    <3>. QED BY <1>4, <3>1 DEF Inv, Associations
  <2>. QED BY <2>1, <2>2 DEF Associations
<1>9. /\ Chain(FreeList)' \cup holds'[t] \cup Private(t)' =
           Chain(FreeList) \cup Has(t) \cup {}
      /\ Chain(FreeList)' \cap holds'[t] = {} /\ Chain(FreeList)' \cap Private(t)' = {}
      /\ holds'[t] \cap Private(t)' = {}
      /\ {} \cap extant = {} /\ extant' = extant \cup {}
  BY SMT, <1>1, <1>2, <1>4, <1>5, <1>7
<1>. QED BY <1>5, <1>6, <1>7, <1>8, <1>9, Preserved

LEMMA NewInv ==
  ASSUME Inv, TypeOK', NEW t \in Thread, Others(t), New(t)
  PROVE  Inv'
<1>1. PICK e \in ParkEvent \ extant : ev' = [ev EXCEPT ![t] = e] /\ extant' = extant \cup {e}
  BY DEF New
<1>2. /\ pc[t] = "new" /\ pc'[t] = "take" /\ ev'[t] = e
      /\ UNCHANGED <<FreeList, FreeNext, AssociatedWith, holds>>
  BY <1>1 DEF Inv, TypeOK, New, Step, Goto
<1>3. Private(t) = {} /\ Private(t)' = {e} /\ ThreadInv(t)'
  BY <1>2, PrivateFacts, PrivateFactsPrime DEF ThreadInv
<1>4. Associations' /\ LinksOwn(t)
  BY <1>2, AssociationsKept
<1>5. /\ Chain(FreeList) \cap holds[t] = {} /\ Has(t) = holds[t] \cup Private(t)
      /\ Has(t) \cup Chain(FreeList) \subseteq extant /\ Ends(FreeNext, FreeList)
  BY ThreadFacts
<1>6. Chain(FreeList)' = Chain(FreeList) /\ Ends(FreeNext', FreeList')
  BY <1>2, <1>5 DEF Chain
<1>7. /\ Chain(FreeList)' \cup holds'[t] \cup Private(t)' =
           Chain(FreeList) \cup Has(t) \cup {e}
      /\ Chain(FreeList)' \cap holds'[t] = {} /\ Chain(FreeList)' \cap Private(t)' = {}
      /\ holds'[t] \cap Private(t)' = {}
      /\ {e} \cap extant = {} /\ extant' = extant \cup {e}
  BY <1>1, <1>2, <1>3, <1>5, <1>6
<1>. QED BY <1>3, <1>4, <1>6, <1>7, Preserved

LEMMA ReleaseInv ==
  ASSUME Inv, TypeOK', NEW t \in Thread, Others(t), NEW e \in holds[t], Release(t, e)
  PROVE  Inv'
<1>1. /\ FreeNext \in [ParkEvent -> Ptr] /\ AssociatedWith \in [ParkEvent -> Thread \cup {NULL}]
      /\ holds \in [Thread -> SUBSET ParkEvent] /\ e \in ParkEvent /\ TypeOK
  BY DEF Inv, TypeOK
<1>2. /\ pc[t] = "idle" /\ pc'[t] = "push" /\ ev'[t] = e /\ List'[t] = FreeList
      /\ FreeNext' = [FreeNext EXCEPT ![e] = FreeList]
      /\ AssociatedWith' = [AssociatedWith EXCEPT ![e] = NULL]
      /\ holds' = [holds EXCEPT ![t] = @ \ {e}]
      /\ UNCHANGED <<FreeList, extant>>
  BY <1>1 DEF TypeOK, Release, Step, Goto
<1>3. /\ FreeNext'[e] = FreeList /\ AssociatedWith'[e] = NULL
      /\ \A x \in ParkEvent \ {e} :
           FreeNext'[x] = FreeNext[x] /\ AssociatedWith'[x] = AssociatedWith[x]
      /\ holds'[t] = holds[t] \ {e}
      /\ \A u \in Thread \ {t} : holds'[u] = holds[u] /\ e \notin holds[u]
  <2>1. \A u \in Thread \ {t} : holds[t] \cap holds[u] = {}
    BY DEF Inv, InOneHand, Has
  <2>. QED BY <1>1, <1>2, <2>1
<1>4. Private(t) = {} /\ Private(t)' = {e} /\ ThreadInv(t)'
  BY <1>2, <1>3, PrivateFacts, PrivateFactsPrime DEF ThreadInv
<1>5. /\ Chain(FreeList) \cap holds[t] = {} /\ Has(t) = holds[t] /\ FreeList \in Ptr
      /\ Ends(FreeNext, FreeList)
  BY <1>4, ThreadFacts
<1>6. LinksOwn(t)
  BY <1>3, <1>5 DEF LinksOwn
<1>7. Chain(FreeList)' = Chain(FreeList) /\ Ends(FreeNext', FreeList')
  <2>1. Has(t) \cap Chain(FreeList) = {}
    BY <1>5
  <2>2. Reach(FreeNext', FreeList) = Chain(FreeList) /\ Ends(FreeNext', FreeList)
    BY <1>1, <1>5, <1>6, <2>1, ChainKept
  <2>. QED BY <1>2, <2>2 DEF Chain
<1>8. Associations'
  <2>1. ASSUME NEW u \in Thread, NEW x \in holds'[u]
        PROVE  FreeNext'[x] = NULL /\ AssociatedWith'[x] = u
    <3>1. x \in holds[u] /\ x \in ParkEvent \ {e}
      BY <1>1, <1>3, <2>1
    <3>. QED BY <1>3, <3>1 DEF Inv, Associations
  <2>2. ASSUME NEW x \in ParkEvent, \A u \in Thread : x \notin holds'[u]
        PROVE  AssociatedWith'[x] = NULL
    <3>1. CASE x = e
      BY <1>3, <3>1
    <3>2. CASE x # e
      <4>1. \A u \in Thread : x \notin holds[u]
        BY <1>3, <2>2, <3>2
      <4>. QED BY <1>3, <3>2, <4>1 DEF Inv, Associations
    <3>. QED BY <3>1, <3>2
  <2>. QED BY <2>1, <2>2 DEF Associations
<1>9. /\ Chain(FreeList)' \cup holds'[t] \cup Private(t)' =
           Chain(FreeList) \cup Has(t) \cup {}
      /\ Chain(FreeList)' \cap holds'[t] = {} /\ Chain(FreeList)' \cap Private(t)' = {}
      /\ holds'[t] \cap Private(t)' = {}
      /\ {} \cap extant = {} /\ extant' = extant \cup {}
  BY SMT, <1>2, <1>3, <1>4, <1>5, <1>7
<1>. QED BY <1>4, <1>6, <1>7, <1>8, <1>9, Preserved

\* A CAS that succeeds pushes the event on the list it is linked to.
LEMMA PushInv ==
  ASSUME Inv, TypeOK', NEW t \in Thread, Others(t), Push(t)
  PROVE  Inv'
<1>1. /\ pc[t] = "push" /\ ev[t] \in ParkEvent /\ FreeNext \in [ParkEvent -> Ptr]
      /\ Private(t) = {ev[t]} /\ FreeNext[ev[t]] = List[t] /\ FreeList \in Ptr
      /\ Chain(FreeList) \cap Private(t) = {} /\ Ends(FreeNext, FreeList)
  BY PrivateFacts, ThreadFacts DEF Push, ThreadInv
<1>2. UNCHANGED <<AssociatedWith, extant, holds>>
  BY DEF Push
<1>3. CASE HeadUnchanged(t)
  <2>1. FreeList' = ev[t] /\ pc'[t] = "idle" /\ FreeNext' = FreeNext
    BY <1>3 DEF Inv, TypeOK, Push, Goto
  <2>2. FreeNext[ev[t]] = FreeList /\ ev[t] \notin Chain(FreeList)
    BY <1>1, <1>3 DEF HeadUnchanged
  <2>3. Reach(FreeNext, ev[t]) = {ev[t]} \cup Chain(FreeList) /\ Ends(FreeNext, ev[t])
    BY <1>1, <2>2, ReachStep, EndsPush DEF Chain
  <2>4. Private(t)' = {} /\ ThreadInv(t)'
    BY <2>1, PrivateFactsPrime DEF ThreadInv
  <2>5. /\ Reach(FreeNext, FreeList') \cup Private(t)' = Chain(FreeList) \cup Private(t)
        /\ Reach(FreeNext, FreeList') \cap Private(t)' = {} /\ Ends(FreeNext, FreeList')
    BY <1>1, <2>1, <2>3, <2>4
  <2>. QED BY <1>2, <2>1, <2>4, <2>5, Unlinking
<1>4. CASE ~HeadUnchanged(t)
  <2>1. /\ FreeList' = FreeList /\ pc'[t] = "push" /\ ev'[t] = ev[t] /\ List'[t] = FreeList
        /\ FreeNext' = [FreeNext EXCEPT ![ev[t]] = FreeList]
    BY <1>1, <1>4 DEF Inv, TypeOK, Push
  <2>2. /\ FreeNext'[ev[t]] = FreeList
        /\ \A e \in ParkEvent \ Private(t) : FreeNext'[e] = FreeNext[e]
    BY <1>1, <2>1
  <2>3. Private(t)' = Private(t)
    BY <1>1, <2>1, PrivateFactsPrime
  <2>4. ThreadInv(t)'
    BY <2>1, <2>2 DEF ThreadInv
  <2>. QED BY <1>2, <2>1, <2>2, <2>3, <2>4, Relinking
<1>. QED BY <1>3, <1>4

----------------------------------------------------------------------------

LEMMA InitInv == Init => Inv
<1>. SUFFICES ASSUME Init PROVE Inv
  OBVIOUS
<1>1. TypeOK /\ Associations
  BY DEF Init, TypeOK, Associations, Ptr
<1>2. Chain(FreeList) = {} /\ Ends(FreeNext, FreeList)
  BY <1>1, EmptyList DEF Init, Chain, TypeOK
<1>3. \A t \in Thread : Private(t) = {} /\ holds[t] = {} /\ ThreadInv(t)
  BY PrivateFacts DEF Init, ThreadInv
<1>4. \A t \in Thread : Has(t) = {}
  BY <1>3 DEF Has
<1>5. InOneHand
  <2>1. UNION {Has(t) : t \in Thread} = {}
    BY <1>4
  <2>. QED BY <1>2, <1>3, <1>4, <2>1 DEF InOneHand, Init
<1>. QED BY <1>1, <1>2, <1>3, <1>5 DEF Inv

\* Every step of Allocate() and Release() preserves the invariant.
LEMMA NextInv == Inv /\ [Next]_vars => Inv'
<1>. SUFFICES ASSUME Inv, [Next]_vars PROVE Inv'
  OBVIOUS
<1>1. ASSUME NEW t \in Thread,
             \/ Allocate(t) \/ Detach(t) \/ Extract(t) \/ Reattach(t) \/ DetachArv(t)
             \/ Merge(t) \/ Take(t) \/ New(t) \/ OutOfEvents(t) \/ Push(t)
             \/ \E e \in holds[t] : Release(t, e)
      PROVE  Inv'
  <2>1. TypeOK' /\ Others(t)
    BY <1>1, TypeStep DEF Inv
  <2>. QED BY <1>1, <2>1, AllocateInv, DetachInv, ExtractInv, ReattachInv, DetachArvInv,
              MergeInv, TakeInv, NewInv, ReleaseInv, PushInv
<1>2. CASE UNCHANGED vars
  <2>1. TypeOK' /\ Associations'
    BY <1>2 DEF Inv, vars, locals, TypeOK, Associations
  <2>2. InOneHand'
    <3>1. \A t \in Thread : Private(t)' = Private(t) /\ holds'[t] = holds[t]
      BY <1>2 DEF vars, locals, Private, Chain
    <3>2. \A t \in Thread : Has(t)' = Has(t)
      BY <3>1 DEF Has
    <3>3. Chain(FreeList)' = Chain(FreeList) /\ extant' = extant
      BY <1>2 DEF vars, Chain
    <3>. QED BY <3>1, <3>2, <3>3 DEF Inv, InOneHand
  <2>3. Ends(FreeNext, FreeList)' /\ \A t \in Thread : ThreadInv(t)'
    BY <1>2 DEF Inv, vars, locals, ThreadInv, Chain
  <2>. QED BY <2>1, <2>2, <2>3 DEF Inv
<1>. QED BY <1>1, <1>2 DEF Next

\* The invariant holds in every state that Allocate() and Release() reach, however
\* the CASes of the threads interleave.
THEOREM Invariance == Spec => []Inv
  BY InitInv, NextInv, PTL DEF Spec

\* No pointer is NULL where Allocate() or Release() follows it.
THEOREM TypeCorrect == Spec => []TypeOK
<1>1. Inv => TypeOK
  BY DEF Inv
<1>. QED BY Invariance, <1>1, PTL

\* Every ParkEvent is on the free list or with exactly one thread, however the
\* CASes of Allocate() and Release() interleave, though they compare addresses only.
THEOREM NoEventLost == Spec => []InOneHand
<1>1. Inv => InOneHand
  BY DEF Inv
<1>. QED BY Invariance, <1>1, PTL

\* The guarantee()s of Allocate() and Release() hold: what is allocated was
\* associated with nobody, what is released is linked to nothing.
THEOREM GuaranteesHold == Spec => []Guarantees
<1>1. ASSUME Inv, NEW t \in Thread, pc[t] = "take" PROVE AssociatedWith[ev[t]] = NULL
  <2>1. ev[t] \in ParkEvent /\ ev[t] \in Has(t) /\ ev[t] \notin holds[t]
    BY <1>1, PrivateFacts, ThreadFacts
  <2>2. \A u \in Thread : ev[t] \notin holds[u]
    BY <1>1, <2>1 DEF Inv, InOneHand, Has
  <2>. QED BY <1>1, <2>1, <2>2 DEF Inv, Associations
<1>2. Inv => Guarantees
  BY <1>1 DEF Inv, Associations, Guarantees
<1>. QED BY Invariance, <1>2, PTL

=============================================================================
