------------------------- MODULE ParkEventFreeList -------------------------
(***************************************************************************)
(* The free list of ParkEvents: ParkEvent::Allocate() and Release() in     *)
(* runtime/thread.cpp, and their copies for Parkers.                       *)
(*                                                                         *)
(* FreeList is pushed by CAS and popped by detaching it whole, taking the  *)
(* head and reattaching the rest ("push-one and pop-all").  Pointers are   *)
(* explicit: FreeNext links the events, and a CAS compares addresses only. *)
(***************************************************************************)
EXTENDS Naturals, FiniteSets

CONSTANTS
  Thread,    \* the threads that allocate and release
  ParkEvent, \* the addresses of the ParkEvents that may come to exist
  NULL,
  MaxHeld    \* bound: the events a thread has at a time

ASSUME FreeListAssumption ==
  NULL \notin ParkEvent /\ MaxHeld \in Nat \ {0}

VARIABLES
  FreeList,        \* ParkEvent::FreeList
  FreeNext,        \* ParkEvent::FreeNext
  AssociatedWith,  \* ParkEvent::AssociatedWith
  extant,          \* the events that have been created
  holds,           \* the events each thread has allocated
  pc,
  ev,              \* local: the event to allocate or to release
  List,            \* local: the rest of a detached list; Release(): the head
  Arv              \* local: the recent arrivals

locals == <<pc, ev, List, Arv>>
vars == <<FreeList, FreeNext, AssociatedWith, extant, holds, locals>>

Ptr == ParkEvent \cup {NULL}

\* Types; and no pointer is NULL where the code follows it.
TypeOK ==
  /\ FreeList \in Ptr
  /\ FreeNext \in [ParkEvent -> Ptr]
  /\ AssociatedWith \in [ParkEvent -> Thread \cup {NULL}]
  /\ extant \subseteq ParkEvent
  /\ holds \in [Thread -> SUBSET ParkEvent]
  /\ pc \in [Thread -> {"idle", "detach", "extract", "reattach", "detachArv",
                        "merge", "take", "new", "push"}]
  /\ ev \in [Thread -> Ptr]
  /\ List \in [Thread -> Ptr] /\ Arv \in [Thread -> Ptr]
  /\ \A t \in Thread :
       /\ pc[t] \notin {"idle", "new"} => ev[t] # NULL
       /\ pc[t] \in {"reattach", "detachArv", "merge"} => List[t] # NULL
       /\ pc[t] \in {"detachArv", "merge"} => Arv[t] # NULL

Init ==
  /\ FreeList = NULL
  /\ FreeNext = [e \in ParkEvent |-> NULL]
  /\ AssociatedWith = [e \in ParkEvent |-> NULL]
  /\ extant = {}
  /\ holds = [t \in Thread |-> {}]
  /\ pc = [t \in Thread |-> "idle"]
  /\ ev = [t \in Thread |-> NULL]
  /\ List = [t \in Thread |-> NULL]
  /\ Arv = [t \in Thread |-> NULL]

Goto(t, l) == pc' = [pc EXCEPT ![t] = l]
Step(t, l, m) == pc[t] = l /\ Goto(t, m)
Forget(t) ==
  List' = [List EXCEPT ![t] = NULL] /\ Arv' = [Arv EXCEPT ![t] = NULL]

\* The events on the list that starts at p and is linked by next: the smallest
\* set that p is in and next does not lead out of.
Reach(next, p) ==
  {e \in ParkEvent :
     \A S \in SUBSET ParkEvent :
       p \in S \cup {NULL} /\ (\A x \in S : next[x] \in S \cup {NULL}) => e \in S}

Chain(p) == Reach(FreeNext, p)

----------------------------------------------------------------------------
(* Allocate().                                                             *)

\* Where Allocate() goes on once it has loaded ev = FreeList.
Loaded == IF FreeList = NULL THEN "new" ELSE "detach"

Allocate(t) ==
  /\ pc[t] = "idle" /\ Cardinality(holds[t]) < MaxHeld
  /\ ev' = [ev EXCEPT ![t] = FreeList]
  /\ Goto(t, Loaded)
  /\ UNCHANGED <<FreeList, FreeNext, AssociatedWith, extant, holds, List, Arv>>

\* 1: detach the list, by a CAS that another thread may win.
Detach(t) ==
  /\ pc[t] = "detach"
  /\ IF FreeList = ev[t]
       THEN FreeList' = NULL /\ Goto(t, "extract") /\ UNCHANGED ev
       ELSE /\ ev' = [ev EXCEPT ![t] = FreeList]
            /\ Goto(t, Loaded)
            /\ UNCHANGED FreeList
  /\ UNCHANGED <<FreeNext, AssociatedWith, extant, holds, List, Arv>>

\* 2: extract the first event.
Extract(t) ==
  /\ Step(t, "extract", IF FreeNext[ev[t]] = NULL THEN "take" ELSE "reattach")
  /\ List' = [List EXCEPT ![t] = FreeNext[ev[t]]]
  /\ UNCHANGED <<FreeList, FreeNext, AssociatedWith, extant, holds, ev, Arv>>

\* 3: reattach the rest, unless new events have arrived.
NoArrivals_Assumed == TRUE
NoArrivals == FreeList = NULL

Reattach(t) ==
  /\ pc[t] = "reattach"
  /\ IF NoArrivals
       THEN /\ FreeList' = List[t] /\ Goto(t, "take")
            /\ List' = [List EXCEPT ![t] = NULL] /\ UNCHANGED Arv
       ELSE /\ Arv' = [Arv EXCEPT ![t] = FreeList] /\ Goto(t, "detachArv")
            /\ UNCHANGED <<FreeList, List>>
  /\ UNCHANGED <<FreeNext, AssociatedWith, extant, holds, ev>>

\* Try to detach the recent arrivals.
DetachArv(t) ==
  /\ pc[t] = "detachArv"
  /\ IF FreeList = Arv[t]
       THEN FreeList' = NULL /\ Goto(t, "merge")
       ELSE Goto(t, "reattach") /\ UNCHANGED FreeList
  /\ UNCHANGED <<FreeNext, AssociatedWith, extant, holds, ev, List, Arv>>

\* 4: append them to the rest.
Last(p) == CHOOSE e \in Chain(p) : FreeNext[e] = NULL

Merge(t) ==
  /\ Step(t, "merge", "reattach")
  /\ FreeNext' = [FreeNext EXCEPT ![Last(List[t])] = Arv[t]]
  /\ UNCHANGED <<FreeList, AssociatedWith, extant, holds, ev, List, Arv>>

\* The event is unassociated; it belongs to the thread now.
Unlinked(t) == [FreeNext EXCEPT ![ev[t]] = NULL]

Take(t) ==
  /\ Step(t, "take", "idle")
  /\ AssociatedWith' = [AssociatedWith EXCEPT ![ev[t]] = t]
  /\ FreeNext' = Unlinked(t)
  /\ holds' = [holds EXCEPT ![t] = @ \cup {ev[t]}]
  /\ ev' = [ev EXCEPT ![t] = NULL] /\ Forget(t)
  /\ UNCHANGED <<FreeList, extant>>

\* The hard way: a new ParkEvent.
New(t) ==
  /\ Step(t, "new", "take")
  /\ \E e \in ParkEvent \ extant :
       ev' = [ev EXCEPT ![t] = e] /\ extant' = extant \cup {e}
  /\ UNCHANGED <<FreeList, FreeNext, AssociatedWith, holds, List, Arv>>

\* Bound: the instance has no more ParkEvents to create.
OutOfEvents(t) ==
  /\ Step(t, "new", "idle") /\ extant = ParkEvent
  /\ UNCHANGED <<FreeList, FreeNext, AssociatedWith, extant, holds, ev, List,
                 Arv>>

----------------------------------------------------------------------------
(* Release().                                                              *)

\* Clear the association and link the event to the head of the list, ...
Release(t, e) ==
  /\ Step(t, "idle", "push") /\ e \in holds[t]
  /\ holds' = [holds EXCEPT ![t] = @ \ {e}]
  /\ AssociatedWith' = [AssociatedWith EXCEPT ![e] = NULL]
  /\ ev' = [ev EXCEPT ![t] = e]
  /\ List' = [List EXCEPT ![t] = FreeList]
  /\ FreeNext' = [FreeNext EXCEPT ![e] = FreeList]
  /\ UNCHANGED <<FreeList, extant, Arv>>

\* ... then push it by CAS, or link it again.
HeadUnchanged(t) == FreeList = List[t]

Push(t) ==
  /\ pc[t] = "push"
  /\ IF HeadUnchanged(t)
       THEN /\ FreeList' = ev[t] /\ Goto(t, "idle")
            /\ ev' = [ev EXCEPT ![t] = NULL] /\ Forget(t)
            /\ UNCHANGED FreeNext
       ELSE /\ List' = [List EXCEPT ![t] = FreeList]
            /\ FreeNext' = [FreeNext EXCEPT ![ev[t]] = FreeList]
            /\ UNCHANGED <<FreeList, pc, ev, Arv>>
  /\ UNCHANGED <<AssociatedWith, extant, holds>>

----------------------------------------------------------------------------

Next ==
  \E t \in Thread :
    \/ Allocate(t) \/ Detach(t) \/ Extract(t) \/ Reattach(t) \/ DetachArv(t)
    \/ Merge(t) \/ Take(t) \/ New(t) \/ OutOfEvents(t) \/ Push(t)
    \/ \E e \in holds[t] : Release(t, e)

Spec == Init /\ [][Next]_vars

----------------------------------------------------------------------------
(* Properties.                                                             *)

\* The events that a thread has to itself, on its way from or to the list.
Private(t) ==
  CASE pc[t] = "extract" -> Chain(ev[t])
    [] pc[t] \in {"reattach", "detachArv"} -> {ev[t]} \cup Chain(List[t])
    [] pc[t] = "merge" -> {ev[t]} \cup Chain(List[t]) \cup Chain(Arv[t])
    [] pc[t] \in {"take", "push"} -> {ev[t]}
    [] OTHER -> {}

Has(t) == holds[t] \cup Private(t)

\* No event is lost, and none is in two hands: each is on the free list, or
\* with exactly one thread, whatever the CASes of Allocate() and Release()
\* compare equal ("avoids the ABA problems").
InOneHand ==
  /\ extant = Chain(FreeList) \cup UNION {Has(t) : t \in Thread}
  /\ \A t \in Thread :
       /\ Has(t) \cap Chain(FreeList) = {}
       /\ holds[t] \cap Private(t) = {}
       /\ \A u \in Thread \ {t} : Has(t) \cap Has(u) = {}

\* The guarantee()s: an event that is allocated is associated with nobody, one
\* that is released is linked to nothing.
Guarantees ==
  \A t \in Thread :
    /\ pc[t] = "take" => AssociatedWith[ev[t]] = NULL
    /\ \A e \in holds[t] : FreeNext[e] = NULL /\ AssociatedWith[e] = t

=============================================================================
