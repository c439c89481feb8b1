------------------------ MODULE MCParkEventFreeList ------------------------
(* ParkEventFreeList for TLC: interchangeable threads and events. *)
EXTENDS ParkEventFreeList, TLC

Perms == Permutations(Thread) \cup Permutations(ParkEvent)

=============================================================================
