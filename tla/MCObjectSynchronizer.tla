------------------------ MODULE MCObjectSynchronizer ------------------------
(* The instance of ObjectSynchronizer for TLC.                              *)
EXTENDS ObjectSynchronizer

CONSTANTS t1, t2, t3

Does(a, b, c) == [t \in Thread |-> CASE t = t1 -> a [] t = t2 -> b [] OTHER -> c]

\* One thread locks the object up to three times, waits on it or asks for its hash
\* code; one asks for the hash code and dies; one locks it.
MCOps   == Does({"enter", "wait", "hash"}, {"hash", "die"}, {"enter"})
MCCalls == Does(3, 2, 1)

=============================================================================
