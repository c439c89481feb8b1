---------------------------- MODULE MCSafepoint ----------------------------
(* Safepoint for TLC: interchangeable threads. *)
EXTENDS Safepoint, TLC

Perms == Permutations(JavaThread)

=============================================================================
