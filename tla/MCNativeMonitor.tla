-------------------------- MODULE MCNativeMonitor --------------------------
(* Instances of NativeMonitor for TLC: the threads are interchangeable.    *)
EXTENDS NativeMonitor, TLC

Perms == Permutations(Thread)

=============================================================================
