----------------------------- MODULE MCVMThread -----------------------------
EXTENDS VMThread, TLC

\* Callers of a kind, and operations, are interchangeable.
Perms == Permutations(JavaThread) \cup Permutations(OtherThread)
           \cup Permutations(Op)

=============================================================================
