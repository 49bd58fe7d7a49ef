---------------------------- MODULE MCSampleRing -----------------------------
(* Small instances of SampleRing for TLC. *)
EXTENDS SampleRing, TLC

\* Threads are interchangeable for the state predicates of the racing runs.
CallerSymmetry == Permutations(Callers)
=============================================================================
