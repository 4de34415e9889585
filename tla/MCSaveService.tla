---------------------------- MODULE MCSaveService ----------------------------
(* Instances of SaveService for TLC. *)
EXTENDS SaveService, TLC

\* Processes, payloads and garbage are interchangeable in every definition.
Symmetry == Permutations(Procs) \cup Permutations(Payloads) \cup Permutations(Garbage)
=============================================================================
