---------------------------- MODULE MCLifecycle -----------------------------
(* Lifecycle for TLC: sockets and handles are interchangeable.             *)
EXTENDS Lifecycle, TLC

Symmetry == Permutations(Fds) \cup Permutations(Agents)
=============================================================================
