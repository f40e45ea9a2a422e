------------------------------ MODULE MCReactor ------------------------------
(* Instances of Reactor for TLC. *)
EXTENDS Reactor, TLC

CONSTANTS m1, m2, m3, r1, r2, r3

\* Runs and messages are interchangeable; used for safety only.
Symmetry == Permutations(Messages) \cup Permutations(RunIds)

=============================================================================
