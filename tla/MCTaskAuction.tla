--------------------------- MODULE MCTaskAuction ---------------------------
(* Model checking TaskAuction: symmetry of bidders and calls. *)
EXTENDS TaskAuction, TLC

Symmetry ==
  Permutations(Agents) \cup Permutations(Tasks) \cup Permutations(BidCalls)
=============================================================================
