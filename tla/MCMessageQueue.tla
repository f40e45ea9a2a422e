---------------------------- MODULE MCMessageQueue ----------------------------
(* Instances of MessageQueue for TLC. *)
EXTENDS MessageQueue

CONSTANTS a1, a2, s1, s2, s3

\* s1 and s2 are two connections of one agent, s3 belongs to another agent.
MCAgentOf == [s \in Sessions |-> IF s = s3 THEN a2 ELSE a1]

OneMessage == {1}

\* Two rows is the least for which a batch, a priority order and a done request
\* that claims the wrong message exist.
TwoMessages == 1..2

=============================================================================
