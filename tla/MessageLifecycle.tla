--------------------------- MODULE MessageLifecycle ---------------------------
(***************************************************************************)
(* What the message queue promises, without the statements it is made of:  *)
(* a message is sent to an agent, claimed by that agent in one atomic      *)
(* step, finished by its owner or by the server, and removed.  The code    *)
(* lets an outcome be overwritten, so does Finish (see FinishedIsFinal in  *)
(* MessageQueue); it never lets a claim move or a message go back.         *)
(***************************************************************************)
CONSTANTS Messages, Agents, NoAgent

VARIABLES stage, to, owner

vars == <<stage, to, owner>>

Outcomes == {"done", "failed"}

Init ==
  /\ stage = [m \in Messages |-> "absent"]
  /\ to    = [m \in Messages |-> NoAgent]
  /\ owner = [m \in Messages |-> NoAgent]

Send(m, a) ==
  /\ stage[m] = "absent"
  /\ stage' = [stage EXCEPT ![m] = "pending"]
  /\ to'    = [to EXCEPT ![m] = a]
  /\ UNCHANGED owner

\* All the messages of one claim are taken at once, none of them twice.
Claim(a, ms) ==
  /\ \A m \in ms : stage[m] = "pending" /\ to[m] = a
  /\ stage' = [m \in Messages |-> IF m \in ms THEN "processing" ELSE stage[m]]
  /\ owner' = [m \in Messages |-> IF m \in ms THEN a ELSE owner[m]]
  /\ UNCHANGED to

Finish(m, outcome) ==
  /\ stage[m] \in {"processing"} \cup Outcomes
  /\ owner[m] = to[m]
  /\ stage' = [stage EXCEPT ![m] = outcome]
  /\ UNCHANGED <<to, owner>>

Remove(ms) ==
  /\ \A m \in ms : stage[m] # "absent"
  /\ stage' = [m \in Messages |-> IF m \in ms THEN "gone" ELSE stage[m]]
  /\ to'    = [m \in Messages |-> IF m \in ms THEN NoAgent ELSE to[m]]
  /\ owner' = [m \in Messages |-> IF m \in ms THEN NoAgent ELSE owner[m]]

Next ==
  \/ \E m \in Messages, a \in Agents \cup {NoAgent} : Send(m, a)
  \/ \E a \in Agents, ms \in SUBSET Messages : Claim(a, ms)
  \/ \E m \in Messages, outcome \in Outcomes : Finish(m, outcome)
  \/ \E ms \in SUBSET Messages : Remove(ms)

Spec == Init /\ [][Next]_vars

=============================================================================
