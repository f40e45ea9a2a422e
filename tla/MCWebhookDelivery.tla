-------------------------- MODULE MCWebhookDelivery --------------------------
(* Instances of WebhookDelivery for TLC. *)
EXTENDS WebhookDelivery

CONSTANTS m1, m2, w1, k1, k2, g1, o1

VARIABLE scene

mcVars == <<vars, scene>>

\* One message with two workers, the poller and the owner at work on it; or two
\* messages, which fight for the slot of the channel and for the rows a restart
\* reads, with one worker and no owner.
MCInit == Init /\ scene \in {"race", "full"}

Started(k) == scene = "race" \/ k = k1

MCNext ==
  /\ Next /\ UNCHANGED scene
  /\ scene = "race" => dispatched' \subseteq {m1} /\ restarts' = 0
  /\ scene = "full" => \A o \in Owners : retry'[o].d = None
  /\ \A k \in Workers : ~Started(k) => worker'[k] = Idle

\* What Fairness says, of the workers that were started.
MCFairness ==
  /\ \A k \in Workers : WF_mcVars(Started(k) /\ WorkerStep(k) /\ UNCHANGED scene)
  /\ Settling

MCSpec == MCInit /\ [][MCNext]_mcVars /\ MCFairness

=============================================================================
