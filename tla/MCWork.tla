------------------------------- MODULE MCWork -------------------------------
(***************************************************************************)
(* Instances of the components that carry out work for TLC: goals and      *)
(* their tasks (Goals), secrets (Secrets), the harness (Harness), the      *)
(* Kubernetes event dispatcher (K8sHandlers) and the embedding pipeline    *)
(* (Embeddings).  A run takes those of Parts one after the other: part     *)
(* names the component whose steps a behaviour consists of, and the        *)
(* variables of the others keep their initial values.                      *)
(***************************************************************************)
EXTENDS Goals, Secrets, Harness, K8sHandlers, Embeddings, TLC

CONSTANTS c1, c2, w1, openai, gemini

CONSTANT Parts   \* the components a run takes

VARIABLE part

\* Two concurrent calls, or messages to embed, are interchangeable, and so are
\* two providers.
Symmetry == Permutations({c1, c2}) \union Permutations({openai, gemini})

\* A root alone, and a root with a child that has a billing code.
MCTrees ==
  LET root == [up |-> 0, code |-> Unbilled] IN
  {<<root>>} \union {<<root, [up |-> 1, code |-> k]>> : k \in Codes}

MCOwnedBy == [a \in KhAgents |-> IF a = "p" THEN 1 ELSE 2]

MCEdits == {[name |-> "-", command |-> "-", blob |-> "docker"],
            [name |-> "subprocess", command |-> "run", blob |-> "badskill"],
            [name |-> "webhook", command |-> "", blob |-> "url"],
            [name |-> "docker", command |-> "-", blob |-> "noimage"],
            [name |-> "other", command |-> "run", blob |-> "-"]}

WorkInit ==
  /\ GoalsInit /\ SecretsInit /\ HarnessInit /\ K8sInit /\ EmbeddingsInit
  /\ part \in Parts
  /\ part # "harness" => config.image   \* both images matter to the harness only

WorkNext ==
  /\ UNCHANGED part
  /\ \/ part = "goals" /\ GoalsNext /\ UNCHANGED <<seVars, hxVars, khVars, emVars>>
     \/ part = "secrets" /\ SecretsNext /\ UNCHANGED <<glVars, hxVars, khVars, emVars>>
     \/ part = "harness" /\ HarnessNext /\ UNCHANGED <<glVars, seVars, khVars, emVars>>
     \/ part = "k8s" /\ K8sNext /\ UNCHANGED <<glVars, seVars, hxVars, emVars>>
     \/ part = "embeddings" /\ EmbeddingsNext /\ UNCHANGED <<glVars, seVars, hxVars, khVars>>

WorkSpec == WorkInit /\ [][WorkNext]_<<part, glVars, seVars, hxVars, khVars, emVars>>

-----------------------------------------------------------------------------
\* What each component promises (its own module states it), in the
\* behaviours that exercise it.

\* Slugs and channels of goals stay apart, trees are sound, work has an
\* assignee unless Transition itself declared it claimed, and the costs on
\* every page add up.
GoalsHold == part = "goals" => GoalsSafe

\* One value of a name and scope is live, a run gets the narrowest, and what is
\* listed can be decrypted.
SecretsHold == part = "secrets" => SecretsSafe

\* Router and registry choose the same backend, the two run tables agree, and
\* rows, start times, directories and work are settled with the execution.
HarnessHolds == part = "harness" => HarnessSafe

\* Every Job of a handler is on record under its owner, and its logs are its
\* own.
K8sHolds == part = "k8s" => K8sSafe

\* No message is forgotten by the queue and what is embedded is indexed, but for
\* what a stop, an admin or a start that broke off left out; attempts are
\* bounded, and the merged ranking is one.
EmbeddingsHold == part = "embeddings" => EmbeddingsSafe

\* Nothing that is over begins again: a settled goal or task does not move,
\* and a revoked secret is never handed out.
OverForGood == NothingReopened /\ RevokedForever

=============================================================================
