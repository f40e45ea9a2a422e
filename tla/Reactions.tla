----------------------------- MODULE Reactions -----------------------------
(***************************************************************************)
(* Reactions on messages, the workflow state they give a message, and the  *)
(* trust that people's verdicts give the author (internal/reactions,       *)
(* internal/trust, the MCP and REST handlers above them).                  *)
(*                                                                         *)
(* Toggle is a chain of queries and one write: whether the reaction is     *)
(* there, for a claim who else holds one, how many there are, then the     *)
(* INSERT or DELETE, then the trust.  rxCalls holds where a call is.  No   *)
(* state-change notifier is installed, so that step has no effect.  Scores *)
(* are counted in steps of ApprovalIncrement (0.05); a rejection is two.   *)
(***************************************************************************)
EXTENDS Naturals, Sequences, FiniteSets, FiniteSetsExt

CONSTANTS
    Humans, Bots,             \* agents of type human and ai
    RxMessages, RxAuthor,     \* channel messages and who wrote each
    RxCalls,                  \* concurrent calls
    Verdicts,                 \* the reactions that are tried
    MaxReactionsPerMessage,
    TopScore,                 \* 20 steps in the code
    MaxAdjustments

VARIABLES
    rx,           \* message -> set of [agent, reaction]
    rxCalls,      \* call -> what it does next
    trust,        \* agent -> [score, adjustments]
    crowded,      \* history: message -> calls that judged it while another did
    judged,       \* history: agent -> verdicts of people stored on its messages
    dropped       \* history: agent -> verdicts whose call stopped before trust

rxVars == <<rx, rxCalls, trust, crowded, judged, dropped>>

Reactors == Humans \union Bots
Quiet == [pc |-> "idle"]

ReactionsInit ==
    /\ rx = [m \in RxMessages |-> {}]
    /\ rxCalls = [c \in RxCalls |-> Quiet]
    /\ trust = [a \in Bots |-> [score |-> 0, adjustments |-> 0]]
    /\ crowded = [m \in RxMessages |-> FALSE]
    /\ judged = [a \in Bots |-> 0]
    /\ dropped = [a \in Bots |-> 0]

-----------------------------------------------------------------------------
(* Workflow states.                                                        *)

reactionPriority == [approve |-> 2, in_progress |-> 3, reject |-> 4, awarded |-> 5, done |-> 6, published |-> 7]
reactionToState == [approve |-> "approved", in_progress |-> "in_progress", reject |-> "rejected",
                    awarded |-> "awarded", done |-> "done", published |-> "published"]
ValidReactions == DOMAIN reactionToState
WorkflowStates == {reactionToState[r] : r \in ValidReactions} \union {"proposed"}

\* Toggle refuses other reactions; the author of a message is an agent
ASSUME ReactionsAssumption ==
    /\ Humans # {} /\ IsFiniteSet(RxCalls)
    /\ RxAuthor \in [RxMessages -> Humans \union Bots]
    /\ Verdicts \subseteq ValidReactions
    /\ MaxReactionsPerMessage \in Nat \ {0} /\ TopScore \in Nat /\ MaxAdjustments \in Nat

\* The state of the reaction with the highest priority of `table`
HighestState(reactions, table) ==
    LET known == {e.reaction : e \in reactions} \intersect DOMAIN table IN
    IF known = {} THEN "proposed"
    ELSE reactionToState[CHOOSE r \in known : \A q \in known : table[q] <= table[r]]

ComputeWorkflowState(reactions) == HighestState(reactions, reactionPriority)

\* The table of EnrichMessages has no awarded
EnrichedPriorities == [approve |-> 2, in_progress |-> 3, reject |-> 4, done |-> 5, published |-> 6]
EnrichedState(m) == HighestState(rx[m], EnrichedPriorities)

-----------------------------------------------------------------------------
(* Queries.                                                                *)

Exists(m, a, r) == [agent |-> a, reaction |-> r] \in rx[m]
CountByMessage(m) == Cardinality(rx[m])

GetMessageIDsByState(state) ==
    IF state = "proposed" THEN {m \in RxMessages : rx[m] = {}}
    ELSE {m \in RxMessages : \E e \in rx[m] : reactionToState[e.reaction] = state}

\* Messages that have a reaction for the state, then those it decides
ListByState(state) ==
    IF state = "proposed" THEN GetMessageIDsByState(state)
    ELSE {m \in GetMessageIDsByState(state) : ComputeWorkflowState(rx[m]) = state}

\* list_by_state and GET /api/channels/{name}/by-state
callListByState(state) == ListByState(state)
RestListByState(state) == ListByState(state)

GetReactions(m) == [reactions |-> rx[m], state |-> ComputeWorkflowState(rx[m])]
callGetReactions(m) == GetReactions(m)
RestGetReactions(m) == GetReactions(m)

GetScore(a) == trust[a].score
callGetTrust(a) == GetScore(a)

-----------------------------------------------------------------------------
(* Toggle.                                                                 *)

Goes(c, next) == rxCalls' = [rxCalls EXCEPT ![c] = next]
Judging(c, m) == rxCalls[c].pc \in {"count", "insert"} /\ rxCalls[c].msg = m

\* Mutant: a claim does not look for another agent's claim.
ToggleAnyClaim(c, m, a, r) ==
    /\ rxCalls[c] = Quiet
    /\ Goes(c, [pc |-> IF Exists(m, a, r) THEN "delete" ELSE "count",
                msg |-> m, agent |-> a, reaction |-> r])
    /\ crowded' = [crowded EXCEPT ![m] = @ \/ \E d \in RxCalls : Judging(d, m)]
    /\ UNCHANGED <<rx, trust, judged, dropped>>

\* Whether the reaction exists, and for a claim whether another agent has one
Toggle(c, m, a, r) ==
    /\ rxCalls[c] = Quiet
    /\ IF Exists(m, a, r)
       THEN Goes(c, [pc |-> "delete", msg |-> m, agent |-> a, reaction |-> r])
       ELSE /\ r = "in_progress" => \A b \in Reactors \ {a} : ~Exists(m, b, r)
            /\ Goes(c, [pc |-> "count", msg |-> m, agent |-> a, reaction |-> r])
    /\ crowded' = [crowded EXCEPT ![m] = @ \/ \E d \in RxCalls : Judging(d, m)]
    /\ UNCHANGED <<rx, trust, judged, dropped>>

\* react; the agent of the session's user for POST /api/messages/{id}/reactions
callReact(c, m, a, r) == Toggle(c, m, a, r)
resolveAgentName == CHOOSE h \in Humans : TRUE
RestToggle(c, m, r) == Toggle(c, m, resolveAgentName, r)

CheckLimit(c) ==
    LET q == rxCalls[c] IN
    /\ q.pc = "count"
    /\ Goes(c, IF CountByMessage(q.msg) >= MaxReactionsPerMessage THEN Quiet
               ELSE [q EXCEPT !.pc = "insert"])
    /\ UNCHANGED <<rx, trust, crowded, judged, dropped>>

\* adjustTrustIfNeeded asks who reacted, to what, and who wrote it
AdjustsTrust(m, a, r) == r \in {"approve", "reject"} /\ a \in Humans /\ RxAuthor[m] \in Bots

\* UNIQUE(message_id, agent_name, reaction): the second of two equal INSERTs fails
InsertReaction(c) ==
    LET q == rxCalls[c]  counts == AdjustsTrust(q.msg, q.agent, q.reaction) IN
    /\ q.pc = "insert" /\ ~Exists(q.msg, q.agent, q.reaction)
    /\ rx' = [rx EXCEPT ![q.msg] = @ \union {[agent |-> q.agent, reaction |-> q.reaction]}]
    /\ counts => judged[RxAuthor[q.msg]] < MaxAdjustments
    /\ judged' = IF counts THEN [judged EXCEPT ![RxAuthor[q.msg]] = @ + 1] ELSE judged
    /\ Goes(c, IF counts THEN [q EXCEPT !.pc = "trust"] ELSE Quiet)
    /\ UNCHANGED <<trust, crowded, dropped>>

DeleteReaction(c) ==
    LET q == rxCalls[c] IN
    /\ q.pc = "delete"
    /\ rx' = [rx EXCEPT ![q.msg] = @ \ {[agent |-> q.agent, reaction |-> q.reaction]}]
    /\ Goes(c, Quiet)
    /\ UNCHANGED <<trust, crowded, judged, dropped>>

-----------------------------------------------------------------------------
(* Trust.                                                                  *)

\* One statement, clamped to 0..1, also for the first row
UpsertScore(a, up, down) ==
    trust' = [trust EXCEPT ![a] =
        [score |-> IF up THEN Min({TopScore, @.score + 1})
                   ELSE IF @.score < down THEN 0 ELSE @.score - down,
         adjustments |-> @.adjustments + 1]]

RecordApproval(a) == UpsertScore(a, TRUE, 2)
RecordRejection(a) == UpsertScore(a, FALSE, 2)

adjustTrustIfNeeded(c) ==
    LET q == rxCalls[c] IN
    /\ q.pc = "trust"
    /\ IF q.reaction = "approve" THEN RecordApproval(RxAuthor[q.msg]) ELSE RecordRejection(RxAuthor[q.msg])
    /\ Goes(c, Quiet)
    /\ UNCHANGED <<rx, crowded, judged, dropped>>

-----------------------------------------------------------------------------
\* Remove: one DELETE; it takes no trust back
RemoveReaction(m, a, r) ==
    /\ Exists(m, a, r)
    /\ rx' = [rx EXCEPT ![m] = @ \ {[agent |-> a, reaction |-> r]}]
    /\ UNCHANGED <<rxCalls, trust, crowded, judged, dropped>>

callUnreact(m, a, r) == RemoveReaction(m, a, r)
RestRemove(m, r) == RemoveReaction(m, resolveAgentName, r)

\* A statement fails or the process stops
ToggleStops(c) ==
    LET q == rxCalls[c] IN
    /\ q.pc # "idle"
    /\ dropped' = IF q.pc = "trust" THEN [dropped EXCEPT ![RxAuthor[q.msg]] = @ + 1] ELSE dropped
    /\ Goes(c, Quiet)
    /\ UNCHANGED <<rx, trust, crowded, judged>>

ReactionsNext ==
    \/ \E c \in RxCalls :
          \/ CheckLimit(c) \/ InsertReaction(c) \/ DeleteReaction(c)
          \/ adjustTrustIfNeeded(c) \/ ToggleStops(c)
          \/ \E m \in RxMessages, r \in Verdicts :
                RestToggle(c, m, r) \/ \E a \in Reactors : callReact(c, m, a, r)
    \/ \E m \in RxMessages, r \in Verdicts :
          RestRemove(m, r) \/ \E a \in Reactors : callUnreact(m, a, r)

ReactionsSpec == ReactionsInit /\ [][ReactionsNext]_rxVars

-----------------------------------------------------------------------------
\* Scores stay between 0 and 1
ReactionsTypeOK ==
    /\ \A m \in RxMessages : rx[m] \subseteq [agent : Reactors, reaction : ValidReactions]
    /\ \A a \in Bots : trust[a].score \in 0..TopScore

\* Toggle: a message is claimed by one agent, and has at most the limit of
\* reactions, unless two calls judged it at the same time; the limit is then
\* passed by at most the other calls
ClaimExclusive ==
    \A m \in RxMessages :
        /\ ~crowded[m] => Cardinality({e \in rx[m] : e.reaction = "in_progress"}) <= 1
        /\ ~crowded[m] => CountByMessage(m) <= MaxReactionsPerMessage
        /\ CountByMessage(m) <= MaxReactionsPerMessage + Cardinality(RxCalls) - 1

\* ListByState, GetReactions: every message of a channel is listed under
\* exactly one state, the one that is shown with its reactions
StatesPartition ==
    \A m \in RxMessages :
        /\ {s \in WorkflowStates : m \in callListByState(s)} = {callGetReactions(m).state}
        /\ RestGetReactions(m) = callGetReactions(m)

\* EnrichMessages shows the same state unless the message was awarded
EnrichmentAgrees ==
    \A m \in RxMessages :
        EnrichedState(m) = callGetReactions(m).state \/ \E e \in rx[m] : e.reaction = "awarded"

\* adjustTrustIfNeeded: every verdict of a person that was stored moved the
\* author's trust once, or is about to, or its call stopped in between; a
\* verdict withdrawn is not taken back and one repeated counts again
TrustCountsVerdicts ==
    \A a \in Bots :
        LET pending == {c \in RxCalls : rxCalls[c].pc = "trust" /\ RxAuthor[rxCalls[c].msg] = a} IN
        judged[a] = trust[a].adjustments + Cardinality(pending) + dropped[a]

ReactionsSafe ==
    /\ ReactionsTypeOK /\ ClaimExclusive /\ StatesPartition
    /\ EnrichmentAgrees /\ TrustCountsVerdicts
=============================================================================
