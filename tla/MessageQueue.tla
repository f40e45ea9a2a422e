---------------------------- MODULE MessageQueue ----------------------------
(***************************************************************************)
(* The work-queue life of the rows of the `messages` table                 *)
(* (internal/messaging): a message is inserted `pending`, claimed by its   *)
(* addressee, finished as `done` or `failed`, auto-failed by the           *)
(* StalemateWorker when its claim is too old, and removed by retention or  *)
(* by an administrator's purge.                                            *)
(*                                                                         *)
(* Every SQL statement is one atomic step: the write pool has a single     *)
(* connection (internal/storage/sqlite.go), so statements serialise, but   *)
(* the statements of one Go function interleave with those of others.      *)
(* Time is abstract: `lapsed` says claimed_at is older than the processing *)
(* timeout, `expired` that created_at is older than the retention period.  *)
(***************************************************************************)
EXTENDS Integers, FiniteSets

CONSTANTS
  Messages,      \* ids a message row may get (AUTOINCREMENT, in this order)
  Agents,        \* agent names
  Sessions,      \* agent connections; several may act for one agent
  Handlers,      \* Web-UI request goroutines serving POST /messages/{id}/done
  AgentOf,       \* the agent a session is authenticated as
  Priorities,    \* priorities in use
  Limits,        \* claim limits in use
  BatchSize,     \* rows deleted per retention transaction
  MaxRestarts,   \* bound: how often the server is killed and started again
  NoAgent        \* the NULL of to_agent and claimed_by

ASSUME QueueAssumption ==
  /\ Messages \subseteq Nat
  /\ Priorities \subseteq Nat
  /\ Limits \subseteq Nat \ {0}
  /\ BatchSize \in Nat \ {0}
  /\ MaxRestarts \in Nat
  /\ AgentOf \in [Sessions -> Agents]
  /\ NoAgent \notin Agents
  /\ Sessions \cap Handlers = {}

VARIABLES
  status,     \* messages.status; "absent" before insertion, "gone" after
  addressee,  \* messages.to_agent
  priority,   \* messages.priority
  claimedBy,  \* messages.claimed_by
  lapsed,     \* claimed_at < now - ProcessingTimeout
  expired,    \* created_at < now - RetentionPeriod
  errorOf,    \* the "error" key of messages.metadata
  pc,         \* where each goroutine stands between two statements
  acting,     \* the agent a goroutine acts for
  sel,        \* ids its claim selected
  target,     \* the message it is about to finish
  verdict,    \* the status it is about to write
  held,       \* messages claim_messages has handed to the session
  staleIds,   \* ids the StalemateWorker selected and has still to update
  doomed,     \* ids the RetentionWorker selected and has still to delete
  purging,    \* ids PurgeMessages selected and has still to delete
  restarts    \* how often the server was restarted

rowVars    == <<status, addressee, priority, claimedBy, lapsed, expired, errorOf>>
threadVars == <<pc, acting, sel, target, verdict, held>>
workerVars == <<staleIds, doomed, purging>>
vars       == <<rowVars, threadVars, workerVars, restarts>>

Threads  == Sessions \cup Handlers
Statuses == {"pending", "processing", "done", "failed"}
Finished == {"done", "failed"}
Errors   == {"none", "reason", "timeout"}
NoMessage == -1

(* A row that a SELECT can return. *)
Exists(m) == status[m] \in Statuses

-----------------------------------------------------------------------------
(* Sending.  The recipient check and the conversation are in Conversations. *)

\* InsertMessage: to_agent is NULL for a channel post, ids are increasing.
InsertMessage(m, to, prio) ==
  /\ status[m] = "absent"
  /\ \A x \in Messages : x < m => status[x] # "absent"
  /\ status'    = [status EXCEPT ![m] = "pending"]
  /\ addressee' = [addressee EXCEPT ![m] = to]
  /\ priority'  = [priority EXCEPT ![m] = prio]
  /\ UNCHANGED <<claimedBy, lapsed, expired, errorOf, threadVars, workerVars, restarts>>

-----------------------------------------------------------------------------
(* ClaimMessages: SELECT ids, UPDATE those still pending, SELECT the ids.   *)

\* Mutant: the SELECT loses its to_agent = ?.
PendingForAnyone(a) == {m \in Messages : status[m] = "pending"}

PendingFor(a) == {m \in Messages : status[m] = "pending" /\ addressee[m] = a}

\* ORDER BY priority DESC, created_at ASC; equal timestamps come in id order.
Before(x, y) == priority[x] > priority[y] \/ (priority[x] = priority[y] /\ x < y)

FirstPending(a, n) ==
  {m \in PendingFor(a) : Cardinality({x \in PendingFor(a) : Before(x, m)}) < n}

\* Where a goroutine continues when its call of the store's ClaimMessages ends.
AfterClaim(t) == IF t \in Handlers THEN "recheck" ELSE "idle"

ClaimSelect(t, limit) ==
  LET ids == FirstPending(acting[t], limit)
  IN  /\ IF t \in Handlers THEN pc[t] = "claiming" /\ limit = 1 ELSE pc[t] = "idle"
      /\ sel' = [sel EXCEPT ![t] = ids]
      /\ pc'  = [pc EXCEPT ![t] = IF ids = {} THEN AfterClaim(t) ELSE "selected"]
      /\ UNCHANGED <<rowVars, acting, target, verdict, held, workerVars, restarts>>

\* Mutant: the UPDATE loses its AND status = 'pending'.
ClaimUpdateAnyStatus(t) ==
  /\ pc[t] = "selected"
  /\ status'    = [m \in Messages |-> IF m \in sel[t] /\ Exists(m) THEN "processing" ELSE status[m]]
  /\ claimedBy' = [m \in Messages |-> IF m \in sel[t] /\ Exists(m) THEN acting[t] ELSE claimedBy[m]]
  /\ pc' = [pc EXCEPT ![t] = "updated"]
  /\ UNCHANGED <<addressee, priority, lapsed, expired, errorOf,
                 acting, sel, target, verdict, held, workerVars, restarts>>

\* Mutant: the UPDATE forgets to set claimed_by.
ClaimUpdateNoOwner(t) ==
  LET won == {m \in sel[t] : status[m] = "pending"}
  IN  /\ pc[t] = "selected"
      /\ status' = [m \in Messages |-> IF m \in won THEN "processing" ELSE status[m]]
      /\ lapsed' = [m \in Messages |-> IF m \in won THEN FALSE ELSE lapsed[m]]
      /\ pc' = [pc EXCEPT ![t] = "updated"]
      /\ UNCHANGED <<addressee, priority, claimedBy, expired, errorOf,
                     acting, sel, target, verdict, held, workerVars, restarts>>

ClaimUpdate(t) ==
  LET won == {m \in sel[t] : status[m] = "pending"}
  IN  /\ pc[t] = "selected"
      /\ status'    = [m \in Messages |-> IF m \in won THEN "processing" ELSE status[m]]
      /\ claimedBy' = [m \in Messages |-> IF m \in won THEN acting[t] ELSE claimedBy[m]]
      /\ lapsed'    = [m \in Messages |-> IF m \in won THEN FALSE ELSE lapsed[m]]
      /\ pc' = [pc EXCEPT ![t] = "updated"]
      /\ UNCHANGED <<addressee, priority, expired, errorOf,
                     acting, sel, target, verdict, held, workerVars, restarts>>

\* The last SELECT returns every selected id that still has a row, whoever
\* won it; the done handler throws the result away.
ClaimFetch(t) ==
  /\ pc[t] = "updated"
  /\ held' = IF t \in Handlers THEN held
             ELSE [held EXCEPT ![t] = @ \cup {m \in sel[t] : Exists(m)}]
  /\ sel' = [sel EXCEPT ![t] = {}]
  /\ pc'  = [pc EXCEPT ![t] = AfterClaim(t)]
  /\ UNCHANGED <<rowVars, acting, target, verdict, workerVars, restarts>>

-----------------------------------------------------------------------------
(* MarkDone and MarkFailed: read the row, check it, then UPDATE ... WHERE   *)
(* id = ? AND claimed_by = ?.                                               *)

\* Mutant: MarkDone does not compare claimed_by with the caller.
FinishReadAnyOwner(t, m, v) ==
  /\ IF t \in Handlers THEN pc[t] = "marking" /\ m = target[t] /\ v = "done"
                       ELSE pc[t] = "idle"
  /\ status[m] = "processing"
  /\ pc'      = [pc EXCEPT ![t] = "finishing"]
  /\ target'  = [target EXCEPT ![t] = m]
  /\ verdict' = [verdict EXCEPT ![t] = v]
  /\ UNCHANGED <<rowVars, acting, sel, held, workerVars, restarts>>

FinishRead(t, m, v) ==
  /\ IF t \in Handlers THEN pc[t] = "marking" /\ m = target[t] /\ v = "done"
                       ELSE pc[t] = "idle"
  /\ status[m] = "processing"
  /\ claimedBy[m] = acting[t]
  /\ pc'      = [pc EXCEPT ![t] = "finishing"]
  /\ target'  = [target EXCEPT ![t] = m]
  /\ verdict' = [verdict EXCEPT ![t] = v]
  /\ UNCHANGED <<rowVars, acting, sel, held, workerVars, restarts>>

UpdateMessageStatus(t) ==
  LET m   == target[t]
      hit == Exists(m) /\ claimedBy[m] = acting[t]
  IN  /\ pc[t] = "finishing"
      /\ status'  = IF hit THEN [status EXCEPT ![m] = verdict[t]] ELSE status
      /\ errorOf' = IF hit /\ verdict[t] = "failed"
                    THEN [errorOf EXCEPT ![m] = "reason"] ELSE errorOf
      /\ held' = IF t \in Handlers THEN held ELSE [held EXCEPT ![t] = @ \ {m}]
      /\ pc' = [pc EXCEPT ![t] = "idle"]
      /\ target'  = [target EXCEPT ![t] = NoMessage]
      /\ verdict' = [verdict EXCEPT ![t] = "done"]
      /\ UNCHANGED <<addressee, priority, claimedBy, lapsed, expired,
                     acting, sel, workerVars, restarts>>

-----------------------------------------------------------------------------
(* The Web UI's POST /api/messages/{id}/done.  A pending message is first   *)
(* "claimed" with ClaimMessages(to_agent, 1), then read again.              *)

DoneRequest(h, m) ==
  /\ pc[h] = "idle"
  /\ Exists(m)
  /\ addressee[m] # NoAgent
  /\ status[m] \in {"pending", "processing"}
  /\ target' = [target EXCEPT ![h] = m]
  /\ acting' = [acting EXCEPT ![h] = IF status[m] = "pending"
                                     THEN addressee[m] ELSE claimedBy[m]]
  /\ pc' = [pc EXCEPT ![h] = IF status[m] = "pending" THEN "claiming" ELSE "marking"]
  /\ UNCHANGED <<rowVars, sel, verdict, held, workerVars, restarts>>

DoneRecheck(h) ==
  /\ pc[h] = "recheck"
  /\ status[target[h]] = "processing"
  /\ pc'     = [pc EXCEPT ![h] = "marking"]
  /\ acting' = [acting EXCEPT ![h] = claimedBy[target[h]]]
  /\ UNCHANGED <<rowVars, sel, target, verdict, held, workerVars, restarts>>

\* The second read, or MarkDone's own read, fails its checks: the request
\* answers an error, and what it claimed stays claimed.
DoneRefused(h) ==
  /\ \/ pc[h] = "recheck" /\ status[target[h]] # "processing"
     \/ pc[h] = "marking"
        /\ ~ (status[target[h]] = "processing" /\ claimedBy[target[h]] = acting[h])
  /\ pc'     = [pc EXCEPT ![h] = "idle"]
  /\ target' = [target EXCEPT ![h] = NoMessage]
  /\ UNCHANGED <<rowVars, acting, sel, verdict, held, workerVars, restarts>>

-----------------------------------------------------------------------------
(* An agent that crashes or drops its connection forgets what it holds.     *)

Disconnect(s) ==
  /\ pc[s] = "idle"
  /\ held[s] # {}
  /\ held' = [held EXCEPT ![s] = {}]
  /\ UNCHANGED <<rowVars, pc, acting, sel, target, verdict, workerVars, restarts>>

-----------------------------------------------------------------------------
(* StalemateWorker.failTimedOutProcessing *)

Stale(m) == status[m] = "processing" /\ lapsed[m]

StaleSelect ==
  /\ staleIds = {}
  /\ staleIds' = {m \in Messages : Stale(m) /\ addressee[m] # NoAgent}
  /\ staleIds' # {}
  /\ UNCHANGED <<rowVars, threadVars, doomed, purging, restarts>>

\* Mutant: the UPDATE trusts the SELECT and re-checks nothing but the id.
StaleFailTrusting(m) ==
  /\ m \in staleIds
  /\ staleIds' = staleIds \ {m}
  /\ status'  = IF Exists(m) THEN [status EXCEPT ![m] = "failed"] ELSE status
  /\ errorOf' = IF Exists(m) THEN [errorOf EXCEPT ![m] = "timeout"] ELSE errorOf
  /\ UNCHANGED <<addressee, priority, claimedBy, lapsed, expired,
                 threadVars, doomed, purging, restarts>>

\* Mutant: the re-check compares claimed_at the wrong way round.
StaleFailInverted(m) ==
  LET hit == status[m] = "processing" /\ ~lapsed[m]
  IN  /\ m \in staleIds
      /\ staleIds' = staleIds \ {m}
      /\ status'  = IF hit THEN [status EXCEPT ![m] = "failed"] ELSE status
      /\ errorOf' = IF hit THEN [errorOf EXCEPT ![m] = "timeout"] ELSE errorOf
      /\ UNCHANGED <<addressee, priority, claimedBy, lapsed, expired,
                     threadVars, doomed, purging, restarts>>

StaleFail(m) ==
  /\ m \in staleIds
  /\ staleIds' = staleIds \ {m}
  /\ status'  = IF Stale(m) THEN [status EXCEPT ![m] = "failed"] ELSE status
  /\ errorOf' = IF Stale(m) THEN [errorOf EXCEPT ![m] = "timeout"] ELSE errorOf
  /\ UNCHANGED <<addressee, priority, claimedBy, lapsed, expired,
                 threadVars, doomed, purging, restarts>>

-----------------------------------------------------------------------------
(* RetentionWorker.deleteExpiredMessages: SELECT ids, then one transaction  *)
(* per batch.  A transaction fails as a whole when a row outside the batch  *)
(* still replies to one of its rows (see Conversations).                    *)

RetentionSelect ==
  /\ doomed = {}
  /\ doomed' = {m \in Messages : Exists(m) /\ expired[m] /\ status[m] # "processing"}
  /\ doomed' # {}
  /\ UNCHANGED <<rowVars, threadVars, staleIds, purging, restarts>>

NextBatch(ids) == {m \in ids : Cardinality({x \in ids : x < m}) < BatchSize}

DeleteRows(ids) ==
  LET Reset(column, null) == [m \in Messages |-> IF m \in ids THEN null ELSE column[m]]
  IN  /\ status'    = Reset(status, "gone")
      /\ addressee' = Reset(addressee, NoAgent)
      /\ priority'  = Reset(priority, 0)
      /\ claimedBy' = Reset(claimedBy, NoAgent)
      /\ lapsed'    = Reset(lapsed, FALSE)
      /\ expired'   = Reset(expired, FALSE)
      /\ errorOf'   = Reset(errorOf, "none")

RetentionDelete ==
  /\ doomed # {}
  /\ DeleteRows(NextBatch(doomed)) \/ UNCHANGED rowVars
  /\ doomed' = doomed \ NextBatch(doomed)
  /\ UNCHANGED <<threadVars, staleIds, purging, restarts>>

-----------------------------------------------------------------------------
(* PurgeMessages (admin socket).  Its filters on age, sender, recipient and   *)
(* channel are joined by AND, so that any set of rows may match.            *)

PurgeFilters == SUBSET {m \in Messages : Exists(m)}

PurgeSelect(ids) ==
  /\ purging = {}
  /\ ids # {}
  /\ purging' = ids
  /\ UNCHANGED <<rowVars, threadVars, staleIds, doomed, restarts>>

PurgeDelete ==
  /\ purging # {}
  /\ DeleteRows(purging) \/ UNCHANGED rowVars
  /\ purging' = {}
  /\ UNCHANGED <<threadVars, staleIds, doomed, restarts>>

-----------------------------------------------------------------------------
(* The server is killed and started again: the rows are kept, every call and  *)
(* every worker loses its place between two statements.                     *)

Restart ==
  /\ restarts < MaxRestarts
  /\ restarts' = restarts + 1
  /\ pc'      = [t \in Threads |-> "idle"]
  /\ sel'     = [t \in Threads |-> {}]
  /\ target'  = [t \in Threads |-> NoMessage]
  /\ verdict' = [t \in Threads |-> "done"]
  /\ staleIds' = {} /\ doomed' = {} /\ purging' = {}
  /\ UNCHANGED <<rowVars, acting, held>>

-----------------------------------------------------------------------------
(* The passage of time. *)

ClaimAges(m) ==
  /\ status[m] = "processing" /\ ~lapsed[m]
  /\ lapsed' = [lapsed EXCEPT ![m] = TRUE]
  /\ UNCHANGED <<status, addressee, priority, claimedBy, expired, errorOf,
                 threadVars, workerVars, restarts>>

MessageAges(m) ==
  /\ Exists(m) /\ ~expired[m]
  /\ expired' = [expired EXCEPT ![m] = TRUE]
  /\ UNCHANGED <<status, addressee, priority, claimedBy, lapsed, errorOf,
                 threadVars, workerVars, restarts>>

-----------------------------------------------------------------------------
Init ==
  /\ status    = [m \in Messages |-> "absent"]
  /\ addressee = [m \in Messages |-> NoAgent]
  /\ priority  = [m \in Messages |-> 0]
  /\ claimedBy = [m \in Messages |-> NoAgent]
  /\ lapsed    = [m \in Messages |-> FALSE]
  /\ expired   = [m \in Messages |-> FALSE]
  /\ errorOf   = [m \in Messages |-> "none"]
  /\ pc        = [t \in Threads |-> "idle"]
  /\ acting    = [t \in Threads |-> IF t \in Sessions THEN AgentOf[t] ELSE NoAgent]
  /\ sel       = [t \in Threads |-> {}]
  /\ target    = [t \in Threads |-> NoMessage]
  /\ verdict   = [t \in Threads |-> "done"]
  /\ held      = [s \in Sessions |-> {}]
  /\ staleIds = {} /\ doomed = {} /\ purging = {}
  /\ restarts = 0

Next ==
  \/ \E m \in Messages, to \in Agents \cup {NoAgent}, p \in Priorities : InsertMessage(m, to, p)
  \/ \E t \in Threads, n \in Limits : ClaimSelect(t, n)
  \/ \E t \in Threads : ClaimUpdate(t)
  \/ \E t \in Threads : ClaimFetch(t)
  \/ \E t \in Threads, m \in Messages, v \in Finished : FinishRead(t, m, v)
  \/ \E t \in Threads : UpdateMessageStatus(t)
  \/ \E h \in Handlers, m \in Messages : DoneRequest(h, m)
  \/ \E h \in Handlers : DoneRecheck(h)
  \/ \E h \in Handlers : DoneRefused(h)
  \/ \E s \in Sessions : Disconnect(s)
  \/ StaleSelect
  \/ \E m \in Messages : StaleFail(m)
  \/ RetentionSelect
  \/ RetentionDelete
  \/ \E ids \in PurgeFilters : PurgeSelect(ids)
  \/ PurgeDelete
  \/ Restart
  \/ \E m \in Messages : ClaimAges(m)
  \/ \E m \in Messages : MessageAges(m)

\* The StalemateWorker's ticker fires for as long as the server runs, and a
\* claim that is not finished grows old.  After its last restart it stays up.
Fairness ==
  /\ WF_vars(StaleSelect)
  /\ \A m \in Messages : WF_vars(StaleFail(m)) /\ WF_vars(ClaimAges(m))

Spec     == Init /\ [][Next]_vars
FairSpec == Spec /\ Fairness

-----------------------------------------------------------------------------
\* The columns, the goroutines' local variables and the workers' id lists keep
\* their types.
TypeOK ==
  /\ status    \in [Messages -> Statuses \cup {"absent", "gone"}]
  /\ addressee \in [Messages -> Agents \cup {NoAgent}]
  /\ priority  \in [Messages -> Nat]
  /\ claimedBy \in [Messages -> Agents \cup {NoAgent}]
  /\ lapsed    \in [Messages -> BOOLEAN]
  /\ expired   \in [Messages -> BOOLEAN]
  /\ errorOf   \in [Messages -> Errors]
  /\ pc        \in [Threads -> {"idle", "claiming", "selected", "updated", "recheck",
                                "marking", "finishing"}]
  /\ acting    \in [Threads -> Agents \cup {NoAgent}]
  /\ sel       \in [Threads -> SUBSET Messages]
  /\ target    \in [Threads -> Messages \cup {NoMessage}]
  /\ verdict   \in [Threads -> Finished]
  /\ held      \in [Sessions -> SUBSET Messages]
  /\ staleIds  \in SUBSET Messages
  /\ doomed    \in SUBSET Messages
  /\ purging   \in SUBSET Messages
  /\ restarts  \in 0..MaxRestarts

-----------------------------------------------------------------------------
(* Properties. *)

\* A row is owned exactly from its claim on, and only by the agent it was sent
\* to: ClaimMessages takes what is addressed to the caller, and nothing
\* (finishing, timing out, a refused Web-UI request) gives the claim away.
ClaimOwnership ==
  \A m \in Messages :
    /\ status[m] \in {"absent", "pending", "gone"} => claimedBy[m] = NoAgent
    /\ status[m] \in {"processing"} \cup Finished =>
         claimedBy[m] = addressee[m] /\ claimedBy[m] \in Agents

\* What claim_messages hands to a session was claimed for that session's agent:
\* although the last SELECT of ClaimMessages does not look at claimed_by, no
\* agent is ever handed another agent's claim or a row nobody has claimed.
HandedOutClaimed ==
  \A s \in Sessions : \A m \in held[s] :
    status[m] \notin {"absent", "pending"} /\ (Exists(m) => claimedBy[m] = AgentOf[s])

\* A handler that has read its message again, and a session between MarkDone's
\* read and its UPDATE, acts as the owner of the row: the UPDATE's claimed_by
\* filter never lets it finish a row owned by another agent.
FinisherIsOwner ==
  \A t \in Threads : pc[t] = "finishing" =>
    /\ status[target[t]] \notin {"absent", "pending"}
    /\ Exists(target[t]) => claimedBy[target[t]] = acting[t]

\* Between its statements a goroutine knows only what cannot be taken back:
\* the ids it selected were sent to the agent it acts for and, once its UPDATE
\* has run, are no longer pending, whoever claimed them.  The ids a deleting
\* worker remembers are those of rows that were once inserted.
CallsInFlight ==
  /\ \A s \in Sessions : acting[s] = AgentOf[s]
  /\ \A t \in Threads :
       /\ pc[t] \in {"claiming", "selected", "updated"} => acting[t] \in Agents
       /\ t \in Handlers /\ pc[t] # "idle" => target[t] \in Messages
       /\ t \in Sessions => pc[t] \in {"idle", "selected", "updated", "finishing"}
       /\ pc[t] = "finishing" => target[t] \in Messages
       /\ \A m \in sel[t] :
            /\ pc[t] \in {"selected", "updated"}
            /\ status[m] # "absent"
            /\ Exists(m) => addressee[m] = acting[t]
            /\ pc[t] = "updated" => status[m] # "pending"
  /\ \A m \in doomed \cup purging : status[m] # "absent"

\* The reason a message failed is on its row whichever way it failed, also when
\* MarkFailed's UPDATE and the StalemateWorker's race.
FailedHasError ==
  \A m \in Messages : status[m] = "failed" => errorOf[m] # "none"

Rank == [x \in Statuses \cup {"absent", "gone"} |->
           CASE x = "absent" -> 0 [] x = "pending" -> 1 [] x = "processing" -> 2
             [] x \in Finished -> 3 [] x = "gone" -> 4]

\* A message never goes back: no interleaving of claims, finishes, time-outs
\* and deletions returns it to an earlier stage, so no message is worked twice
\* because it was put back in the queue, and no deleted one reappears.
ForwardOnly ==
  [][\A m \in Messages : Rank[status[m]] <= Rank[status'[m]]]_vars

\* The StalemateWorker fails live work only: a row gets the time-out error only
\* in a step that starts with the row processing on a lapsed claim, however
\* long ago the worker selected it.
StaleFailsOnlyStale ==
  [][\A m \in Messages : errorOf'[m] = "timeout" /\ errorOf[m] # "timeout" => Stale(m)]_vars

\* No claim lasts for ever: a claimed message is finished, timed out or removed
\* even if the agent that claimed it has disconnected and never answers, or if
\* the claim was made on its behalf by a Web-UI request for another message.
ClaimsResolve ==
  \A m \in Messages : status[m] = "processing" ~> status[m] # "processing"

\* Every step of the statements above is a step of the abstract life of a
\* message, or none: the three statements of ClaimMessages act as one atomic
\* claim at the UPDATE, and the read-then-write of MarkDone, MarkFailed, the
\* StalemateWorker and retention act at their last statement.
Lifecycle == INSTANCE MessageLifecycle
               WITH stage <- status, to <- addressee, owner <- claimedBy

ImplementsLifecycle == Lifecycle!Spec

-----------------------------------------------------------------------------
(* What the documentation says and the code does not do. *)

\* .specify/specs/001-core-messaging/spec.md: when two simultaneous calls claim
\* one message, "Only one MUST succeed [...] the other gets an empty result for
\* that message".
ExclusiveClaim ==
  \A s, u \in Sessions : s # u => held[s] \cap held[u] = {}

\* The same document: mark_done "transitions a message from "processing" to
\* "done" or "failed"" and must fail on a message that is already done.
FinishedIsFinal ==
  [][\A m \in Messages : status[m] \in Finished => status'[m] \in {status[m], "gone"}]_vars

\* retention.go, deleteExpiredMessages: "Get message IDs to delete (skip
\* processing status)".
RetentionSparesProcessing ==
  [][RetentionDelete => \A m \in Messages : status[m] = "processing" => status'[m] = "processing"]_vars

=============================================================================
