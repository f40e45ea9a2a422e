------------------------------- MODULE Reactor -------------------------------
(***************************************************************************)
(* Reactive runs of one agent (internal/reactor).  Every DM starts a       *)
(* goroutine that walks the decision chain of evaluateTrigger: quarantine, *)
(* depth, daily budget, cooldown, busy, launch.  Each check is a query of  *)
(* its own, without a lock or a transaction around the chain.  A run is a  *)
(* Kubernetes Job watched by the Poller, or a harness process watched by   *)
(* the goroutine that started it; whoever sees it end looks at             *)
(* pending_work and may evaluate a coalesced trigger.                      *)
(*                                                                         *)
(* Agents do not share any of this state, so one agent is modelled.  Time  *)
(* is abstract: `cooling` says that the newest counted row is younger than *)
(* cooldown_seconds.  Events carry depth 0: nothing that sends messages    *)
(* sets MessageEvent.Depth.                                                *)
(***************************************************************************)
EXTENDS Integers, FiniteSets

CONSTANTS
  Messages,     \* DMs to the agent; each is dispatched by a goroutine of its own
  RunIds,       \* runs that may be launched
  Retries,      \* requests POST /api/runs/{id}/retry
  Poller,       \* the Poller's goroutine
  Coalesced,    \* the synthetic trigger of checkPendingWork
  Backend,      \* "k8s" or "harness"
  Budget,       \* agents.daily_trigger_budget
  MaxDepth,     \* agents.max_trigger_depth
  HasCooldown,  \* agents.cooldown_seconds > 0
  LongOutages,  \* whether an outage may outlast ttlSecondsAfterFinished
  MaxDays,      \* bound: how often midnight UTC passes
  MaxRestarts   \* bound: how often the server is restarted

ASSUME ReactorAssumption ==
  /\ Backend \in {"k8s", "harness"}
  /\ Budget \in Nat /\ MaxDepth \in Nat /\ MaxDays \in Nat /\ MaxRestarts \in Nat
  /\ HasCooldown \in BOOLEAN /\ LongOutages \in BOOLEAN
  /\ Coalesced \notin Messages
  /\ Poller \notin Messages \cup RunIds \cup Retries
  /\ Messages \cap RunIds = {} /\ Messages \cap Retries = {} /\ RunIds \cap Retries = {}

VARIABLES
  run,          \* reactive_runs.status of the launched runs; "none": no row
  trig,         \* the message a run was launched for, or Coalesced
  work,         \* the Job or process: "none", "active", "ok", "bad", "lost"
  today,        \* launched runs whose row was created today
  refused,      \* number of rows created today as "failed" without a run
  refusedFor,   \* the triggers of such rows, of any day
  cooling,      \* now - MAX(created_at) < cooldown_seconds
  pendingWork,  \* agents.pending_work
  quarantined,  \* agents.quarantined_at IS NOT NULL
  pc,           \* where each goroutine stands
  event,        \* the trigger a goroutine evaluates
  mine,         \* the run a goroutine is launching (itself before it launches one)
  toPoll,       \* active runs the Poller has read and not yet checked
  owed,         \* messages no run has started after, and not refused
  days, restarts

rowVars == <<run, trig, work, today, refused, refusedFor, cooling>>
ctlVars == <<pc, event, mine, toPoll>>
envVars == <<quarantined, days, restarts>>
vars    == <<rowVars, pendingWork, ctlVars, owed, envVars>>

Threads    == Messages \cup RunIds \cup Retries \cup {Poller}
Evaluating == {"evaluate", "budget", "cooldown", "busy", "flag", "launch", "insert", "clear"}
PCs        == Evaluating \cup {"idle", "working", "pending", "unflag", "done"}
Ended      == {"ok", "bad"}

At(t, label) == pc[t] = label
Goto(t, label) == pc' = [pc EXCEPT ![t] = label]
Return(t) == Goto(t, IF t = Poller THEN "idle" ELSE "done")

-----------------------------------------------------------------------------
(* The decision chain. *)

\* Dispatch of a DM: its row is in the database, its goroutine starts.
Dispatch(m) ==
  /\ At(m, "idle")
  /\ Goto(m, "evaluate")
  /\ event' = [event EXCEPT ![m] = m]
  /\ owed'  = owed \cup {m}
  /\ UNCHANGED <<rowVars, pendingWork, mine, toPoll, envVars>>

\* The messages an answer to this trigger is an answer to.
Answered(t) == IF event[t] = Coalesced THEN {m \in owed : At(m, "done")} ELSE {event[t]}

\* recordSkippedRun with StatusFailed: the row counts for budget and cooldown.
Refuse(t) ==
  /\ refused' = refused + 1
  /\ refusedFor' = refusedFor \cup {event[t]}
  /\ cooling' = HasCooldown
  /\ owed'    = IF t \in Retries THEN owed ELSE owed \ Answered(t)
  /\ Return(t)
  /\ UNCHANGED <<run, trig, work, today, pendingWork, event, mine, toPoll, envVars>>

EvaluateTrigger(t) ==
  /\ At(t, "evaluate")
  /\ \/ quarantined /\ Refuse(t)
     \/ /\ ~quarantined
        /\ IF MaxDepth <= 0 THEN Return(t) /\ owed' = owed \ Answered(t)
                            ELSE Goto(t, "budget") /\ UNCHANGED owed
        /\ UNCHANGED <<rowVars, pendingWork, event, mine, toPoll, envVars>>

CountTodayRuns == Cardinality(today) + refused

CheckBudget(t) ==
  /\ At(t, "budget")
  /\ IF CountTodayRuns >= Budget THEN Return(t) /\ owed' = owed \ Answered(t)
                                 ELSE Goto(t, "cooldown") /\ UNCHANGED owed
  /\ UNCHANGED <<rowVars, pendingWork, event, mine, toPoll, envVars>>

CheckCooldown(t) ==
  /\ At(t, "cooldown")
  /\ Goto(t, IF cooling THEN "flag" ELSE "busy")
  /\ UNCHANGED <<rowVars, pendingWork, event, mine, toPoll, owed, envVars>>

IsAgentRunning == \E r \in RunIds : run[r] = "running"

CheckRunning(t) ==
  /\ At(t, "busy")
  /\ Goto(t, IF IsAgentRunning THEN "flag" ELSE "launch")
  /\ UNCHANGED <<rowVars, pendingWork, event, mine, toPoll, owed, envVars>>

\* Mutant: the trigger is skipped without setting pending_work.
SkipWithoutFlag(t) ==
  /\ At(t, "flag")
  /\ Return(t)
  /\ UNCHANGED <<rowVars, pendingWork, event, mine, toPoll, owed, envVars>>

\* SetPendingWork(true); the row recordSkippedRun adds counts for nothing.
FlagPendingWork(t) ==
  /\ At(t, "flag")
  /\ pendingWork' = TRUE
  /\ Return(t)
  /\ UNCHANGED <<rowVars, event, mine, toPoll, owed, envVars>>

-----------------------------------------------------------------------------
(* Launching.  A Kubernetes Job exists before its row does. *)

Unused(r) == run[r] = "none" /\ work[r] = "none"

\* The Job is named after the agent and the message; a coalesced trigger has
\* no message and gets a random name.
NameTaken(e) == e # Coalesced /\ \E r \in RunIds : trig[r] = e /\ work[r] \in {"active"} \cup Ended

CreateJob(t, r) ==
  /\ Backend = "k8s"
  /\ At(t, "launch")
  /\ Unused(r) /\ ~NameTaken(event[t])
  /\ work' = [work EXCEPT ![r] = "active"]
  /\ trig' = [trig EXCEPT ![r] = event[t]]
  /\ mine' = [mine EXCEPT ![t] = r]
  /\ owed' = {}
  /\ Goto(t, "insert")
  /\ UNCHANGED <<run, today, refused, refusedFor, cooling, pendingWork, event, toPoll, envVars>>

\* Mutant: the row is written before the Job, which then cannot be created.
CreateJobFailsLate(t) ==
  /\ At(t, "launch") /\ Backend = "k8s"
  /\ \E r \in RunIds : Unused(r) /\ run' = [run EXCEPT ![r] = "running"]
  /\ Return(t)
  /\ UNCHANGED <<trig, work, today, refused, refusedFor, cooling, pendingWork, event, mine, toPoll,
                 owed, envVars>>

\* The cluster is unreachable, or a Job of that name still exists; a harness
\* agent has no Kubernetes runner to retry its run with.
CreateJobFails(t) ==
  /\ At(t, "launch")
  /\ Backend = "k8s" \/ t \in Retries
  /\ Refuse(t)

NewRow(t, r) ==
  /\ run'     = [run EXCEPT ![r] = "running"]
  /\ today'   = today \cup {r}
  /\ cooling' = HasCooldown
  /\ Goto(t, "clear")

InsertRun(t) ==
  /\ At(t, "insert")
  /\ NewRow(t, mine[t])
  /\ UNCHANGED <<trig, work, refused, refusedFor, pendingWork, event, mine, toPoll, owed, envVars>>

\* "failed to record reactive run (job already created)": the launch goes on.
InsertRunFails(t) ==
  /\ At(t, "insert")
  /\ Goto(t, "clear")
  /\ UNCHANGED <<rowVars, pendingWork, event, mine, toPoll, owed, envVars>>

\* dispatchHarness inserts the row first.
DispatchHarness(t, r) ==
  /\ Backend = "harness"
  /\ At(t, "launch") /\ t \notin Retries
  /\ Unused(r)
  /\ NewRow(t, r)
  /\ trig' = [trig EXCEPT ![r] = event[t]]
  /\ mine' = [mine EXCEPT ![t] = r]
  /\ UNCHANGED <<work, refused, refusedFor, pendingWork, event, toPoll, owed, envVars>>

\* SetPendingWork(false), then for a harness run `go r.runHarness`.
ClearPendingWork(t) ==
  /\ At(t, "clear")
  /\ pendingWork' = FALSE
  /\ IF Backend = "k8s"
     THEN Return(t) /\ UNCHANGED <<work, owed>>
     ELSE /\ pc'   = [pc EXCEPT ![t] = IF t = Poller THEN "idle" ELSE "done",
                                ![mine[t]] = "working"]
          /\ work' = [work EXCEPT ![mine[t]] = "active"]
          /\ owed' = {}
  /\ UNCHANGED <<run, trig, today, refused, refusedFor, cooling, event, mine, toPoll, envVars>>

-----------------------------------------------------------------------------
(* Completion. *)

\* The agent's process ends, a Job at the latest at its activeDeadlineSeconds.
WorkEnds(r, how) ==
  /\ work[r] = "active"
  /\ work' = [work EXCEPT ![r] = how]
  /\ UNCHANGED <<run, trig, today, refused, refusedFor, cooling, pendingWork, ctlVars, owed, envVars>>

Verdict(r) == IF work[r] = "ok" THEN "succeeded" ELSE "failed"

\* runHarness: CompleteRun, then checkPendingWork.
RunHarness(r) ==
  /\ At(r, "working")
  /\ work[r] \in Ended
  /\ run' = [run EXCEPT ![r] = Verdict(r)]
  /\ Goto(r, "pending")
  /\ UNCHANGED <<trig, work, today, refused, refusedFor, cooling, pendingWork, event, mine, toPoll, owed, envVars>>

\* The one-hour context ends the process, and with it CompleteRun, which is
\* given the same context.
HarnessTimeout(r) ==
  /\ At(r, "working")
  /\ work[r] = "active"
  /\ work' = [work EXCEPT ![r] = "bad"]
  /\ Goto(r, "pending")
  /\ UNCHANGED <<run, trig, today, refused, refusedFor, cooling, pendingWork, event, mine, toPoll, owed, envVars>>

\* pollActiveRuns: GetActiveRuns.
PollActiveRuns ==
  /\ Backend = "k8s"
  /\ At(Poller, "idle") /\ toPoll = {}
  /\ toPoll' = {r \in RunIds : run[r] = "running"}
  /\ toPoll' # {}
  /\ UNCHANGED <<rowVars, pendingWork, pc, event, mine, owed, envVars>>

\* Mutant: a failed Job is taken for one that is still running.
CheckJobIgnoresFailure(r) ==
  /\ At(Poller, "idle") /\ r \in toPoll
  /\ toPoll' = toPoll \ {r}
  /\ IF work[r] = "ok" THEN run' = [run EXCEPT ![r] = "succeeded"] /\ Goto(Poller, "pending")
                       ELSE UNCHANGED <<run, pc>>
  /\ UNCHANGED <<trig, work, today, refused, refusedFor, cooling, pendingWork, event, mine, owed, envVars>>

\* Mutant: a Job that cannot be read is taken for a failed one.
CheckJobMissingFails(r) ==
  /\ At(Poller, "idle") /\ r \in toPoll
  /\ toPoll' = toPoll \ {r}
  /\ IF work[r] # "active" THEN run' = [run EXCEPT ![r] = Verdict(r)] /\ Goto(Poller, "pending")
                           ELSE UNCHANGED <<run, pc>>
  /\ UNCHANGED <<trig, work, today, refused, refusedFor, cooling, pendingWork, event, mine, owed, envVars>>

\* checkJob and handleJobComplete; a Job that cannot be read is left alone.
CheckJob(r) ==
  /\ At(Poller, "idle") /\ r \in toPoll
  /\ toPoll' = toPoll \ {r}
  /\ IF work[r] \in Ended THEN run' = [run EXCEPT ![r] = Verdict(r)] /\ Goto(Poller, "pending")
                          ELSE UNCHANGED <<run, pc>>
  /\ UNCHANGED <<trig, work, today, refused, refusedFor, cooling, pendingWork, event, mine, owed, envVars>>

\* checkPendingWork reads the flag, clears it, and evaluates a new trigger.
CheckPendingWork(t) ==
  /\ At(t, "pending")
  /\ IF pendingWork THEN Goto(t, "unflag") ELSE Return(t)
  /\ UNCHANGED <<rowVars, pendingWork, event, mine, toPoll, owed, envVars>>

CoalescedTrigger(t) ==
  /\ At(t, "unflag")
  /\ pendingWork' = FALSE
  /\ event' = [event EXCEPT ![t] = Coalesced]
  /\ Goto(t, "evaluate")
  /\ UNCHANGED <<rowVars, mine, toPoll, owed, envVars>>

\* RetryRun of a failed row goes straight to createJob.
RetryRun(q, e) ==
  /\ At(q, "idle")
  /\ e \in refusedFor \cup {trig[r] : r \in {x \in RunIds : run[x] = "failed"}}
  /\ event' = [event EXCEPT ![q] = e]
  /\ Goto(q, "launch")
  /\ UNCHANGED <<rowVars, pendingWork, mine, toPoll, owed, envVars>>

-----------------------------------------------------------------------------
(* The environment. *)

\* No statement of the code writes quarantined_at yet; an operator does.
Quarantine ==
  /\ quarantined' = ~quarantined
  /\ UNCHANGED <<rowVars, pendingWork, ctlVars, owed, days, restarts>>

CooldownElapses ==
  /\ cooling
  /\ cooling' = FALSE
  /\ UNCHANGED <<run, trig, work, today, refused, refusedFor, pendingWork, ctlVars, owed, envVars>>

Midnight ==
  /\ days < MaxDays
  /\ days' = days + 1
  /\ today' = {} /\ refused' = 0
  /\ UNCHANGED <<run, trig, work, refusedFor, cooling, pendingWork, ctlVars, owed,
                 quarantined, restarts>>

\* ttlSecondsAfterFinished deletes, an hour after their end, the Jobs of runs
\* that are over or never got a row.
JobExpires(r) ==
  /\ Backend = "k8s"
  /\ work[r] \in Ended /\ run[r] # "running"
  /\ \A t \in Threads : At(t, "insert") => mine[t] # r
  /\ work' = [work EXCEPT ![r] = "lost"]
  /\ UNCHANGED <<run, trig, today, refused, refusedFor, cooling, pendingWork, ctlVars, owed, envVars>>

\* The goroutines die.  Harness processes die with the server, Jobs do not;
\* after a long outage they have ended and are deleted.
Restart(long) ==
  /\ restarts < MaxRestarts
  /\ restarts' = restarts + 1
  /\ pc' = [t \in Threads |-> IF t = Poller \/ At(t, "idle") THEN "idle" ELSE "done"]
  /\ toPoll' = {}
  /\ work' = [r \in RunIds |->
                IF work[r] # "none" /\ (long \/ Backend = "harness") THEN "lost" ELSE work[r]]
  /\ UNCHANGED <<run, trig, today, refused, refusedFor, cooling, pendingWork, event, mine, owed,
                 quarantined, days>>

-----------------------------------------------------------------------------
Init ==
  /\ run  = [r \in RunIds |-> "none"]
  /\ trig = [r \in RunIds |-> Coalesced]
  /\ work = [r \in RunIds |-> "none"]
  /\ today = {} /\ refused = 0 /\ refusedFor = {} /\ cooling = FALSE
  /\ pendingWork = FALSE /\ quarantined = FALSE
  /\ pc    = [t \in Threads |-> "idle"]
  /\ event = [t \in Threads |-> Coalesced]
  /\ mine  = [t \in Threads |-> t]
  /\ toPoll = {} /\ owed = {}
  /\ days = 0 /\ restarts = 0

\* What a goroutine does next, once it has been started.
Step(t) ==
  \/ EvaluateTrigger(t) \/ CheckBudget(t) \/ CheckCooldown(t) \/ CheckRunning(t)
  \/ FlagPendingWork(t) \/ ClearPendingWork(t) \/ CheckPendingWork(t) \/ CoalescedTrigger(t)
  \/ \E r \in RunIds : CreateJob(t, r) \/ DispatchHarness(t, r)
  \/ CreateJobFails(t) \/ InsertRun(t) \/ InsertRunFails(t)

Next ==
  \/ \E m \in Messages : Dispatch(m)
  \/ \E t \in Threads : Step(t)
  \/ \E r \in RunIds, how \in Ended : WorkEnds(r, how)
  \/ \E r \in RunIds : RunHarness(r) \/ HarnessTimeout(r) \/ CheckJob(r) \/ JobExpires(r)
  \/ PollActiveRuns
  \/ \E q \in Retries, e \in Messages \cup {Coalesced} : RetryRun(q, e)
  \/ Quarantine \/ CooldownElapses \/ Midnight
  \/ \E long \in {FALSE, LongOutages} : Restart(long)

\* Goroutines run, the Poller's ticker ticks, a Job ends at its deadline and
\* time passes.  Nothing makes anybody send, retry or lift a quarantine.
Fairness ==
  /\ \A t \in Threads : WF_vars(Step(t))
  /\ \A r \in RunIds : /\ WF_vars(\E how \in Ended : WorkEnds(r, how))
                       /\ WF_vars(RunHarness(r)) /\ WF_vars(CheckJob(r))
  /\ WF_vars(PollActiveRuns) /\ WF_vars(CooldownElapses)

Spec     == Init /\ [][Next]_vars
FairSpec == Spec /\ Fairness

-----------------------------------------------------------------------------
\* Rows, flags and goroutines of the reactive runs keep their types.
TypeOK ==
  /\ run  \in [RunIds -> {"none", "running", "succeeded", "failed"}]
  /\ trig \in [RunIds -> Messages \cup {Coalesced}]
  /\ work \in [RunIds -> {"none", "active", "ok", "bad", "lost"}]
  /\ today \in SUBSET RunIds
  /\ refused \in Nat
  /\ refusedFor \in SUBSET (Messages \cup {Coalesced})
  /\ cooling \in BOOLEAN /\ pendingWork \in BOOLEAN /\ quarantined \in BOOLEAN
  /\ pc    \in [Threads -> PCs]
  /\ event \in [Threads -> Messages \cup {Coalesced}]
  /\ mine  \in [Threads -> Threads]
  /\ toPoll \in SUBSET RunIds
  /\ owed \in SUBSET Messages
  /\ days \in 0..MaxDays /\ restarts \in 0..MaxRestarts

\* A row says "running" only if a Job was really created for it: the Job comes
\* first, so that neither a failed INSERT nor a restart between the two leaves
\* a running row that nothing will ever complete.
RunningHasJob ==
  Backend = "k8s" => \A r \in RunIds : run[r] = "running" => work[r] # "none"

\* The outcome of a run is written once, by the one goroutine that watches it,
\* and only after the work has ended.
OutcomeOnce ==
  [][\A r \in RunIds : run'[r] # run[r] =>
       \/ run[r] = "none" /\ run'[r] = "running"
       \/ run[r] = "running" /\ work[r] \in Ended /\ run'[r] = Verdict(r)]_vars

\* A trigger that was put off because the agent was busy or cooling down is not
\* forgotten: until some run has started after it, pending_work is set or a
\* coalesced evaluation is on its way.
NotForgotten ==
  \A m \in owed : At(m, "done") =>
    \/ pendingWork
    \/ \E t \in Threads \ Messages : pc[t] \in Evaluating

\* A Job that ends is noticed: whatever restarts happen meanwhile, the Poller
\* takes the row out of "running", without which the agent could never run
\* again.  (A Job that was deleted during a long outage is not there to notice.)
RunsComplete ==
  \A r \in RunIds : run[r] = "running" ~> run[r] # "running" \/ work[r] = "lost"

-----------------------------------------------------------------------------
(* What the documentation says and the code does not do. *)

\* specs/014-reactive-agent-triggers/spec.md, FR-005 and edge cases: only one
\* run at any time, the second of two simultaneous DMs sets pending_work.
OneRunAtATime == Cardinality({r \in RunIds : work[r] = "active"}) <= 1

\* FR-003: triggers are rejected when the daily budget is exhausted.
BudgetCap == Cardinality(today) <= Budget

\* FR-014: a retry is subject to the rate limits.
RetryLimited ==
  [][\A q \in Retries, r \in RunIds : CreateJob(q, r) => CountTodayRuns < Budget /\ ~cooling]_vars

\* User story 3: after the cooldown, "if `pending_work` is set, a new run
\* launches automatically".
CooldownRetry == (pendingWork /\ ~cooling) ~> ~pendingWork

\* FR-006: a single follow-up run launches after the current one completes.
FollowUpRun == pendingWork ~> ~pendingWork

\* runHarness "MUST update the reactive_runs row on every exit path".
HarnessRowUpdated ==
  \A r \in RunIds : Backend = "harness" /\ At(r, "done") => run[r] # "running"

=============================================================================
