----------------------------- MODULE DreamWorker -----------------------------
(***************************************************************************)
(* The dream worker (internal/messaging: ConsolidatorWorker, JobsStore,    *)
(* DispatchTokenStore, DreamUsageStore, UsageGate).  The worker's ticker   *)
(* and the administrator's `memory dream-run` create rows of               *)
(* memory_consolidation_jobs, issue a dispatch token for each and start a  *)
(* goroutine that waits for the semaphore, runs the dream agent and        *)
(* records the outcome.  A store call is one SQL statement and one action. *)
(*                                                                         *)
(* Time is abstract: a token is `old` once its job has waited for the      *)
(* semaphore so long that it may lapse while the job executes.             *)
(***************************************************************************)
EXTENDS Integers, Sequences, FiniteSets

CONSTANTS
  Owners,
  JobIds,              \* ids a job row may get (AUTOINCREMENT, in this order)
  Worker,              \* the ConsolidatorWorker's goroutine
  Admins,              \* requests memory.dream-run on the admin socket
  NoJob,
  JobTypes,            \* bound: the job types looked at
  MaxParallel,         \* the largest --parallel of a dream-run
  DreamMaxConcurrent,
  DreamDailyJobLimit,  \* 0: no limit
  TokenLimits,         \* whether DreamDailyTokenLimitIn or ...Out is set
  MaxDays,             \* bound: how often midnight UTC passes
  MaxRestarts          \* bound: how often the server is restarted

Types          == {"reflection", "core_rewrite", "dedup_contradiction", "link_gen"}
Wanted(t)      == IF t \in JobTypes THEN <<t>> ELSE <<>>
WatermarkTypes == Wanted("reflection") \o Wanted("link_gen") \o Wanted("dedup_contradiction")
Dispatchers    == {Worker} \cup Admins

ASSUME DreamAssumption ==
  /\ JobTypes \subseteq Types /\ Owners # {} /\ IsFiniteSet(Admins) /\ Worker \notin Admins
  /\ JobIds \subseteq Nat /\ IsFiniteSet(JobIds) /\ NoJob \notin JobIds
  /\ MaxParallel \in Nat \ {0} /\ DreamMaxConcurrent \in Nat \ {0}
  /\ DreamDailyJobLimit \in Nat /\ TokenLimits \in BOOLEAN /\ MaxDays \in Nat /\ MaxRestarts \in Nat

VARIABLES
  status,     \* memory_consolidation_jobs.status; "none": no row
  jobOf,      \* its owner, type and slot, and whether a shut gate made it
  token,      \* the job's row of memory_dispatch_tokens
  run,        \* where the job's goroutine stands
  ctl,        \* where each dispatcher stands: its owner, its job, what is left to do
  started,    \* memory_dream_usage.jobs_started of today
  finished,   \* jobs_succeeded + jobs_failed of today
  overspent,  \* whether today's tokens exceed a limit
  days, restarts

usageVars == <<started, finished, overspent>>
dreamVars == <<status, jobOf, token, run, ctl, usageVars, days, restarts>>

Flying   == {"pending", "dispatched", "running"}
Over     == {"succeeded", "partial", "failed"}
Storable == Flying \cup Over \cup {"expired"}
Holding  == {"lease", "exec", "revoke", "account"}    \* these hold the semaphore
Launched == Holding \cup {"queued"}
OwnerOf(j) == jobOf[j].owner

\* Complete: an UPDATE without a condition on the old status, refused by the
\* CHECK constraint when the schema does not know the new one.  No caller does
\* more with the error than log it.
Complete(j, s) ==
  status' = IF s \in Storable THEN [status EXCEPT ![j] = s] ELSE status

-----------------------------------------------------------------------------
(* Triggers. *)

IdsLeft == \E j \in JobIds : status[j] = "none"      \* the bound on the number of jobs

\* One owner of a tick.  `full`: unprocessedCount has reached the watermark;
\* `deep`: the nightly pass is due and the owner's agents have been active.
Tick(o, full, deep) ==
  LET items == (IF full THEN WatermarkTypes ELSE <<>>) \o (IF deep THEN Wanted("core_rewrite") ELSE <<>>)
  IN  /\ IdsLeft /\ ctl[Worker].at = "idle"
      /\ items # <<>>
      /\ ctl' = [ctl EXCEPT ![Worker] =
                  [at |-> "gate", owner |-> o, job |-> NoJob,
                   plan |-> [i \in DOMAIN items |-> [type |-> items[i], slot |-> 0]]]]
      /\ UNCHANGED <<status, jobOf, token, run, usageVars, days, restarts>>

\* Mutant: a dream-run fans out rewrites of the core memory, too.
ForceRunFansOut(d, o, t, n) ==
  /\ IdsLeft /\ ctl[d].at = "idle"
  /\ ctl' = [ctl EXCEPT ![d] = [at |-> "gate", owner |-> o, job |-> NoJob,
                                plan |-> [i \in 1..n |-> [type |-> t, slot |-> i - 1]]]]
  /\ UNCHANGED <<status, jobOf, token, run, usageVars, days, restarts>>

ForceRunN(d, o, t, n) ==
  LET parallel == IF t = "core_rewrite" THEN 1 ELSE n
  IN  /\ IdsLeft /\ ctl[d].at = "idle"
      /\ ctl' = [ctl EXCEPT ![d] = [at |-> "gate", owner |-> o, job |-> NoJob,
                                    plan |-> [i \in 1..parallel |-> [type |-> t, slot |-> i - 1]]]]
      /\ UNCHANGED <<status, jobOf, token, run, usageVars, days, restarts>>

-----------------------------------------------------------------------------
(* Dispatch: tryDispatch of the worker, ForceRunN and launchOne of an admin. *)

Item(d)        == Head(ctl[d].plan)
Goto(d, label) == ctl' = [ctl EXCEPT ![d].at = label]
Rest           == [at |-> "idle", owner |-> CHOOSE o \in Owners : TRUE, job |-> NoJob, plan |-> <<>>]

\* The worker looks at the gate for every job, a dream-run only at first.
NextItem(d) ==
  ctl' = [ctl EXCEPT ![d] =
            IF Len(ctl[d].plan) = 1 THEN Rest
            ELSE [at |-> IF d = Worker THEN "gate" ELSE "create", owner |-> ctl[d].owner,
                  job |-> NoJob, plan |-> Tail(ctl[d].plan)]]

\* An error ends a dream-run; the worker goes on with the next type.
GiveUp(d) == IF d = Worker THEN NextItem(d) ELSE ctl' = [ctl EXCEPT ![d] = Rest]

Allow(o) ==
  ~overspent[o] /\ (DreamDailyJobLimit > 0 => started[o] < DreamDailyJobLimit)

Gate(d) ==
  /\ ctl[d].at = "gate"
  /\ Goto(d, IF Allow(ctl[d].owner) THEN "create" ELSE "broken")
  /\ UNCHANGED <<status, jobOf, token, run, usageVars, days, restarts>>

\* idx_consolidation_in_flight, the partial unique index.
Taken(o, t, s) ==
  \E j \in JobIds : /\ status[j] \in Flying
                    /\ OwnerOf(j) = o /\ jobOf[j].type = t /\ jobOf[j].slot = s

\* The INSERT of CreateOnSlot.
InsertJob(d, s, broken, label) ==
  \E j \in JobIds :
    /\ status[j] = "none"
    /\ \A k \in JobIds : k < j => status[k] # "none"
    /\ status' = [status EXCEPT ![j] = "pending"]
    /\ jobOf'  = [jobOf EXCEPT ![j] = [owner |-> ctl[d].owner, type |-> Item(d).type,
                                       slot |-> s, broken |-> broken]]
    /\ ctl' = [ctl EXCEPT ![d].job = j, ![d].at = label]

\* A dream-run whose first slot is busy answers with the job in flight, if
\* ActiveJob still finds it.
CreateOnSlot(d) ==
  /\ ctl[d].at = "create"
  /\ IF Taken(ctl[d].owner, Item(d).type, Item(d).slot)
     THEN /\ \/ NextItem(d)
             \/ d \in Admins /\ Item(d).slot = 0 /\ GiveUp(d)
          /\ UNCHANGED <<status, jobOf>>
     ELSE InsertJob(d, Item(d).slot, FALSE, "token")
  /\ UNCHANGED <<token, run, usageVars, days, restarts>>

\* The gate is shut: the attempt is to be recorded as a job of slot 0.
CreateBroken(d) ==
  /\ ctl[d].at = "broken"
  /\ IF Taken(ctl[d].owner, Item(d).type, 0)
     THEN GiveUp(d) /\ UNCHANGED <<status, jobOf>>
     ELSE InsertJob(d, 0, TRUE, "close")
  /\ UNCHANGED <<token, run, usageVars, days, restarts>>

CompleteBroken(d) ==
  /\ ctl[d].at = "close"
  /\ Complete(ctl[d].job, "circuit_broken")
  /\ GiveUp(d)
  /\ UNCHANGED <<jobOf, token, run, usageVars, days, restarts>>

Issue(d) ==
  /\ ctl[d].at = "token"
  /\ token' = [token EXCEPT ![ctl[d].job] = "live"]
  /\ Goto(d, "flip")
  /\ UNCHANGED <<status, jobOf, run, usageVars, days, restarts>>

\* Mutant: the goroutine is started before the row is flipped.
DispatchAndGo(d, found) ==
  /\ ctl[d].at = "flip"
  /\ IF found THEN Goto(d, "start") /\ UNCHANGED status /\ run' = [run EXCEPT ![ctl[d].job] = "queued"]
              ELSE Complete(ctl[d].job, "failed") /\ GiveUp(d) /\ UNCHANGED run
  /\ UNCHANGED <<jobOf, token, usageVars, days, restarts>>

\* GetAgent, which may not find the dream agent, and the flip of the row.
Dispatch(d, found) ==
  /\ ctl[d].at = "flip"
  /\ IF found /\ status[ctl[d].job] = "pending"
     THEN status' = [status EXCEPT ![ctl[d].job] = "dispatched"] /\ Goto(d, "start")
     ELSE Complete(ctl[d].job, "failed") /\ GiveUp(d)
  /\ UNCHANGED <<jobOf, token, run, usageVars, days, restarts>>

\* Mutant: a start is not counted while the gate is shut.
LaunchCapped(d) ==
  /\ ctl[d].at = "start"
  /\ started' = [started EXCEPT ![ctl[d].owner] = IF Allow(ctl[d].owner) THEN @ + 1 ELSE @]
  /\ run' = [run EXCEPT ![ctl[d].job] = "queued"]
  /\ NextItem(d)
  /\ UNCHANGED <<status, jobOf, token, finished, overspent, days, restarts>>

\* RecordStart and the go statement.
Launch(d) ==
  /\ ctl[d].at = "start"
  /\ started' = [started EXCEPT ![ctl[d].owner] = @ + 1]
  /\ run' = [run EXCEPT ![ctl[d].job] = "queued"]
  /\ NextItem(d)
  /\ UNCHANGED <<status, jobOf, token, finished, overspent, days, restarts>>

-----------------------------------------------------------------------------
(* The goroutine of a job: the semaphore, then runJob. *)

Resume(j, label) == run' = [run EXCEPT ![j] = label]

Acquire(j) ==
  /\ run[j] = "queued"
  /\ Cardinality({k \in JobIds : run[k] \in Holding}) < DreamMaxConcurrent
  /\ Resume(j, "lease")
  /\ UNCHANGED <<status, jobOf, token, ctl, usageVars, days, restarts>>

\* Lease; whether it succeeds or not, the harness is called with the token.
Lease(j) ==
  /\ run[j] = "lease"
  /\ status' = IF status[j] \in {"dispatched", "pending"} THEN [status EXCEPT ![j] = "running"] ELSE status
  /\ Resume(j, "exec")
  /\ UNCHANGED <<jobOf, token, ctl, usageVars, days, restarts>>

\* The agent works for minutes; those in the queue wait as long.
RunsLong(j) ==
  /\ run[j] = "exec"
  /\ token' = [k \in JobIds |-> IF run[k] = "queued" /\ token[k] = "live" THEN "old" ELSE token[k]]
  /\ UNCHANGED <<status, jobOf, run, ctl, usageVars, days, restarts>>

\* Execute returns, at the latest when the wall-clock budget is used up; s is
\* what mapHarnessResult makes of it.
CompleteJob(j, s) ==
  /\ run[j] = "exec"
  /\ Complete(j, s)
  /\ Resume(j, "revoke")
  /\ UNCHANGED <<jobOf, token, ctl, usageVars, days, restarts>>

Revoke(j) ==
  /\ run[j] = "revoke"
  /\ token' = [token EXCEPT ![j] = "revoked"]
  /\ Resume(j, "account")
  /\ UNCHANGED <<status, jobOf, ctl, usageVars, days, restarts>>

\* Mutant: a goroutine whose job has failed keeps the semaphore.
RecordCompletionLeaks(j, spent) ==
  /\ run[j] = "account" /\ status[j] # "failed"
  /\ finished' = [finished EXCEPT ![OwnerOf(j)] = @ + 1]
  /\ overspent' = [overspent EXCEPT ![OwnerOf(j)] = @ \/ spent]
  /\ Resume(j, "done")
  /\ UNCHANGED <<status, jobOf, token, ctl, started, days, restarts>>

\* RecordCompletion, and the deferred release of the semaphore.
RecordCompletion(j, spent) ==
  /\ run[j] = "account"
  /\ finished' = [finished EXCEPT ![OwnerOf(j)] = @ + 1]
  /\ overspent' = [overspent EXCEPT ![OwnerOf(j)] = @ \/ spent]
  /\ Resume(j, "done")
  /\ UNCHANGED <<status, jobOf, token, ctl, started, days, restarts>>

-----------------------------------------------------------------------------
(* The clock and the server process. *)

\* DispatchTokenTTL covers the launch and the execution of a job, not its wait
\* in the queue.  (A token that was never handed out is of no interest.)
TokenExpires(j) ==
  /\ \/ token[j] = "old"
     \/ token[j] = "live" /\ run[j] \in {"orphan", "revoke"}
  /\ token' = [token EXCEPT ![j] = "expired"]
  /\ UNCHANGED <<status, jobOf, run, ctl, usageVars, days, restarts>>

\* Today() and the UPSERTs take the row of the UTC date.
Midnight ==
  /\ days < MaxDays
  /\ days' = days + 1
  /\ started'   = [o \in Owners |-> 0]
  /\ finished'  = [o \in Owners |-> 0]
  /\ overspent' = [o \in Owners |-> FALSE]
  /\ UNCHANGED <<status, jobOf, token, run, ctl, restarts>>

\* Dispatchers and goroutines are gone, the agent of a job that was executing
\* may work on; no row is looked at when the server comes back.
Restart ==
  /\ restarts < MaxRestarts
  /\ restarts' = restarts + 1
  /\ ctl' = [d \in Dispatchers |-> Rest]
  /\ run' = [j \in JobIds |-> IF run[j] = "exec" THEN "orphan"
                              ELSE IF run[j] \in Launched THEN "lost" ELSE run[j]]
  /\ UNCHANGED <<status, jobOf, token, usageVars, days>>

-----------------------------------------------------------------------------
NoRow == [owner |-> CHOOSE o \in Owners : TRUE, type |-> "reflection", slot |-> 0, broken |-> FALSE]

DreamInit ==
  /\ status = [j \in JobIds |-> "none"]
  /\ jobOf  = [j \in JobIds |-> NoRow]
  /\ token  = [j \in JobIds |-> "none"]
  /\ run    = [j \in JobIds |-> "none"]
  /\ ctl    = [d \in Dispatchers |-> Rest]
  /\ started   = [o \in Owners |-> 0]
  /\ finished  = [o \in Owners |-> 0]
  /\ overspent = [o \in Owners |-> FALSE]
  /\ days = 0 /\ restarts = 0

DispatchStep(d) ==
  \/ Gate(d) \/ CreateOnSlot(d) \/ CreateBroken(d) \/ CompleteBroken(d) \/ Issue(d)
  \/ \E found \in BOOLEAN : Dispatch(d, found)
  \/ Launch(d)

RunStep(j) ==
  \/ Acquire(j) \/ Lease(j) \/ Revoke(j)
  \/ \E s \in Over : CompleteJob(j, s)
  \/ \E spent \in {FALSE, TokenLimits} : RecordCompletion(j, spent)

\* What the server does while it is up.
Working ==
  \/ \E o \in Owners, full \in BOOLEAN, deep \in BOOLEAN : Tick(o, full, deep)
  \/ \E d \in Admins, o \in Owners, t \in JobTypes, n \in 1..MaxParallel : ForceRunN(d, o, t, n)
  \/ \E d \in Dispatchers : DispatchStep(d)
  \/ \E j \in JobIds : RunStep(j) \/ RunsLong(j) \/ TokenExpires(j)
  \/ Midnight

DreamNext == Working \/ Restart
DreamSpec == DreamInit /\ [][DreamNext]_dreamVars

\* Goroutines run, and Execute returns: runJob gives it a deadline.
DreamFairness == \A j \in JobIds : WF_dreamVars(RunStep(j))

-----------------------------------------------------------------------------
(* Properties. *)

Labels  == {"idle", "gate", "create", "broken", "close", "token", "flip", "start"}
Plans   == Seq([type : Types, slot : 0..(MaxParallel - 1)])
Control == [at : Labels, owner : Owners, job : JobIds \cup {NoJob}, plan : Plans]

\* The types of the tables and of the dispatchers' and goroutines' positions.
DreamTypeOK ==
  /\ status \in [JobIds -> {"none"} \cup Storable]
  /\ jobOf  \in [JobIds -> [owner : Owners, type : Types, slot : 0..(MaxParallel - 1), broken : BOOLEAN]]
  /\ token  \in [JobIds -> {"none", "live", "old", "expired", "revoked"}]
  /\ run    \in [JobIds -> Launched \cup {"none", "done", "lost", "orphan"}]
  /\ ctl    \in [Dispatchers -> Control]
  /\ \A d \in Dispatchers :
       /\ ctl[d].at = "idle" <=> ctl[d].plan = <<>>
       /\ ctl[d].at \in {"token", "flip", "start", "close"} <=> ctl[d].job # NoJob
  /\ started \in [Owners -> Nat] /\ finished \in [Owners -> Nat]
  /\ overspent \in [Owners -> BOOLEAN]
  /\ days \in 0..MaxDays /\ restarts \in 0..MaxRestarts

\* "concurrent rewrites would race" (ForceRunN): whatever the ticker and the
\* administrators do, and however often the server is restarted, at most one dream
\* agent is at work, or will be, on an owner's core memory.
OneRewrite ==
  \A j, k \in JobIds :
    /\ {run[j], run[k]} \subseteq {"queued", "lease", "exec", "orphan"}
    /\ jobOf[j].type = "core_rewrite" /\ jobOf[k].type = "core_rewrite"
    /\ OwnerOf(j) = OwnerOf(k)
    => j = k

\* While the server stays up on one day, the usage row accounts for every job
\* that was started: it has been counted as ended or its goroutine is alive.
UsageAccounted ==
  days = 0 /\ restarts = 0 =>
    \A o \in Owners :
      started[o] = finished[o] + Cardinality({j \in JobIds : run[j] \in Launched /\ OwnerOf(j) = o})

\* Complete overwrites whatever it finds, yet a row only moves forward and
\* keeps the outcome it ended with: the UPDATEs of the dispatcher and of the
\* goroutine never meet in the wrong order.
JobLifecycle ==
  [][\A j \in JobIds : status[j] # status'[j] =>
       \/ status[j] = "none"       /\ status'[j] = "pending"
       \/ status[j] = "pending"    /\ status'[j] \in {"dispatched", "failed"}
       \/ status[j] = "dispatched" /\ status'[j] = "running"
       \/ status[j] = "running"    /\ status'[j] \in Over]_dreamVars

\* A launched job ends, whatever becomes of the agents before it in the queue,
\* unless the server is restarted.
DispatchedSettles ==
  \A j \in JobIds : run[j] \in Launched ~> (status[j] \in Over \/ restarts > 0)

-----------------------------------------------------------------------------
(* What the comments and documents promise and the code does not keep (see     *)
(* README).                                                                    *)

\* consolidation_jobs.go:38: "The job row is created so the audit log shows the
\* attempt, then Complete()d immediately with this status"; the CHECK constraint of
\* migration 028 does not know circuit_broken, so the row stays pending and keeps
\* its slot for good.
BrokenCompleted ==
  \A j \in JobIds : jobOf[j].broken /\ status[j] = "pending" =>
    restarts > 0 \/ \E d \in Dispatchers : ctl[d].job = j

\* spec.md:81: "The next periodic check retries the job"; the row of a job the
\* server was stopped in is in flight for ever, and lease_until is never read.
InFlightTended ==
  \A j \in JobIds : status[j] \in Flying /\ ~jobOf[j].broken =>
    run[j] \in Launched \/ \E d \in Dispatchers : ctl[d].job = j

\* dispatch_tokens.go:12: DispatchTokenTTL "covers the dream-worker wallclock budget
\* (10m default) plus dispatch slack"; it runs while the job waits for the semaphore.
TokenOutlivesJob == \A j \in JobIds : run[j] = "exec" => token[j] # "expired"

\* dream_usage.go:7: once a counter reaches its limit "the worker then records a
\* circuit_broken job row and skips dispatch"; dream-run looks once and starts up to
\* --parallel jobs.
DailyLimit == DreamDailyJobLimit > 0 => \A o \in Owners : started[o] <= DreamDailyJobLimit
=============================================================================
