--------------------------- MODULE ReactorProofs ---------------------------
(***************************************************************************)
(* Proofs about Reactor for any number of messages, runs and retries:      *)
(* types, no running row without a Job, outcomes written once.             *)
(***************************************************************************)
EXTENDS Reactor, TLAPS

\* A goroutine between the Job and its row holds a Job that exists and has no
\* row, and no two goroutines hold the same one.
LaunchOK ==
  \A t \in Threads :
    /\ pc[t] \in {"insert", "clear"} => mine[t] \in RunIds
    /\ pc[t] = "insert" =>
         /\ Backend = "k8s"
         /\ run[mine[t]] = "none" /\ work[mine[t]] # "none"
         /\ \A u \in Threads \ {t} : pc[u] = "insert" => mine[u] # mine[t]

\* A harness run waits at "running" for the goroutine that is about to start.
HandOverOK ==
  Backend = "harness" =>
    \A t \in Threads : pc[t] = "clear" =>
      /\ run[mine[t]] = "running" /\ pc[mine[t]] = "idle"
      /\ \A u \in Threads \ {t} : pc[u] = "clear" => mine[u] # mine[t]

\* Whoever watches a run watches a running one, and only runs with a row are
\* watched.
WatchOK ==
  /\ \A r \in toPoll : Backend = "k8s" /\ run[r] = "running"
  /\ \A r \in RunIds :
       /\ pc[r] = "working" => Backend = "harness" /\ run[r] = "running"
       /\ run[r] = "none" => pc[r] = "idle"

IndInv == TypeOK /\ RunningHasJob /\ LaunchOK /\ HandOverOK /\ WatchOK

-----------------------------------------------------------------------------
\* The initial state satisfies the inductive invariant.
LEMMA InitInv == Init => IndInv
  <1> SUFFICES ASSUME Init PROVE IndInv
    OBVIOUS
  <1>1. TypeOK
    <2>1. pc \in [Threads -> PCs] /\ mine \in [Threads -> Threads]
      BY DEF Init, PCs, Evaluating
    <2>2. /\ run \in [RunIds -> {"none", "running", "succeeded", "failed"}]
          /\ trig \in [RunIds -> Messages \cup {Coalesced}]
          /\ work \in [RunIds -> {"none", "active", "ok", "bad", "lost"}]
          /\ event \in [Threads -> Messages \cup {Coalesced}]
      BY DEF Init
    <2>3. /\ today \in SUBSET RunIds /\ refusedFor \in SUBSET (Messages \cup {Coalesced})
          /\ toPoll \in SUBSET RunIds /\ owed \in SUBSET Messages
          /\ cooling \in BOOLEAN /\ pendingWork \in BOOLEAN /\ quarantined \in BOOLEAN
      BY Zenon DEF Init
    <2>4. refused \in Nat /\ days \in 0..MaxDays /\ restarts \in 0..MaxRestarts
      BY ReactorAssumption DEF Init
    <2> QED
      BY <2>1, <2>2, <2>3, <2>4 DEF TypeOK
  <1>2. RunningHasJob /\ LaunchOK /\ HandOverOK /\ WatchOK
    BY DEF Init, RunningHasJob, LaunchOK, HandOverOK, WatchOK, Threads
  <1> QED
    BY <1>1, <1>2 DEF IndInv

\* Every step of every goroutine keeps the inductive invariant.
LEMMA StepInv == IndInv /\ [Next]_vars => IndInv'
  <1> SUFFICES ASSUME IndInv, [Next]_vars PROVE IndInv'
    OBVIOUS
  <1>1. ASSUME NEW m \in Messages, Dispatch(m)
         PROVE  IndInv'
    BY <1>1, ReactorAssumption DEF IndInv, TypeOK, RunningHasJob, LaunchOK, HandOverOK, WatchOK,
       vars, rowVars, ctlVars, envVars, Threads, Evaluating, PCs, Ended, At, Goto, Return, Dispatch
  <1>2. ASSUME NEW t \in Threads, EvaluateTrigger(t)
         PROVE  IndInv'
    BY <1>2, ReactorAssumption DEF IndInv, TypeOK, RunningHasJob, LaunchOK, HandOverOK, WatchOK,
       vars, rowVars, ctlVars, envVars, Threads, Evaluating, PCs, Ended, At, Goto, Return, EvaluateTrigger, Refuse, Answered
  <1>3. ASSUME NEW t \in Threads, CheckBudget(t)
         PROVE  IndInv'
    BY <1>3, ReactorAssumption DEF IndInv, TypeOK, RunningHasJob, LaunchOK, HandOverOK, WatchOK,
       vars, rowVars, ctlVars, envVars, Threads, Evaluating, PCs, Ended, At, Goto, Return, CheckBudget, Answered
  <1>4. ASSUME NEW t \in Threads, CheckCooldown(t)
         PROVE  IndInv'
    BY <1>4, ReactorAssumption DEF IndInv, TypeOK, RunningHasJob, LaunchOK, HandOverOK, WatchOK,
       vars, rowVars, ctlVars, envVars, Threads, Evaluating, PCs, Ended, At, Goto, Return, CheckCooldown
  <1>5. ASSUME NEW t \in Threads, CheckRunning(t)
         PROVE  IndInv'
    BY <1>5, ReactorAssumption DEF IndInv, TypeOK, RunningHasJob, LaunchOK, HandOverOK, WatchOK,
       vars, rowVars, ctlVars, envVars, Threads, Evaluating, PCs, Ended, At, Goto, Return, CheckRunning
  <1>6. ASSUME NEW t \in Threads, FlagPendingWork(t)
         PROVE  IndInv'
    BY <1>6, ReactorAssumption DEF IndInv, TypeOK, RunningHasJob, LaunchOK, HandOverOK, WatchOK,
       vars, rowVars, ctlVars, envVars, Threads, Evaluating, PCs, Ended, At, Goto, Return, FlagPendingWork
  <1>7. ASSUME NEW t \in Threads, ClearPendingWork(t)
         PROVE  IndInv'
    <2>1. TypeOK'
      <3>1. CASE Backend = "k8s"
        <4>1. /\ \E l \in {"idle", "done"} : pc' = [pc EXCEPT ![t] = l]
              /\ work' = work /\ owed' = owed /\ pendingWork' = FALSE
          BY <1>7, <3>1 DEF ClearPendingWork, Return, Goto
        <4>2. pc' \in [Threads -> PCs]
          BY <4>1 DEF IndInv, TypeOK, PCs
        <4> QED
          BY <1>7, <4>1, <4>2 DEF IndInv, TypeOK, envVars, ClearPendingWork
      <3>2. CASE Backend # "k8s"
        <4>1. /\ pc'   = [pc EXCEPT ![t] = IF t = Poller THEN "idle" ELSE "done",
                                   ![mine[t]] = "working"]
              /\ work' = [work EXCEPT ![mine[t]] = "active"]
              /\ owed' = {} /\ pendingWork' = FALSE
          BY <1>7, <3>2 DEF ClearPendingWork
        <4>2. pc' \in [Threads -> PCs]
          BY <4>1 DEF IndInv, TypeOK, PCs
        <4> QED
          BY <1>7, <4>1, <4>2 DEF IndInv, TypeOK, Threads, Evaluating, PCs, Ended,
           rowVars, ctlVars, envVars, At, Goto, Return, ClearPendingWork
      <3> QED
        BY <3>1, <3>2
    <2>2. RunningHasJob'
      BY <1>7, ReactorAssumption DEF IndInv, TypeOK, WatchOK, LaunchOK, RunningHasJob, Threads, Evaluating, PCs, Ended,
         rowVars, ctlVars, envVars, At, Goto, Return, ClearPendingWork
    <2>3. LaunchOK'
      BY <1>7, ReactorAssumption DEF IndInv, TypeOK, HandOverOK, WatchOK, LaunchOK, Threads, Evaluating, PCs, Ended,
         rowVars, ctlVars, envVars, At, Goto, Return, ClearPendingWork
    <2>4. HandOverOK'
      BY <1>7, ReactorAssumption DEF IndInv, TypeOK, LaunchOK, WatchOK, HandOverOK, Threads, Evaluating, PCs, Ended,
         rowVars, ctlVars, envVars, At, Goto, Return, ClearPendingWork
    <2>5. WatchOK'
      BY <1>7, ReactorAssumption DEF IndInv, TypeOK, LaunchOK, HandOverOK, WatchOK, Threads, Evaluating, PCs, Ended,
         rowVars, ctlVars, envVars, At, Goto, Return, ClearPendingWork
    <2> QED
      BY <2>1, <2>2, <2>3, <2>4, <2>5 DEF IndInv
  <1>8. ASSUME NEW t \in Threads, CheckPendingWork(t)
         PROVE  IndInv'
    BY <1>8, ReactorAssumption DEF IndInv, TypeOK, RunningHasJob, LaunchOK, HandOverOK, WatchOK,
       vars, rowVars, ctlVars, envVars, Threads, Evaluating, PCs, Ended, At, Goto, Return, CheckPendingWork
  <1>9. ASSUME NEW t \in Threads, CoalescedTrigger(t)
         PROVE  IndInv'
    <2>1. TypeOK'
      BY <1>9, ReactorAssumption DEF IndInv, TypeOK, Threads, Evaluating, PCs, Ended,
         rowVars, ctlVars, envVars, At, Goto, Return, CoalescedTrigger
    <2>2. RunningHasJob'
      BY <1>9, ReactorAssumption DEF IndInv, TypeOK, RunningHasJob, Threads, Evaluating, PCs, Ended,
         rowVars, ctlVars, envVars, At, Goto, Return, CoalescedTrigger
    <2>3. LaunchOK'
      BY <1>9, ReactorAssumption DEF IndInv, TypeOK, LaunchOK, Threads, Evaluating, PCs, Ended,
         rowVars, ctlVars, envVars, At, Goto, Return, CoalescedTrigger
    <2>4. HandOverOK'
      BY <1>9, ReactorAssumption DEF IndInv, TypeOK, HandOverOK, Threads, Evaluating, PCs, Ended,
         rowVars, ctlVars, envVars, At, Goto, Return, CoalescedTrigger
    <2>5. WatchOK'
      BY <1>9, ReactorAssumption DEF IndInv, TypeOK, WatchOK, Threads, Evaluating, PCs, Ended,
         rowVars, ctlVars, envVars, At, Goto, Return, CoalescedTrigger
    <2> QED
      BY <2>1, <2>2, <2>3, <2>4, <2>5 DEF IndInv
  <1>10. ASSUME NEW t \in Threads, NEW r \in RunIds, CreateJob(t, r)
         PROVE  IndInv'
    BY <1>10, ReactorAssumption DEF IndInv, TypeOK, RunningHasJob, LaunchOK, HandOverOK, WatchOK,
       vars, rowVars, ctlVars, envVars, Threads, Evaluating, PCs, Ended, At, Goto, Return, CreateJob, Unused
  <1>11. ASSUME NEW t \in Threads, NEW r \in RunIds, DispatchHarness(t, r)
         PROVE  IndInv'
    <2>1. TypeOK'
      BY <1>11, ReactorAssumption DEF IndInv, TypeOK, Threads, Evaluating, PCs, Ended,
         rowVars, ctlVars, envVars, At, Goto, Return, DispatchHarness, Unused, NewRow
    <2>2. RunningHasJob'
      BY <1>11, ReactorAssumption DEF IndInv, TypeOK, RunningHasJob, Threads, Evaluating, PCs, Ended,
         rowVars, ctlVars, envVars, At, Goto, Return, DispatchHarness, Unused, NewRow
    <2>3. LaunchOK'
      BY <1>11, ReactorAssumption DEF IndInv, TypeOK, LaunchOK, Threads, Evaluating, PCs, Ended,
         rowVars, ctlVars, envVars, At, Goto, Return, DispatchHarness, Unused, NewRow
    <2>4. HandOverOK'
      <3>1. pc[t] = "launch" /\ pc[r] = "idle" /\ r # t /\ run[r] = "none" /\ r \in Threads
        BY <1>11 DEF IndInv, WatchOK, DispatchHarness, Unused, At, Threads
      <3>2. /\ pc' = [pc EXCEPT ![t] = "clear"] /\ mine' = [mine EXCEPT ![t] = r]
            /\ run' = [run EXCEPT ![r] = "running"] /\ Backend = "harness"
        BY <1>11 DEF DispatchHarness, NewRow, Goto
      <3>3. \A u \in Threads : pc[u] = "clear" => mine[u] # r /\ mine[u] # t /\ mine[u] \in RunIds
        BY <3>1, <3>2 DEF IndInv, HandOverOK, LaunchOK
      <3> QED
        BY <3>1, <3>2, <3>3 DEF IndInv, TypeOK, HandOverOK, LaunchOK
    <2>5. WatchOK'
      BY <1>11, ReactorAssumption DEF IndInv, TypeOK, WatchOK, Threads, Evaluating, PCs, Ended,
         rowVars, ctlVars, envVars, At, Goto, Return, DispatchHarness, Unused, NewRow
    <2> QED
      BY <2>1, <2>2, <2>3, <2>4, <2>5 DEF IndInv
  <1>12. ASSUME NEW t \in Threads, CreateJobFails(t)
         PROVE  IndInv'
    BY <1>12, ReactorAssumption DEF IndInv, TypeOK, RunningHasJob, LaunchOK, HandOverOK, WatchOK,
       vars, rowVars, ctlVars, envVars, Threads, Evaluating, PCs, Ended, At, Goto, Return, CreateJobFails, Refuse, Answered
  <1>13. ASSUME NEW t \in Threads, InsertRun(t)
         PROVE  IndInv'
    BY <1>13, ReactorAssumption DEF IndInv, TypeOK, RunningHasJob, LaunchOK, HandOverOK, WatchOK,
       vars, rowVars, ctlVars, envVars, Threads, Evaluating, PCs, Ended, At, Goto, Return, InsertRun, NewRow
  <1>14. ASSUME NEW t \in Threads, InsertRunFails(t)
         PROVE  IndInv'
    BY <1>14, ReactorAssumption DEF IndInv, TypeOK, RunningHasJob, LaunchOK, HandOverOK, WatchOK,
       vars, rowVars, ctlVars, envVars, Threads, Evaluating, PCs, Ended, At, Goto, Return, InsertRunFails
  <1>15. ASSUME NEW r \in RunIds, NEW how \in Ended, WorkEnds(r, how)
         PROVE  IndInv'
    BY <1>15, ReactorAssumption DEF IndInv, TypeOK, RunningHasJob, LaunchOK, HandOverOK, WatchOK,
       vars, rowVars, ctlVars, envVars, Threads, Evaluating, PCs, Ended, At, Goto, Return, WorkEnds
  <1>16. ASSUME NEW r \in RunIds, RunHarness(r)
         PROVE  IndInv'
    <2>1. TypeOK'
      BY <1>16, ReactorAssumption DEF IndInv, TypeOK, Threads, Evaluating, PCs, Ended,
         rowVars, ctlVars, envVars, At, Goto, Return, RunHarness, Verdict
    <2>2. RunningHasJob'
      BY <1>16, ReactorAssumption DEF IndInv, TypeOK, RunningHasJob, Threads, Evaluating, PCs, Ended,
         rowVars, ctlVars, envVars, At, Goto, Return, RunHarness, Verdict
    <2>3. LaunchOK'
      <3>1. Backend = "harness" /\ pc[r] = "working" /\ r \in Threads
        BY <1>16 DEF IndInv, WatchOK, RunHarness, At, Threads
      <3>2. \A u \in Threads : pc[u] # "insert" /\ pc'[u] # "insert"
        BY <1>16, <3>1 DEF IndInv, TypeOK, LaunchOK, RunHarness, Goto
      <3> QED
        BY <1>16, <3>1, <3>2 DEF IndInv, TypeOK, LaunchOK, RunHarness, Goto
    <2>4. HandOverOK'
      BY <1>16, ReactorAssumption DEF IndInv, TypeOK, WatchOK, LaunchOK, HandOverOK, Threads, Evaluating, PCs, Ended,
         rowVars, ctlVars, envVars, At, Goto, Return, RunHarness, Verdict
    <2>5. WatchOK'
      <3>1. Backend = "harness" /\ run[r] = "running" /\ r \in Threads
        BY <1>16 DEF IndInv, WatchOK, RunHarness, At, Threads
      <3>2. toPoll' = {}
        BY <1>16, <3>1 DEF IndInv, WatchOK, RunHarness
      <3>3. run'[r] # "none" /\ pc'[r] = "pending"
        BY <1>16, <3>1 DEF IndInv, TypeOK, RunHarness, Goto, Verdict
      <3> QED
        BY <1>16, <3>1, <3>2, <3>3 DEF IndInv, TypeOK, WatchOK, RunHarness, Goto, Threads
    <2> QED
      BY <2>1, <2>2, <2>3, <2>4, <2>5 DEF IndInv
  <1>17. ASSUME NEW r \in RunIds, HarnessTimeout(r)
         PROVE  IndInv'
    BY <1>17, ReactorAssumption DEF IndInv, TypeOK, RunningHasJob, LaunchOK, HandOverOK, WatchOK,
       vars, rowVars, ctlVars, envVars, Threads, Evaluating, PCs, Ended, At, Goto, Return, HarnessTimeout
  <1>18. ASSUME NEW r \in RunIds, CheckJob(r)
         PROVE  IndInv'
    BY <1>18, ReactorAssumption DEF IndInv, TypeOK, RunningHasJob, LaunchOK, HandOverOK, WatchOK,
       vars, rowVars, ctlVars, envVars, Threads, Evaluating, PCs, Ended, At, Goto, Return, CheckJob, Verdict
  <1>19. ASSUME NEW r \in RunIds, JobExpires(r)
         PROVE  IndInv'
    BY <1>19, ReactorAssumption DEF IndInv, TypeOK, RunningHasJob, LaunchOK, HandOverOK, WatchOK,
       vars, rowVars, ctlVars, envVars, Threads, Evaluating, PCs, Ended, At, Goto, Return, JobExpires
  <1>20. ASSUME PollActiveRuns
         PROVE  IndInv'
    BY <1>20, ReactorAssumption DEF IndInv, TypeOK, RunningHasJob, LaunchOK, HandOverOK, WatchOK,
       vars, rowVars, ctlVars, envVars, Threads, Evaluating, PCs, Ended, At, Goto, Return, PollActiveRuns
  <1>21. ASSUME NEW q \in Retries, NEW e \in Messages \cup {Coalesced}, RetryRun(q, e)
         PROVE  IndInv'
    BY <1>21, ReactorAssumption DEF IndInv, TypeOK, RunningHasJob, LaunchOK, HandOverOK, WatchOK,
       vars, rowVars, ctlVars, envVars, Threads, Evaluating, PCs, Ended, At, Goto, Return, RetryRun
  <1>22. ASSUME Quarantine \/ CooldownElapses \/ Midnight
         PROVE  IndInv'
    <2>1. TypeOK'
      <3>1. CASE Quarantine
        BY <3>1 DEF IndInv, TypeOK, rowVars, ctlVars, Quarantine
      <3>2. CASE CooldownElapses
        BY <3>2 DEF IndInv, TypeOK, ctlVars, envVars, CooldownElapses
      <3>3. CASE Midnight
        BY <3>3, ReactorAssumption DEF IndInv, TypeOK, ctlVars, Midnight
      <3> QED
        BY <1>22, <3>1, <3>2, <3>3
    <2>2. RunningHasJob'
      BY <1>22, ReactorAssumption DEF IndInv, TypeOK, RunningHasJob, Threads, Evaluating, PCs, Ended,
         rowVars, ctlVars, envVars, At, Goto, Return, Quarantine, CooldownElapses, Midnight
    <2>3. LaunchOK'
      BY <1>22, ReactorAssumption DEF IndInv, TypeOK, LaunchOK, Threads, Evaluating, PCs, Ended,
         rowVars, ctlVars, envVars, At, Goto, Return, Quarantine, CooldownElapses, Midnight
    <2>4. HandOverOK'
      BY <1>22, ReactorAssumption DEF IndInv, TypeOK, HandOverOK, Threads, Evaluating, PCs, Ended,
         rowVars, ctlVars, envVars, At, Goto, Return, Quarantine, CooldownElapses, Midnight
    <2>5. WatchOK'
      BY <1>22, ReactorAssumption DEF IndInv, TypeOK, WatchOK, Threads, Evaluating, PCs, Ended,
         rowVars, ctlVars, envVars, At, Goto, Return, Quarantine, CooldownElapses, Midnight
    <2> QED
      BY <2>1, <2>2, <2>3, <2>4, <2>5 DEF IndInv
  <1>23. ASSUME NEW long \in BOOLEAN, Restart(long)
         PROVE  IndInv'
    BY <1>23, ReactorAssumption DEF IndInv, TypeOK, RunningHasJob, LaunchOK, HandOverOK, WatchOK,
       vars, rowVars, ctlVars, envVars, Threads, Evaluating, PCs, Ended, At, Goto, Return, Restart
  <1>24. ASSUME UNCHANGED vars
         PROVE  IndInv'
    BY <1>24, ReactorAssumption DEF IndInv, TypeOK, RunningHasJob, LaunchOK, HandOverOK, WatchOK,
       vars, rowVars, ctlVars, envVars, Threads, Evaluating, PCs, Ended, At, Goto, Return
  <1> QED
    BY <1>1, <1>2, <1>3, <1>4, <1>5, <1>6, <1>7, <1>8, <1>9, <1>10, <1>11, <1>12, <1>13, <1>14, <1>15, <1>16, <1>17, <1>18, <1>19, <1>20, <1>21, <1>22, <1>23, <1>24, ReactorAssumption DEF Next, Step

-----------------------------------------------------------------------------
\* The inductive invariant holds in every reachable state.
THEOREM Invariance == Spec => []IndInv
  BY InitInv, StepInv, PTL DEF Spec

\* The rows, the flags and the goroutines' program counters keep their types.
THEOREM TypeCorrect == Spec => []TypeOK
  BY Invariance, PTL DEF IndInv

\* createJob: no row of a Kubernetes run says "running" unless its Job was
\* created, whatever fails or restarts between the two.
THEOREM JobBeforeRow == Spec => []RunningHasJob
  BY Invariance, PTL DEF IndInv

\* A step changes the status of a run only from "none" to "running" and from
\* "running" to the outcome of work that has ended.
LEMMA StepOutcome ==
  ASSUME IndInv, [Next]_vars, NEW r \in RunIds, run'[r] # run[r]
  PROVE  \/ run[r] = "none" /\ run'[r] = "running"
         \/ run[r] = "running" /\ work[r] \in Ended /\ run'[r] = Verdict(r)
  <1>1. CASE \E t \in Threads, s \in RunIds : DispatchHarness(t, s)
    BY <1>1 DEF IndInv, TypeOK, DispatchHarness, NewRow, Unused
  <1>2. CASE \E t \in Threads : InsertRun(t)
    BY <1>2 DEF IndInv, TypeOK, LaunchOK, InsertRun, NewRow, At
  <1>3. CASE \E s \in RunIds : RunHarness(s)
    BY <1>3 DEF IndInv, TypeOK, WatchOK, RunHarness, At
  <1>4. CASE \E s \in RunIds : CheckJob(s)
    BY <1>4 DEF IndInv, TypeOK, WatchOK, CheckJob
  <1>5. CASE \E t \in Threads : /\ Step(t) /\ ~InsertRun(t)
                               /\ \A s \in RunIds : ~DispatchHarness(t, s)
    BY <1>5 DEF Step, rowVars, EvaluateTrigger, Refuse, CheckBudget, CheckCooldown, CheckRunning,
       FlagPendingWork, ClearPendingWork, CheckPendingWork, CoalescedTrigger, CreateJob,
       CreateJobFails, InsertRunFails
  <1>6. CASE \/ \E m \in Messages : Dispatch(m)
             \/ \E s \in RunIds, how \in Ended : WorkEnds(s, how)
             \/ \E s \in RunIds : HarnessTimeout(s) \/ JobExpires(s)
             \/ PollActiveRuns
             \/ \E q \in Retries, e \in Messages \cup {Coalesced} : RetryRun(q, e)
             \/ Quarantine \/ CooldownElapses \/ Midnight
             \/ \E long \in {FALSE, LongOutages} : Restart(long)
             \/ UNCHANGED vars
    BY <1>6 DEF vars, rowVars, Dispatch, WorkEnds, HarnessTimeout, JobExpires, PollActiveRuns,
       RetryRun, Quarantine, CooldownElapses, Midnight, Restart
  <1> QED
    BY <1>1, <1>2, <1>3, <1>4, <1>5, <1>6 DEF Next

\* The outcome of a run is written once, after its work has ended: neither two
\* observers nor a re-read list of active runs overwrite it.
THEOREM WrittenOnce == Spec => OutcomeOnce
  <1>1. IndInv /\ [Next]_vars =>
          [\A r \in RunIds : run'[r] # run[r] =>
             \/ run[r] = "none" /\ run'[r] = "running"
             \/ run[r] = "running" /\ work[r] \in Ended /\ run'[r] = Verdict(r)]_vars
    BY StepOutcome
  <1> QED
    BY <1>1, Invariance, PTL DEF Spec, OutcomeOnce

-----------------------------------------------------------------------------
(* Harness runs: a trigger that was put off is not forgotten. *)

\* Which goroutine does what: a message is evaluated as itself, the goroutine
\* of a run evaluates the coalesced trigger, and a retry only fails to launch.
RolesOK ==
  /\ \A m \in Messages : /\ pc[m] \notin {"pending", "unflag", "working"}
                         /\ pc[m] \in Evaluating => event[m] = m
  /\ \A q \in Retries : pc[q] \in {"idle", "launch", "done"}
  /\ \A t \in RunIds \cup {Poller} : pc[t] \in Evaluating => event[t] = Coalesced

\* NotForgotten, without counting on a retry, which answers nobody.
Carried ==
  \A m \in owed : At(m, "done") =>
    pendingWork \/ \E t \in RunIds \cup {Poller} : pc[t] \in Evaluating

\* Goroutines keep to their roles.
LEMMA StepRoles ==
  ASSUME Backend = "harness", MaxRestarts = 0, IndInv, RolesOK, [Next]_vars
  PROVE  RolesOK'
<1> USE ReactorAssumption DEF IndInv, TypeOK, rowVars, ctlVars, envVars, Threads, Evaluating, PCs, At, Goto, Return
<1>1. ASSUME NEW m \in Messages, Dispatch(m) PROVE RolesOK'
  BY <1>1 DEF Dispatch, RolesOK
<1>2. ASSUME NEW t \in Threads, EvaluateTrigger(t) PROVE RolesOK'
  BY <1>2 DEF EvaluateTrigger, Refuse, Answered, RolesOK
<1>3. ASSUME NEW t \in Threads, CheckBudget(t) PROVE RolesOK'
  BY <1>3 DEF CheckBudget, Answered, RolesOK
<1>4. ASSUME NEW t \in Threads, CheckCooldown(t) PROVE RolesOK'
  BY <1>4 DEF CheckCooldown, RolesOK
<1>5. ASSUME NEW t \in Threads, CheckRunning(t) PROVE RolesOK'
  BY <1>5 DEF CheckRunning, RolesOK
<1>6. ASSUME NEW t \in Threads, FlagPendingWork(t) PROVE RolesOK'
  BY <1>6 DEF FlagPendingWork, RolesOK
<1>7. ASSUME NEW t \in Threads, ClearPendingWork(t) PROVE RolesOK'
  <2>1. mine[t] \in RunIds
    BY <1>7 DEF ClearPendingWork, LaunchOK
  <2>2. /\ pc' = [pc EXCEPT ![t] = IF t = Poller THEN "idle" ELSE "done", ![mine[t]] = "working"]
        /\ owed' = {} /\ event' = event
    BY <1>7 DEF ClearPendingWork
  <2>3. \A u \in Threads : pc'[u] = pc[u] \/ pc'[u] \in {"idle", "done"} \/ (u \in RunIds /\ pc'[u] = "working")
    BY <2>1, <2>2
  <2> QED
    BY <2>2, <2>3 DEF RolesOK
<1>8. ASSUME NEW t \in Threads, CheckPendingWork(t) PROVE RolesOK'
  BY <1>8 DEF CheckPendingWork, RolesOK
<1>9. ASSUME NEW t \in Threads, CoalescedTrigger(t) PROVE RolesOK'
  <2>1. t \in RunIds \cup {Poller}
    <3>1. pc[t] \in {"pending", "unflag"}
      BY <1>9 DEF CoalescedTrigger
    <3>2. t \notin Messages /\ t \notin Retries
      BY <3>1 DEF RolesOK
    <3> QED
      BY <3>2
  <2> QED
    BY <1>9, <2>1 DEF CoalescedTrigger, RolesOK
<1>10. ASSUME NEW t \in Threads, NEW r \in RunIds, CreateJob(t, r) \/ DispatchHarness(t, r) PROVE RolesOK'
  BY <1>10 DEF CreateJob, DispatchHarness, NewRow, RolesOK
<1>11. ASSUME NEW t \in Threads, CreateJobFails(t) PROVE RolesOK'
  BY <1>11 DEF CreateJobFails, Refuse, Answered, RolesOK
<1>12. ASSUME NEW t \in Threads, InsertRun(t) \/ InsertRunFails(t) PROVE RolesOK'
  BY <1>12 DEF InsertRun, InsertRunFails, NewRow, LaunchOK, RolesOK
<1>13. ASSUME NEW r \in RunIds, RunHarness(r) \/ HarnessTimeout(r) PROVE RolesOK'
  BY <1>13 DEF RunHarness, HarnessTimeout, RolesOK
<1>14. ASSUME NEW r \in RunIds, CheckJob(r) PROVE RolesOK'
  BY <1>14 DEF CheckJob, WatchOK, RolesOK
<1>15. ASSUME NEW q \in Retries, NEW e \in Messages \cup {Coalesced}, RetryRun(q, e) PROVE RolesOK'
  BY <1>15 DEF RetryRun, RolesOK
<1>16. CASE \/ \E r \in RunIds, how \in Ended : WorkEnds(r, how)
            \/ \E r \in RunIds : JobExpires(r)
            \/ PollActiveRuns \/ Quarantine \/ CooldownElapses \/ Midnight \/ UNCHANGED vars
  BY <1>16 DEF WorkEnds, JobExpires, PollActiveRuns, Quarantine, CooldownElapses, Midnight, vars, RolesOK
<1>17. \A long \in {FALSE, LongOutages} : ~Restart(long)
  BY DEF Restart
<1> HIDE DEF IndInv, TypeOK, rowVars, ctlVars, envVars, Threads, Evaluating, PCs, At, Goto, Return
<1>18. ASSUME NEW t \in Threads, Step(t) PROVE RolesOK'
  BY <1>2, <1>3, <1>4, <1>5, <1>6, <1>7, <1>8, <1>9, <1>10, <1>11, <1>12, <1>18 DEF Step
<1> QED
  BY <1>1, <1>13, <1>14, <1>15, <1>16, <1>17, <1>18 DEF Next

\* A trigger that was put off stays with the flag or with a coalesced evaluation.
LEMMA StepCarried ==
  ASSUME Backend = "harness", MaxRestarts = 0, IndInv, RolesOK, Carried, [Next]_vars
  PROVE  Carried'
<1> USE ReactorAssumption DEF IndInv, TypeOK, rowVars, ctlVars, envVars, Threads, Evaluating, PCs, At, Goto, Return
<1>1. ASSUME NEW m \in Messages, Dispatch(m) PROVE Carried'
  BY <1>1 DEF Dispatch, RolesOK, Carried
<1>2. ASSUME NEW t \in Threads, EvaluateTrigger(t) PROVE Carried'
  BY <1>2 DEF EvaluateTrigger, Refuse, Answered, RolesOK, Carried
<1>3. ASSUME NEW t \in Threads, CheckBudget(t) PROVE Carried'
  BY <1>3 DEF CheckBudget, Answered, RolesOK, Carried
<1>4. ASSUME NEW t \in Threads, CheckCooldown(t) PROVE Carried'
  BY <1>4 DEF CheckCooldown, RolesOK, Carried
<1>5. ASSUME NEW t \in Threads, CheckRunning(t) PROVE Carried'
  BY <1>5 DEF CheckRunning, RolesOK, Carried
<1>6. ASSUME NEW t \in Threads, FlagPendingWork(t) PROVE Carried'
  BY <1>6 DEF FlagPendingWork, RolesOK, Carried
<1>7. ASSUME NEW t \in Threads, ClearPendingWork(t) PROVE Carried'
  <2>1. mine[t] \in RunIds
    BY <1>7 DEF ClearPendingWork, LaunchOK
  <2>2. /\ pc' = [pc EXCEPT ![t] = IF t = Poller THEN "idle" ELSE "done", ![mine[t]] = "working"]
        /\ owed' = {} /\ event' = event
    BY <1>7 DEF ClearPendingWork
  <2>3. \A u \in Threads : pc'[u] = pc[u] \/ pc'[u] \in {"idle", "done"} \/ (u \in RunIds /\ pc'[u] = "working")
    BY <2>1, <2>2
  <2> QED
    BY <2>2, <2>3 DEF RolesOK, Carried
<1>8. ASSUME NEW t \in Threads, CheckPendingWork(t) PROVE Carried'
  <2>1. t \in RunIds \cup {Poller}
    <3>1. pc[t] \in {"pending", "unflag"}
      BY <1>8 DEF CheckPendingWork
    <3>2. t \notin Messages /\ t \notin Retries
      BY <3>1 DEF RolesOK
    <3> QED
      BY <3>2
  <2>2. \A u \in Threads \ {t} : pc'[u] = pc[u]
    BY <1>8 DEF CheckPendingWork
  <2> QED
    BY <1>8, <2>1, <2>2 DEF CheckPendingWork, RolesOK, Carried
<1>9. ASSUME NEW t \in Threads, CoalescedTrigger(t) PROVE Carried'
  <2>1. t \in RunIds \cup {Poller}
    <3>1. pc[t] \in {"pending", "unflag"}
      BY <1>9 DEF CoalescedTrigger
    <3>2. t \notin Messages /\ t \notin Retries
      BY <3>1 DEF RolesOK
    <3> QED
      BY <3>2
  <2> QED
    BY <1>9, <2>1 DEF CoalescedTrigger, RolesOK, Carried
<1>10. ASSUME NEW t \in Threads, NEW r \in RunIds, CreateJob(t, r) \/ DispatchHarness(t, r) PROVE Carried'
  BY <1>10 DEF CreateJob, DispatchHarness, NewRow, RolesOK, Carried
<1>11. ASSUME NEW t \in Threads, CreateJobFails(t) PROVE Carried'
  BY <1>11 DEF CreateJobFails, Refuse, Answered, RolesOK, Carried
<1>12. ASSUME NEW t \in Threads, InsertRun(t) \/ InsertRunFails(t) PROVE Carried'
  BY <1>12 DEF InsertRun, InsertRunFails, NewRow, LaunchOK, RolesOK, Carried
<1>13. ASSUME NEW r \in RunIds, RunHarness(r) \/ HarnessTimeout(r) PROVE Carried'
  BY <1>13 DEF RunHarness, HarnessTimeout, RolesOK, Carried
<1>14. ASSUME NEW r \in RunIds, CheckJob(r) PROVE Carried'
  BY <1>14 DEF CheckJob, WatchOK, RolesOK, Carried
<1>15. ASSUME NEW q \in Retries, NEW e \in Messages \cup {Coalesced}, RetryRun(q, e) PROVE Carried'
  BY <1>15 DEF RetryRun, RolesOK, Carried
<1>16. CASE \/ \E r \in RunIds, how \in Ended : WorkEnds(r, how)
            \/ \E r \in RunIds : JobExpires(r)
            \/ PollActiveRuns \/ Quarantine \/ CooldownElapses \/ Midnight \/ UNCHANGED vars
  BY <1>16 DEF WorkEnds, JobExpires, PollActiveRuns, Quarantine, CooldownElapses, Midnight, vars, RolesOK, Carried
<1>17. \A long \in {FALSE, LongOutages} : ~Restart(long)
  BY DEF Restart
<1> HIDE DEF IndInv, TypeOK, rowVars, ctlVars, envVars, Threads, Evaluating, PCs, At, Goto, Return
<1>18. ASSUME NEW t \in Threads, Step(t) PROVE Carried'
  BY <1>2, <1>3, <1>4, <1>5, <1>6, <1>7, <1>8, <1>9, <1>10, <1>11, <1>12, <1>18 DEF Step
<1> QED
  BY <1>1, <1>13, <1>14, <1>15, <1>16, <1>17, <1>18 DEF Next

\* With the harness, and as long as the server is not restarted: a message
\* that was put off because the agent was busy or cooling down is remembered
\* by pending_work, or a coalesced evaluation is on its way, until some run has
\* started after it.
THEOREM HarnessForgetsNothing ==
  ASSUME Backend = "harness", MaxRestarts = 0
  PROVE  Spec => []NotForgotten
<1> DEFINE Inv == IndInv /\ RolesOK /\ Carried
<1>1. Init => Inv
  BY InitInv DEF Init, RolesOK, Carried, Evaluating, Threads
<1>2. Inv /\ [Next]_vars => Inv'
  BY StepInv, StepRoles, StepCarried
<1>3. Inv => NotForgotten
  BY ReactorAssumption DEF Carried, NotForgotten, Threads
<1> QED
  BY <1>1, <1>2, <1>3, PTL DEF Spec
=============================================================================
