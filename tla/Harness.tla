------------------------------ MODULE Harness ------------------------------
(***************************************************************************)
(* How the work of an agent is run (internal/harness): the Registry picks  *)
(* a backend for the agent's configuration, the Observer (harness/runs)    *)
(* keeps a harness_runs row per execution, and a backend runs the work in  *)
(* a local process, a container, a Kubernetes Job or behind an HTTP call.  *)
(* The callers are the reactor (dispatchHarness and runHarness, under a    *)
(* context of one hour and no budget) and the dream worker (runJob, whose  *)
(* context has the length of the budget and begins before it, so that it   *)
(* always ends first).                                                     *)
(* Which backend an agent gets, what a finished, a killed and a forgotten  *)
(* execution leave behind, and what the two tables say of it is the model; *)
(* what the work does is not.                                              *)
(***************************************************************************)
EXTENDS Naturals, FiniteSets

CONSTANTS
  HxCalls,       \* goroutines that execute work
  MaxHxRuns,     \* bound: executions
  KeepWorkdir,   \* SYNAPBUS_KEEP_WORKDIR=1
  InCluster,     \* the Kubernetes runner is the real one
  Images,        \* whether k8s_image may be set: a subset of BOOLEAN
  Edits          \* bound: what the admin passes, records [name, command, blob]

VARIABLES
  config,        \* the harness columns of the agent's row
  ex,            \* what each goroutine is doing
  hrun,          \* harness_runs: status by run
  reactive,      \* reactive_runs: status by run
  started,       \* Store.start, the start times kept in memory
  dirs,          \* runs whose working directory exists
  live,          \* runs whose process, container or Job is at work
  nextRun,
  cutOff         \* runs whose context ran out, or that a crash interrupted

hxVars == <<config, ex, hrun, reactive, started, dirs, live, nextRun, cutOff>>

HxRuns == 1..MaxHxRuns
Blank == ""      \* a column or argument that is not set
HarnessNames == {Blank, "k8sjob", "subprocess", "docker", "webhook", "other"}
\* What harness_config_json holds: a docker block with or without an image, a
\* url, or a skill without a usable name.
Blobs == {Blank, "docker", "noimage", "url", "badskill"}
Registered == {"k8sjob", "subprocess", "webhook", "docker"}
Configs == [name : HarnessNames, image : BOOLEAN, command : BOOLEAN, blob : Blobs]

NoConfig == [name |-> Blank, image |-> FALSE, command |-> FALSE, blob |-> Blank]
NoExec == [pc |-> "idle", run |-> 0, cfg |-> NoConfig, backend |-> Blank,
           dream |-> FALSE, over |-> FALSE, ok |-> FALSE]

ASSUME HarnessAssumption ==
  /\ MaxHxRuns \in Nat /\ KeepWorkdir \in BOOLEAN /\ InCluster \in BOOLEAN /\ Images \subseteq BOOLEAN
  /\ \A e \in Edits : e.name \in HarnessNames \cup {"-"} /\ e.blob \in Blobs \cup {"-"}

At(c, p) == ex[c].pc = p
InFlight(r) == \E c \in HxCalls : ~At(c, "idle") /\ ex[c].run = r

-----------------------------------------------------------------------------
(* The choice of a backend. *)

HasDocker(a) == a.blob \in {"docker", "noimage"}
HasUrl(a) == a.blob = "url"

\* The Registry: a registered name, the image, the docker block, the command,
\* the url, then any backend there is.
Resolve(a) ==
  IF a.name \in Registered THEN a.name
  ELSE IF a.image THEN "k8sjob"
  ELSE IF HasDocker(a) THEN "docker"
  ELSE IF a.command THEN "subprocess"
  ELSE IF HasUrl(a) THEN "webhook"
  ELSE "k8sjob"

\* The reactor decides for itself which path a trigger takes.
agentBackendKind(a) ==
  CASE a.name \in Registered -> a.name
    [] a.name \notin Registered /\ a.image -> "k8sjob"
    [] a.name \notin Registered /\ ~a.image /\ HasDocker(a) -> "docker"
    [] a.name \notin Registered /\ ~a.image /\ ~HasDocker(a) /\ a.command -> "subprocess"
    [] a.name \notin Registered /\ ~a.image /\ ~HasDocker(a) /\ ~a.command /\ HasUrl(a) -> "webhook"
    [] OTHER -> "none"

\* UpdateHarnessConfig: an empty argument keeps a column, "-" clears it.
UpdateHarnessConfig(name, command, blob) ==
  config' = [config EXCEPT
    !.name    = IF name = Blank THEN @ ELSE IF name = "-" THEN Blank ELSE name,
    !.command = IF command = Blank THEN @ ELSE command # "-",
    !.blob    = IF blob = Blank THEN @ ELSE IF blob = "-" THEN Blank ELSE blob]

handleHarnessConfigSet ==
  /\ \E e \in Edits : UpdateHarnessConfig(e.name, e.command, e.blob)
  /\ UNCHANGED <<ex, hrun, reactive, started, dirs, live, nextRun, cutOff>>

-----------------------------------------------------------------------------
(* The environment of the work: which layer a variable's value comes from. *)

EnvKeys == {"SYNAPBUS_RUN_ID", "SYNAPBUS_FROM_AGENT", "HOME"}
Layer(keys, origin) == [k \in keys |-> origin]
\* What f sets, and what g sets besides
Over(f, g) == [k \in DOMAIN f \cup DOMAIN g |-> IF k \in DOMAIN f THEN f[k] ELSE g[k]]
Own == Layer({"SYNAPBUS_RUN_ID", "SYNAPBUS_FROM_AGENT"}, "server")

buildEnvMap(agent, cfgEnv, req) ==
  Over(Own, Over(Layer(req, "request"), Over(Layer(cfgEnv, "config"), Layer(agent, "agent"))))

buildEnv(host, agent, cfgEnv, req) ==
  Over(buildEnvMap(agent, cfgEnv, req), Layer(host, "host"))

\* `docker run` adds HOME for the credentials it mounts; the ExtraArgs of the
\* agent's configuration follow the --env flags, and of two values the later
\* one counts.
buildRunArgs(env, extra) == Over(Layer(extra, "extra"), Over(Layer({"HOME"}, "server"), env))

\* A Kubernetes Job: the request wins over the run id, and the pod's list of
\* variables has the handler's after the message's.
BuildHandler(agent, req) ==
  Over(Layer(req, "request"),
       Over(Layer({"SYNAPBUS_RUN_ID"}, "server"),
            Over(Layer(agent, "agent"), Layer({"SYNAPBUS_FROM_AGENT"}, "server"))))

-----------------------------------------------------------------------------
(* The start of an execution. *)

Begin(c, r, dream) ==
  /\ At(c, "idle")
  /\ r = nextRun /\ r \in HxRuns
  /\ nextRun' = nextRun + 1
  /\ ex' = [ex EXCEPT ![c] = [NoExec EXCEPT !.pc = "start", !.run = r, !.cfg = config,
                                           !.backend = Resolve(config), !.dream = dream]]

\* The reactor inserts its row, then a goroutine executes the agent as it was
\* read when the trigger was evaluated.
dispatchHarness(c, r) ==
  /\ agentBackendKind(config) \in {"subprocess", "docker", "webhook"}
  /\ Begin(c, r, FALSE)
  /\ reactive' = [reactive EXCEPT ![r] = "running"]
  /\ UNCHANGED <<config, hrun, started, dirs, live, cutOff>>

\* harnessDispatcherAdapter: the dream worker's call.
DreamExecute(c, r) ==
  /\ Begin(c, r, TRUE)
  /\ UNCHANGED <<config, hrun, reactive, started, dirs, live, cutOff>>

\* The row of the run; a failing INSERT is logged and the work goes on.
OnStart(c, stored) ==
  LET r == ex[c].run IN
  /\ At(c, "start")
  /\ started' = started \cup {r}
  /\ hrun' = IF stored /\ ~ex[c].over THEN [hrun EXCEPT ![r] = "running"] ELSE hrun
  /\ ex' = [ex EXCEPT ![c].pc = "launch"]
  /\ UNCHANGED <<config, reactive, dirs, live, nextRun, cutOff>>

-----------------------------------------------------------------------------
(* The backends. *)

\* Execute comes back: "finish" with the verdict the Observer will see.
Back(c, ok) == ex' = [ex EXCEPT ![c].pc = "finish", ![c].ok = ok, ![c].cfg = NoConfig]
Works(c) == /\ ex' = [ex EXCEPT ![c].pc = "wait", ![c].cfg = NoConfig]
            /\ live' = live \cup {ex[c].run}

\* The subprocess backend: no command, no directory; a configuration that
\* cannot be written fails with the directory made.
SubprocessExecute(c) ==
  LET a == ex[c].cfg  r == ex[c].run IN
  /\ At(c, "launch") /\ ex[c].backend = "subprocess"
  /\ dirs' = IF a.command THEN dirs \cup {r} ELSE dirs
  /\ IF a.command /\ a.blob # "badskill" /\ ~ex[c].over
     THEN Works(c) ELSE Back(c, FALSE) /\ UNCHANGED live
  /\ UNCHANGED <<config, hrun, reactive, started, nextRun, cutOff>>

\* The docker backend: the image is looked for before the directory is made.
DockerExecute(c) ==
  LET a == ex[c].cfg  r == ex[c].run IN
  /\ At(c, "launch") /\ ex[c].backend = "docker"
  /\ dirs' = IF a.blob = "docker" THEN dirs \cup {r} ELSE dirs
  /\ IF a.blob = "docker" /\ ~ex[c].over
     THEN Works(c) ELSE Back(c, FALSE) /\ UNCHANGED live
  /\ UNCHANGED <<config, hrun, reactive, started, nextRun, cutOff>>

\* The k8sjob backend: TestEnvironment, then CreateJob, which may fail.
K8sJobExecute(c, created) ==
  /\ At(c, "launch") /\ ex[c].backend = "k8sjob"
  /\ IF InCluster /\ created /\ ~ex[c].over THEN Works(c) ELSE Back(c, FALSE) /\ UNCHANGED live
  /\ UNCHANGED <<config, hrun, reactive, started, dirs, nextRun, cutOff>>

\* The webhook backend: without a url there is nobody to call.
WebhookExecute(c) ==
  /\ At(c, "launch") /\ ex[c].backend = "webhook"
  /\ IF HasUrl(ex[c].cfg) /\ ~ex[c].over THEN Works(c) ELSE Back(c, FALSE) /\ UNCHANGED live
  /\ UNCHANGED <<config, hrun, reactive, started, dirs, nextRun, cutOff>>

\* The working directory goes after a run that succeeded.
TidyUp(r, ok) == dirs' = IF ok /\ ~KeepWorkdir THEN dirs \ {r} ELSE dirs

\* The work ends by itself with an exit code; Wait sees a Job complete or fail.
WorkEnds(c, ok) ==
  LET r == ex[c].run IN
  /\ At(c, "wait")
  /\ live' = live \ {r}
  /\ TidyUp(r, ok)
  /\ Back(c, ok)
  /\ UNCHANGED <<config, hrun, reactive, started, nextRun, cutOff>>

\* The context has ended: CommandContext kills the process; docker kill, whose
\* error is dropped, the container; a Job that is waited for stays active, its
\* activeDeadlineSeconds, counted from its own start, are not over yet.
Killed(c, gone) ==
  /\ At(c, "wait") /\ ex[c].over
  /\ IF gone THEN ex[c].backend # "k8sjob" ELSE ex[c].backend \in {"k8sjob", "docker"}
  /\ live' = IF gone THEN live \ {ex[c].run} ELSE live
  /\ Back(c, FALSE)
  /\ UNCHANGED <<config, hrun, reactive, started, dirs, nextRun, cutOff>>

\* A poll of the Job fails: Wait gives up, and the Job goes on.
check(c) ==
  /\ At(c, "wait") /\ ex[c].backend = "k8sjob"
  /\ Back(c, FALSE)
  /\ UNCHANGED <<config, hrun, reactive, started, dirs, live, nextRun, cutOff>>

\* The context of an execution ends, whatever its goroutine is doing.
ContextEnds(c) ==
  /\ ~At(c, "idle") /\ ~ex[c].over
  /\ ex' = [ex EXCEPT ![c].over = TRUE]
  /\ cutOff' = cutOff \cup {ex[c].run}
  /\ UNCHANGED <<config, hrun, reactive, started, dirs, live, nextRun>>

HourPasses(c) == ~ex[c].dream /\ ContextEnds(c)

\* runJob's context: what is left of it is less than the backend's budget.
WallclockPasses(c) == ex[c].dream /\ ContextEnds(c)

-----------------------------------------------------------------------------
(* The end of an execution. *)

\* Mutant: the start time is only forgotten when the row is written.
OnFinishKeeps(c) ==
  LET r == ex[c].run IN
  /\ At(c, "finish")
  /\ started' = IF ex[c].over THEN started ELSE started \ {r}
  /\ hrun' = IF ex[c].over THEN hrun
             ELSE [hrun EXCEPT ![r] = IF ex[c].ok THEN "success" ELSE "failed"]
  /\ ex' = [ex EXCEPT ![c].pc = "complete"]
  /\ UNCHANGED <<config, reactive, dirs, live, nextRun, cutOff>>

\* The Observer updates the row, or inserts it when OnStart could not; with a
\* context that has ended neither statement runs.
OnFinish(c) ==
  LET r == ex[c].run IN
  /\ At(c, "finish")
  /\ started' = started \ {r}
  /\ hrun' = IF ex[c].over THEN hrun
             ELSE [hrun EXCEPT ![r] = IF ex[c].ok THEN "success" ELSE "failed"]
  /\ ex' = [ex EXCEPT ![c].pc = "complete"]
  /\ UNCHANGED <<config, reactive, dirs, live, nextRun, cutOff>>

\* runHarness writes the verdict into the reactive run, under the same context;
\* the dream worker only takes the result.
CompleteHarnessRun(c) ==
  LET r == ex[c].run IN
  /\ At(c, "complete")
  /\ reactive' = IF ex[c].dream \/ ex[c].over THEN reactive
                 ELSE [reactive EXCEPT ![r] = IF ex[c].ok THEN "succeeded" ELSE "failed"]
  /\ ex' = [ex EXCEPT ![c] = NoExec]
  /\ UNCHANGED <<config, hrun, started, dirs, live, nextRun, cutOff>>

\* The server dies: goroutines and start times go, the work itself goes on.
HarnessCrash ==
  /\ \E c \in HxCalls : ~At(c, "idle")
  /\ ex' = [c \in HxCalls |-> NoExec]
  /\ started' = {}
  /\ cutOff' = cutOff \cup {r \in HxRuns : InFlight(r)}
  /\ UNCHANGED <<config, hrun, reactive, dirs, live, nextRun>>

\* Work nobody waits for any more ends.
StrayEnds(r) ==
  /\ r \in live /\ ~InFlight(r)
  /\ live' = live \ {r}
  /\ UNCHANGED <<config, ex, hrun, reactive, started, dirs, nextRun, cutOff>>

\* GET /api/runs/{id}: the reactive run with its harness run.
GetRun(r) == [run |-> reactive[r], harness |-> hrun[r]]

-----------------------------------------------------------------------------
HarnessInit ==
  /\ config \in [name : {Blank}, image : Images, command : {TRUE}, blob : {Blank}]
  /\ ex = [c \in HxCalls |-> NoExec]
  /\ hrun = [r \in HxRuns |-> "none"]
  /\ reactive = [r \in HxRuns |-> "none"]
  /\ started = {} /\ dirs = {} /\ live = {} /\ cutOff = {}
  /\ nextRun = 1

HarnessNext ==
  \/ handleHarnessConfigSet
  \/ \E c \in HxCalls, r \in HxRuns : dispatchHarness(c, r) \/ DreamExecute(c, r)
  \/ \E c \in HxCalls, b \in BOOLEAN : \/ OnStart(c, b) \/ K8sJobExecute(c, b)
                                      \/ WorkEnds(c, b) \/ Killed(c, b)
  \/ \E c \in HxCalls : \/ SubprocessExecute(c) \/ DockerExecute(c) \/ WebhookExecute(c)
                        \/ check(c) \/ HourPasses(c) \/ WallclockPasses(c)
                        \/ OnFinish(c) \/ CompleteHarnessRun(c)
  \/ HarnessCrash
  \/ \E r \in HxRuns : StrayEnds(r)

HarnessSpec == HarnessInit /\ [][HarnessNext]_hxVars

-----------------------------------------------------------------------------
HarnessTypeOK ==
  /\ config \in Configs
  /\ \A c \in HxCalls : ex[c].pc \in {"idle", "start", "launch", "wait", "finish", "complete"}
  /\ hrun \in [HxRuns -> {"none", "running", "success", "failed"}]
  /\ reactive \in [HxRuns -> {"none", "running", "succeeded", "failed"}]
  /\ \A s \in {started, dirs, live, cutOff} : s \subseteq HxRuns
  /\ nextRun \in 1..(MaxHxRuns + 1)

\* The reactor's own choice of a backend and the Registry's are the same for
\* every configuration the reactor lets through: a trigger is never run by a
\* backend other than the one it was routed for.
PolicyAgrees ==
  \A a \in Configs : agentBackendKind(a) # "none" => Resolve(a) = agentBackendKind(a)

\* No environment below the server's own (host, agent, configuration, secrets
\* and trace of the request) decides what a process or a container takes for its
\* run id and for the sender of its message, in a container not even for HOME;
\* only the verbatim arguments of a docker block do, and in a Job the agent's
\* and the request's variables.
EnvReserved ==
  \A h, a, g, q, x \in SUBSET EnvKeys : \A k \in {"SYNAPBUS_RUN_ID", "SYNAPBUS_FROM_AGENT"} :
    /\ buildEnv(h, a, g, q)[k] = "server"
    /\ \A j \in {k, "HOME"} \ x : buildRunArgs(buildEnvMap(a, g, q), x)[j] = "server"
    /\ k \notin a \cup q => BuildHandler(a, q)[k] = "server"

\* The two tables the run page joins never contradict each other.
VerdictsAgree ==
  \A r \in HxRuns : LET g == GetRun(r) IN
    (g.run \in {"succeeded", "failed"} /\ g.harness # "running") =>
      (g.run = "succeeded" <=> g.harness = "success")

\* A row that says running is being run, unless its context ended or the server
\* died under it (with the context of the caller over, OnFinish cannot write);
\* the memory of start times does not grow with such rows.
RowsSettle ==
  /\ \A r \in HxRuns : (hrun[r] = "running" \/ reactive[r] = "running") => InFlight(r) \/ r \in cutOff
  /\ \A r \in started : InFlight(r)

\* What is at work is waited for, or was cut off by a crash or with its context,
\* or is a Job whose poll failed; and a directory is left behind only for a post-mortem.
NothingStray ==
  /\ \A r \in live : \/ \E c \in HxCalls : At(c, "wait") /\ ex[c].run = r
                     \/ r \in cutOff
                     \/ hrun[r] # "success" /\ reactive[r] = "none"
  /\ \A r \in dirs : ~KeepWorkdir => hrun[r] # "success" /\ reactive[r] # "succeeded"

\* The harness as a whole: choice of backend, environment, rows and leftovers.
HarnessSafe ==
  /\ HarnessTypeOK /\ PolicyAgrees /\ EnvReserved
  /\ VerdictsAgree /\ RowsSettle /\ NothingStray

\* runJob: "The harness Execute is bounded by wallclock; the surrounding ctx adds
\* a tiny epsilon so the dispatcher loop sees the timeout fire": a dream run the
\* budget has ended would leave the Observer a context to record it with.
DreamRunRecorded ==
  \A c \in HxCalls : At(c, "complete") /\ ex[c].dream => hrun[ex[c].run] # "running"

\* harness.go: Execute "blocks until the run terminates, the context is
\* cancelled, or the Budget is exhausted".
BlocksUntilOver ==
  \A r \in live : InFlight(r) \/ r \in cutOff

=============================================================================
