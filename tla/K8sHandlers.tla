---------------------------- MODULE K8sHandlers ----------------------------
(***************************************************************************)
(* The Kubernetes handlers of internal/k8s: an agent registers up to       *)
(* MaxHandlersPerAgent images, the K8sDispatcher creates a Job per active  *)
(* handler of an event and records it in k8s_job_runs, and the REST API    *)
(* and the admin socket list handlers, runs and logs.  The name of a Job   *)
(* is made of the agent and the message, so two handlers of one event, or  *)
(* a handler and the reactor, ask for the same name.                       *)
(* The cluster (external): it refuses a name in use and forgets a Job an   *)
(* hour after its end.                                                     *)
(***************************************************************************)
EXTENDS Naturals, Sequences, FiniteSets, SequencesExt

CONSTANTS
  KhAgents,             \* agents with handlers
  OwnedBy,              \* the owner of each agent
  KhImages,             \* container images
  KhMessages,           \* messages that may be sent, each to one agent
  KhCalls,              \* concurrent registrations
  MaxHandlersPerAgent,
  MaxHandlers           \* bound: k8s_handlers ids

VARIABLES
  handler,              \* k8s_handlers: row by id, Gone when there is none
  nextHandler,          \* AUTOINCREMENT
  khReg,                \* registrations between their COUNT and their INSERT
  disp,                 \* Dispatch by message
  clusterJob,           \* the cluster: who made the Job of a message
  jobRuns,              \* k8s_job_runs
  khLost                \* messages whose dispatch a crash cut short

khVars == <<handler, nextHandler, khReg, disp, clusterJob, jobRuns, khLost>>

NoName == ""           \* the empty string: no agent, no filter

ASSUME K8sAssumption ==
  /\ NoName \notin KhAgents /\ IsFiniteSet(KhCalls)
  /\ MaxHandlers \in Nat /\ MaxHandlersPerAgent \in Nat \ {0}

Gone == [agent |-> NoName, image |-> NoName, active |-> FALSE]
HandlerIds == 1..MaxHandlers
HandlersOf(a) == {h \in HandlerIds : handler[h].agent = a}
NoReg == [agent |-> NoName, image |-> NoName]
Undispatched == [agent |-> NoName, todo |-> <<>>, made |-> "no"]
NoJob == 0
ByReactor == MaxHandlers + 1

-----------------------------------------------------------------------------
(* The service. *)

CountHandlersByAgent(a) == Cardinality(HandlersOf(a))

\* Valid events, an image and a cluster are given; the limit is read before the
\* row is written.
RegisterHandler(c, a, image) ==
  /\ khReg[c] = NoReg
  /\ CountHandlersByAgent(a) < MaxHandlersPerAgent
  /\ khReg' = [khReg EXCEPT ![c] = [agent |-> a, image |-> image]]
  /\ UNCHANGED <<handler, nextHandler, disp, clusterJob, jobRuns, khLost>>

\* k8s.register of the admin socket, the only way to register a handler
handleK8sRegister(c, a, image) == RegisterHandler(c, a, image)

\* UNIQUE(agent_name, image, namespace) refuses a second row for an image.
InsertHandler(c) ==
  LET q == khReg[c] IN
  /\ q # NoReg /\ nextHandler \in HandlerIds
  /\ IF \E h \in HandlersOf(q.agent) : handler[h].image = q.image
     THEN UNCHANGED <<handler, nextHandler>>
     ELSE /\ handler' = [handler EXCEPT ![nextHandler] = [agent |-> q.agent, image |-> q.image, active |-> TRUE]]
          /\ nextHandler' = nextHandler + 1
  /\ khReg' = [khReg EXCEPT ![c] = NoReg]
  /\ UNCHANGED <<disp, clusterJob, jobRuns, khLost>>

\* Mutant: the job runs stay.
DeleteHandlerOnly(h) ==
  /\ handler[h] # Gone
  /\ handler' = [handler EXCEPT ![h] = Gone]
  /\ UNCHANGED <<nextHandler, khReg, disp, clusterJob, jobRuns, khLost>>

\* The admin looks the agent up by the id and deletes by both; job runs go with
\* their handler (ON DELETE CASCADE).
DeleteHandler(h) ==
  /\ handler[h] # Gone
  /\ handler' = [handler EXCEPT ![h] = Gone]
  /\ jobRuns' = {r \in jobRuns : r.handler # h}
  /\ UNCHANGED <<nextHandler, khReg, disp, clusterJob, khLost>>

-----------------------------------------------------------------------------
(* The dispatcher. *)

GetActiveHandlersByEvent(a) == {h \in HandlersOf(a) : handler[h].active}

\* The handlers are read once, newest first (rows of one second in any order).
K8sDispatch(m, a) ==
  /\ disp[m] = Undispatched
  /\ \E todo \in SetToSeqs(GetActiveHandlersByEvent(a)) :
        disp' = [disp EXCEPT ![m] = [agent |-> a, todo |-> todo, made |-> "no"]]
  /\ UNCHANGED <<handler, nextHandler, khReg, clusterJob, jobRuns, khLost>>

\* The Job of the next handler: refused when its name is taken, or for any
\* other reason of the cluster.
CreateJob(m, accepted) ==
  LET d == disp[m]  ok == accepted /\ clusterJob[m] = NoJob IN
  /\ d.todo # <<>> /\ d.made = "no"
  /\ clusterJob' = IF ok THEN [clusterJob EXCEPT ![m] = Head(d.todo)] ELSE clusterJob
  /\ disp' = [disp EXCEPT ![m].made = IF ok THEN "pending" ELSE "failed"]
  /\ UNCHANGED <<handler, nextHandler, khReg, jobRuns, khLost>>

\* The record of the Job, or of its failure; the foreign key refuses it when
\* the handler is gone, which is only logged.
InsertJobRun(m) ==
  LET d == disp[m]  h == Head(d.todo) IN
  /\ d.todo # <<>> /\ d.made # "no"
  /\ jobRuns' = IF handler[h] = Gone THEN jobRuns
                ELSE jobRuns \cup {[handler |-> h, agent |-> d.agent, message |-> m, status |-> d.made]}
  /\ disp' = [disp EXCEPT ![m].todo = Tail(@), ![m].made = "no"]
  /\ UNCHANGED <<handler, nextHandler, khReg, clusterJob, khLost>>

\* The reactor's Job for the same agent and message has the same name; its
\* turn in the MultiDispatcher comes after the handlers'.
ReactorJob(m) ==
  /\ disp[m].agent \in KhAgents /\ disp[m].todo = <<>>
  /\ clusterJob[m] = NoJob
  /\ clusterJob' = [clusterJob EXCEPT ![m] = ByReactor]
  /\ UNCHANGED <<handler, nextHandler, khReg, disp, jobRuns, khLost>>

\* ttlSecondsAfterFinished, an hour after its end (the dispatcher's loop takes
\* seconds); nothing tells k8s_job_runs.  The reactor may then retry.
JobForgotten(m) ==
  /\ clusterJob[m] # NoJob /\ disp[m].todo = <<>>
  /\ clusterJob' = [clusterJob EXCEPT ![m] = NoJob]
  /\ UNCHANGED <<handler, nextHandler, khReg, disp, jobRuns, khLost>>

DispatcherCrash ==
  /\ \E m \in KhMessages : disp[m].todo # <<>>
  /\ khLost' = khLost \cup {m \in KhMessages : disp[m].todo # <<>>}
  /\ disp' = [m \in KhMessages |-> [disp[m] EXCEPT !.todo = <<>>, !.made = "no"]]
  /\ khReg' = [c \in KhCalls |-> NoReg]
  /\ UNCHANGED <<handler, nextHandler, clusterJob, jobRuns>>

-----------------------------------------------------------------------------
(* What the owner and the admin see. *)

GetJobRunsByAgent(a, status) ==
  {r \in jobRuns : r.agent = a /\ (status # NoName => r.status = status)}
AgentsOf(o) == {a \in KhAgents : OwnedBy[a] = o}
ListHandlers(o, filter) == UNION {HandlersOf(a) : a \in {b \in AgentsOf(o) : filter \in {NoName, b}}}
ListJobRuns(o, filter, status) ==
  UNION {GetJobRunsByAgent(a, status) : a \in {b \in AgentsOf(o) : filter \in {NoName, b}}}
isAgentOwnedBy(a, o) == a \in KhAgents /\ OwnedBy[a] = o
\* The logs of a run are fetched from the cluster by the Job's name.
JobRunLogs(o, r) == isAgentOwnedBy(r.agent, o) /\ r.status = "pending" /\ clusterJob[r.message] # NoJob
handleK8sList(filter) == UNION {HandlersOf(a) : a \in {b \in KhAgents : filter \in {NoName, b}}}

-----------------------------------------------------------------------------
K8sInit ==
  /\ handler = [h \in HandlerIds |-> Gone] /\ nextHandler = 1
  /\ khReg = [c \in KhCalls |-> NoReg]
  /\ disp = [m \in KhMessages |-> Undispatched]
  /\ clusterJob = [m \in KhMessages |-> NoJob]
  /\ jobRuns = {} /\ khLost = {}

K8sNext ==
  \/ \E c \in KhCalls, a \in KhAgents, i \in KhImages : handleK8sRegister(c, a, i)
  \/ \E c \in KhCalls : InsertHandler(c)
  \/ \E h \in HandlerIds : DeleteHandler(h)
  \/ \E m \in KhMessages, a \in KhAgents : K8sDispatch(m, a)
  \/ \E m \in KhMessages : \/ CreateJob(m, TRUE) \/ CreateJob(m, FALSE)
                           \/ InsertJobRun(m) \/ ReactorJob(m) \/ JobForgotten(m)
  \/ DispatcherCrash

K8sSpec == K8sInit /\ [][K8sNext]_khVars

-----------------------------------------------------------------------------
K8sTypeOK ==
  /\ nextHandler \in 1..(MaxHandlers + 1)
  /\ clusterJob \in [KhMessages -> 0..(MaxHandlers + 1)]
  /\ \A r \in jobRuns : r.handler \in HandlerIds /\ r.status \in {"pending", "failed"}

\* Every recorded run belongs to a handler that exists and to its agent, so the
\* owner who sees a run also sees its handler.
RunsHaveHandler ==
  \A r \in jobRuns : /\ handler[r.handler].agent = r.agent
                     /\ \A o \in {OwnedBy[a] : a \in KhAgents}, s \in {NoName, "pending", "failed"} :
                          r \in ListJobRuns(o, NoName, s) =>
                            r.handler \in ListHandlers(o, NoName) \cap handleK8sList(NoName)

\* A Job the dispatcher made is on record, unless its handler was deleted or
\* the server died before the record was written.
JobsRecorded ==
  \A m \in KhMessages : clusterJob[m] \in HandlerIds =>
    \/ handler[clusterJob[m]] = Gone \/ m \in khLost
    \/ disp[m].todo # <<>> /\ Head(disp[m].todo) = clusterJob[m] /\ disp[m].made = "pending"
    \/ \E r \in jobRuns : r.handler = clusterJob[m] /\ r.message = m /\ r.status = "pending"

\* Of the records of a message at most one is pending, and the Job whose logs
\* it shows is its handler's own or, after that was forgotten, the reactor's:
\* never another handler's.
LogsAreOwn ==
  /\ \A r, q \in jobRuns : r.message = q.message /\ {r.status, q.status} = {"pending"} => r = q
  /\ \A a \in KhAgents : \A r \in jobRuns :
        JobRunLogs(OwnedBy[a], r) => clusterJob[r.message] \in {r.handler, ByReactor}

\* One handler per image, and as many over the limit as there were concurrent
\* registrations.
HandlersBounded ==
  \A a \in KhAgents :
    /\ \A h, g \in HandlersOf(a) : handler[h].image = handler[g].image => h = g
    /\ Cardinality(HandlersOf(a)) < MaxHandlersPerAgent + Cardinality(KhCalls)

\* Kubernetes handlers as a whole.
K8sSafe == K8sTypeOK /\ RunsHaveHandler /\ JobsRecorded /\ LogsAreOwn /\ HandlersBounded

\* FR-025: "a maximum of 3 K8s handlers per agent".
HandlerLimit == \A a \in KhAgents : Cardinality(HandlersOf(a)) <= MaxHandlersPerAgent

=============================================================================
