# SynapBus: TLA+ models, model-checking runs and proofs

SynapBus is one Go process with an embedded SQLite database. Agents talk to it
over MCP, people over a REST API and a Web UI, administrators over a Unix
socket. It keeps messages as a work queue, fans them out to webhooks,
Kubernetes Jobs and local processes, runs auctions for tasks, and runs dream
agents that tidy up the agents' memories. Almost all of its state is in tables.
Almost none of its functions uses a transaction: a function is a sequence of SQL
statements, and statements of goroutines, of several HTTP requests, of tickers
and of an earlier life of the process interleave. That is what this project
models and checks.

Paths below are relative to the repository (`src/`).

1. [Inventory](#1-inventory)
2. [Plan](#2-plan)
3. [Modules and the code](#3-modules-and-the-code)
4. [Runs](#4-runs)
5. [Fairness](#5-fairness)
6. [Proofs](#6-proofs)
7. [Where documents and code disagree](#7-where-documents-and-code-disagree)
8. [Not modelled](#8-not-modelled)

## 1. Inventory

### Parts that carry the core logic

| part | state | operations | hard behaviour | what makes it correct |
|---|---|---|---|---|
| message queue, `internal/messaging/{store,service,stalemate,retention}.go`, `api/messages_handler.go` | `messages.status`, `to_agent`, `claimed_by`, `claimed_at`, `metadata.error` | send, claim, mark_done, mark_failed, Web UI done, time-out of claims, retention, purge | a claim is three statements, a finish two; two sessions of one agent; workers act on ids selected earlier | a claim belongs to the addressee; only the owner finishes; a message never goes back; every claim is resolved |
| reactor, `internal/reactor`, `k8s/runner.go` | `reactive_runs`, `agents.pending_work`, Jobs of the cluster | evaluate a trigger, launch, poll, retry, coalesce | a goroutine per DM walks a chain of checks without a lock; the Job and its row are created separately; restarts; Jobs that are garbage-collected | no running row without a Job; outcomes written once; every row leaves `running`; no trigger forgotten |
| webhook delivery, `internal/webhooks`, `api/webhooks_handler.go` | `webhooks`, `webhook_deliveries`, a bounded channel | register, dispatch, POST, retry, dead-letter, disable, retry by the owner | the poller enqueues what is still in flight; full channel; failure counter in three statements; restart | dead letters had their attempts; threshold not missed; what was recorded is attempted |
| task auction, `internal/channels/{swarm_service,task_store,expiry}.go`, `internal/marketplace` | `tasks`, `task_bids`, `agent_reputation`, award DMs | post, bid, award, complete, mark done, expire | award is four statements and more; expiry and late bids in between | the winner has bid on this very task; bids and task agree; the ledger is earned |
| dream worker, `internal/messaging/{consolidator,consolidation_jobs,dispatch_tokens,dream_usage}.go` | `memory_consolidation_jobs`, `memory_dispatch_tokens`, `memory_dream_usage`, a semaphore | tick, dream-run, gate, create, issue, dispatch, lease, complete, revoke, account | two kinds of dispatchers; daily limits across midnight; rows that survive the process | rows move forward; one rewrite per owner; every start accounted for; launched jobs end |
| memory tools, `internal/mcp/memory_tools.go`, `messaging/memory_{links,status,core}.go`, `api/memory_core.go` | `memory_links`, the job's `actions` array, `memory_core` | six `memory_*` tools, edits by the owner | calls overlap, outlive their job and its token; write and audit entry are two statements; the status of a memory is derived from the audit log | an agent stays within its owner; every exclusion is audited; an excluded memory stays excluded |

### Parts around it

| part | state | hard behaviour | what makes it correct |
|---|---|---|---|
| conversations and inbox, `messaging/{service,store}.go`, `api/messages_handler.go`, `mcp/bridge.go` | `conversations`, `messages`, `inbox_state` (a read pointer per agent and conversation) | a send is three statements, a marking read one query and an update per conversation; eight views of the same rows | threads join, what is read stays read, nothing is passed over unseen, views and counts agree |
| reactions, workflow states, trust, `internal/{reactions,trust}` | `message_reactions`, `agent_trust` | four queries and a write per toggle | one claimer, a state per message, a verdict counts once |
| attachments and retention, `internal/attachments`, `messaging/retention.go` | files by content hash, `attachments` rows, messages with an age | files and rows are written separately by uploads, collections, retention and purges; errors of a purge are dropped | what a live message refers to can be downloaded; only what expired is deleted; nothing dangles |
| memory injection, `search/injection.go`, `mcp/injection_wrap.go`, `messaging/{auto_links,memory_injections,memory_core}.go` | links, a ring of packets, core memories | the listener and the recorder run after the fact | within the budget, within the owner, every packet on record |
| users, sessions, identity providers, `internal/auth`, `auth/idp` | `users`, `sessions`, `user_identities`, the limiter's map | check and insert are separate for users, sessions and identities | guesses are bounded; nothing outlives its user |
| OAuth, `auth/{fosite_store,client_store,provider}.go` | clients, codes, tokens | the fosite library calls the store statement by statement | tokens come from a redeemed code; what is consumed stays consumed |
| agents, API keys, dead letters, `internal/{agents,apikeys}`, `messaging/deadletter_store.go` | `agents`, `api_keys`, `dead_letters` | whole rows are read, changed and written back; removal is two statements | no inactive agent speaks; what waited for it is a dead letter |
| channels, `internal/channels/{service,store}.go` | `channels`, `channel_members`, `channel_invites` | no operation is a transaction | nobody is in a private channel who was not admitted; a kick holds; lists agree |
| goals and tasks, `internal/{goals,goaltasks}`, `mcp/goals_tools.go` | `goals`, `goal_tasks`, the goal's channel | channel, row, root and status are four statements; a transition judges what it read | trees are sound, costs add up, what is over stays over |
| secrets, `internal/secrets` | a key file, `secrets` rows | server and command line open the store independently | one live value per name and scope; what is listed can be read |
| harness, `internal/harness` | `harness_runs`, `reactive_runs`, processes, containers, Jobs, directories | four back ends, a context of an hour that also carries the final writes, crashes | the row follows the work; router and registry agree |
| Kubernetes handlers, `internal/k8s` | `k8s_handlers`, `k8s_job_runs`, Jobs | the Job comes before its record and its name is shared | Jobs are recorded; a handler's logs are its own |
| search and embeddings, `internal/search` | queue, rows, an index in memory and on disk | four places written one after the other; stops, crashes, change of provider, reindex | no message is forgotten, what a row calls embedded is indexed |
| wiki, plugins, JavaScript pool, A2A, push and server-sent events, traces | revisions, subscriptions, buffers | see [Not modelled](#8-not-modelled) | |
| storage, wiring, metrics, Web UI | | not state machines of their own; storage gives the atomicity assumed below | |

`PROJECT.json` lists every part with its files and status, and, under `hazards`,
the lines where this code is hard to test, with the properties that cover them.

### How the parts interact

`SendMessage` inserts a `pending` row and then starts one goroutine, which calls
the `MultiDispatcher`: the webhook engine, the Kubernetes dispatcher and the
reactor, in this order, each of which writes its own tables. Agents answer by
claiming and finishing the row, which nothing in the three dispatchers looks at:
the queue and the dispatchers share the message id and no state. Hence they are
modules of their own, with the arrival of messages as an input of each. The same
holds around the core: identity, conversations, channels, goals and the rest meet
in ids and names, and each module takes what it needs of the others as an input
(a message that is sent, an agent that is removed) or as a part of its own state
(the channel of a goal, the Job of the reactor in `K8sHandlers`). The
marketplace calls the auction and the messaging service; it is modelled with the
auction. The dream worker issues the token the memory tools check, and the status
view reads the outcome of jobs: `MemoryTools` extends `DreamWorker` and composes
the two. The StalemateWorker, RetentionWorker, expiry worker, Poller, retry
poller and ConsolidatorWorker are tickers over tables others write, and are
actions of the modules of those tables.

The database (`internal/storage/sqlite.go`) has one write connection, WAL
snapshots for readers and foreign keys on. A statement is therefore atomic, and
two statements are atomic together only inside `BeginTx`. Every action of the
modules is one statement, one transaction or one step on shared memory (a
channel, a semaphore), together with the local computation up to the next one.

## 2. Plan

1. `MessageQueue`, with the abstract `MessageLifecycle` it implements; `Reactor`;
   `WebhookDelivery`; `TaskAuction`; `DreamWorker`; `MemoryTools` on top of it: *modelled,
   checked and proved*.
2. `Accounts`, `OAuthTokens`, `AgentRegistry`, `Channels`; `Conversations`, `Reactions`,
   `Attachments`, `Retention`, `Injection`; `Goals`, `Secrets`, `Harness`, `K8sHandlers`,
   `Embeddings`: *modelled, checked and proved*. Every invariant and action property that
   a passing run checks is a theorem (section 6); none of the modules declares a
   `RECURSIVE` operator.
3. What is left: refinements of the abstract specifications below, and the general form
   of what is proved of small inputs only (`FallbackSound` of `Embeddings` is about rankings
   of three messages).

Abstract specifications worth stating besides `MessageLifecycle`: a run with one
outcome (for `Reactor` and `Harness`), an award as one atomic step (for `TaskAuction`
with a single award).

## 3. Modules and the code

`map` in `PROJECT.json` gives the lines of every definition. Definitions whose
comment begins with "Mutant" are plausible mistakes in the definition that
follows; they are used by no specification, only to see that a property notices
them.

### `MessageQueue`, `MessageLifecycle`

A row is a message id; `status` is its column, with `absent` before the INSERT
and `gone` after a DELETE. `lapsed` and `expired` stand for `claimed_at` and
`created_at` compared with the clock. Goroutines are `Threads`: sessions of agents
and handlers of `POST /api/messages/{id}/done`. `pc`, `acting`, `sel`, `target`,
`verdict` are their local variables between statements.

| code | actions |
|---|---|
| `SendMessage`, `InsertMessage` | `InsertMessage` |
| `ClaimMessages` | `ClaimSelect`, `ClaimUpdate`, `ClaimFetch` |
| `MarkDone`, `MarkFailed` | `FinishRead`, `UpdateMessageStatus` |
| `MessagesHandler.MarkDone` | `DoneRequest`, the claim and finish actions as the addressee, `DoneRecheck`, `DoneRefused` |
| StalemateWorker | `StaleSelect`, `StaleFail` |
| RetentionWorker, `PurgeMessages` | `RetentionSelect`, `RetentionDelete` (one batch), `PurgeSelect`, `PurgeDelete` |
| clock, process, clients | `ClaimAges`, `MessageAges`, `Restart`, `Disconnect` |

`MessageLifecycle` is the promise: a claim of several messages is one step, a
finish is made while the owner is the addressee, nothing goes back.

### `Reactor`

One agent, since agents share none of this state. `run` is the status of
`reactive_runs`, `work` the Job or the process it stands for; `refused` and
`refusedFor` are the rows written for rejected triggers, which count against the
budget as the code counts them. A DM's goroutine, a harness goroutine, a retry
request and the Poller walk `evaluateTrigger` through the labels of `pc`, one
query each. `owed` is a history variable: the triggers no run has started after.

### `WebhookDelivery`

One agent's webhooks. `queue` is the Go channel with `{delivery, attempts}`, in
the order of the channel; `fetched` is what the retry poller or `requeuePending`
has read and not enqueued yet; `worker` is what each of the workers is doing. An
attempt is three steps and more: `CountAttempt` is the UPDATE of `attempts`, `Post` the
request, and the outcome follows. Three history variables: `sent` counts requests that
were made, `cut` attempts that were counted and whose request a restart cut off, and
`stranded` holds the pending rows whose work met a full channel or was not among those
that a start reads. `Restart` empties channel and workers and reads the pending rows up
to the LIMIT of the query.

### `TaskAuction`

Calls of `bid_task`, `accept_bid`/`award`, `complete_task`/`mark_task_done` are
processes; `at` names the statement a call comes to next. `complete_task` and
`accept_bid` are the calls that are not in `Marketplace`: the marketplace call does
the same statements and then its own. `ledger` holds rows of `agent_reputation`
with the call that wrote them, because the table allows duplicates.

### `DreamWorker`

Dispatchers are the worker's goroutine and admin requests; each works through a
plan of (type, slot) and stands at the gate, the INSERT, the token, the flip or
the start. The goroutine of a job is `run`: queued for the semaphore, leasing,
executing, revoking, accounting. `Complete` keeps the CHECK constraint of the
schema: a status it does not know leaves the row as it was. A token is `old` when
the wait for the semaphore has used up its slack.

### `MemoryTools`

Extends `DreamWorker`. A call is three steps: the checks, the write, the audit
entry; the token is looked at in the first only, as in `authorizeForOwner`, and
the owner named by the request and the ids of messages are inputs. `Status` is the
view `memory_status`, computed from the actions of jobs that succeeded. An owner has
one agent with a core memory.

### `Accounts`, `OAuthTokens`, `AgentRegistry`, `Channels`

In all four a request is a goroutine that stands between two statements; what it
has read is in its record (`request`, `endpoint`, the calls of agents and channels),
and other requests run in between.

| module | state | actions |
|---|---|---|
| `Accounts` | `users`, `sessions`, `identities`, `attempts` of the limiter | `HandleLogin`, `HandleLoginVerify`, `handleAuthorizeLogin` with its wrong passwords, `CreateSession`, `HandleChangePassword`, `UpdatePassword`, `PurgeOtherSessions`, `handleUserCreate`, `handleUserDelete` and its second statement, `HandleCallback` with `findOrCreateUser`, `SetEmail`, `LinkIdentity` |
| `OAuthTokens` | `clients`, `confidential` (those with a secret), `codes`, `tokens` | the store calls of the token endpoint in fosite's order (`Token...`), each of which a request may die before; `HandleTokenCredentials`, the grant without a code, for a client somebody stored with a secret (`ClientProvisioned`: nothing in the program calls `CreateClient`) |
| `AgentRegistry` | `agents`, `apiKeys`, `mail`, `deadLetters` | registration, `PutAgent` and `PostRevokeKey` as read and `StoreUpdateAgent`, of agents of either type, `DeleteAgent` as `CaptureDeadLetters` (of pending and of claimed messages), or `CaptureFails`, whose error is logged, and `DeactivateAgent`, `EnsureHumanAgent`, the administrator's deletion |
| `Channels` | `channels`, `members`, `invites`, `chPosts` | creation, join, invitation, leave, kick, broadcast: a decision (`call...`, `Rest...`, `handle...`) and the writes that follow it; `CallFails` between two writes |

History variables (`admitted`, `removed`, `orphan`, `cut` of `Channels`, `missed` of a letter)
say why an exception to a property holds; no guard reads them, except that `unasked`, the wrong
passwords the limiter never hears of, is capped by `MaxUnasked`. A letter is `missed` when it came
after the capture of a removal, or the capture failed.

### `Conversations`, `Reactions`, `Attachments`, `Retention`, `Injection`

`Conversations` has one operator per view (inbox, badge, status page, conversation
list, direct messages, channel summaries, search) over the same rows, so that the
invariants can compare them. A page of a query is any subset of what it matches. The
web's `MarkRead` takes any positive id, given out or not; `ahead` is the history of the ids that it
passed before they were given out. The count of unread messages is the whole of
`total_unread`, channels included, and `buildSearchConditions` is the condition as SQLite evaluates it.
`Reactions` counts scores in steps of 0.05. In `Attachments` a file is a pair of a
directory layout and a hash, because the store and the clean-up of `retention.go`
build different paths. `Retention` keeps `last_insert_rowid()` of the one connection as
a variable of its own and models the dropped error of a purge. `Injection` evaluates
`applyTokenBudget` on every list of up to three memories of the tried lengths and
budgets, besides the packets that occur; its loop, and the loops that filter memories,
are functions on the number of turns. A reply names an earlier memory in its column, or any number
in the metadata of the sender (`meta`, from `NamedIds`), which becomes a link as it is. `ViewsAgree` of `Conversations` asks that every direct
message of the user's agents is in the thread of some listed partner (section 7 says
why not of each).

### `Goals`, `Secrets`, `Harness`, `K8sHandlers`, `Embeddings`

`Goals`: `glCalls` holds what a call has read; only `CreateTree` and `ClaimAtomic` are one
step; `Trees` are the task trees that are proposed, each a sequence whose nodes name
their parents; `byHand` marks a task that `Transition` itself moved to `claimed` without an assignee. `Secrets`: a process that opens the store reads the key file and writes it in
another step; a value can be read by who has its key. `Harness`: an execution walks
start, launch, wait, finish, complete; `HourPasses` ends the context of a reactor's run and
`WallclockPasses` that of a dream run, after which the writes on it fail, and a Job that nobody waits
for any more goes on; the arguments of a docker block come last on its command line; `HarnessCrash` forgets the goroutines and leaves Jobs and containers.
`K8sHandlers`: the cluster is one Job per message name, made by a handler or by the
reactor. `Embeddings`: queue item, index, row and completion are a step each; a stop
saves the index, a crash does not. A start is six steps: the index file (readable or not), the
provider of the rows, the deletion of rows, the deletion of the queue, the rebuilding of the index,
and `StartPipeline`, which queues what is missing; each statement whose error is dropped may
fail, and the server may stop after any of them.

### The three composed instances

`MCIdentity`, `MCConversations` and `MCWork` extend four or five of these modules. The
components of an instance share no state, so their product would only multiply
interleavings that cannot matter: `part`, chosen in the initial state, names the
component that moves, and the others keep their initial state. An invariant such as
`ChannelsHold` is `part = "channels" => ChannelsSafe`, where `ChannelsSafe` is the
conjunction of the named invariants of the module. `Parts` of `MCWork` are the components a run
lets move: all of them in the run, one to look at it alone. `MCWebhookDelivery` has a `scene` in the same
manner.

## 4. Runs

| run | instance | states | shows |
|---|---|---|---|
| `queue_race` | 1 message, 2 agents, 3 sessions (2 of one agent), 1 handler, 1 restart | 47 k | `ClaimOwnership`, `HandedOutClaimed`, `FinisherIsOwner`, `StaleFailsOnlyStale`, refinement of `MessageLifecycle`; no deadlock |
| `queue_resolve` | 2 messages, 1 agent, 1 handler, 1 restart, fair | 33 k | `ClaimsResolve` when the Web UI claims another message than it was asked about, and when a batch is smaller than the selection |
| `reactor_k8s` | 2 DMs, 2 runs, budget 2, cooldown, 1 restart of any length, fair | 49 k | `RunningHasJob`, `OutcomeOnce`, `RunsComplete` |
| `reactor_harness` | 3 DMs, 3 runs, a retry, a midnight | 254 k | `NotForgotten` |
| `webhook_retries` | 1 webhook, a registration, channel of 1, 2 attempts, threshold 2, fair; scene `race`: 1 message, 2 workers, an owner's retry; scene `full`: 2 messages, 1 worker, a restart that reads 1 row | 360 k | `DeadLetterEarned`, `AutoDisabled`, `RetriesSettle`, `PendingSettles`: what does not settle met a full channel or was beyond the LIMIT of the restart, both of which happen, or was set to pending by the owner |
| `auction` | 2 tasks, 3 agents, 2 bids, 1 award, 1 completion, 1 restart | 818 k | `AssigneeHasBid`, `AwardConsistent`, `ReputationEarned` |
| `dream_jobs` | 2 jobs of 2 types, ticker and 1 admin, parallel 2, semaphore 1, limit 1, a midnight, a restart, fair | 465 k | `OneRewrite`, `UsageAccounted`, `JobLifecycle`, `DispatchedSettles` |
| `memory_tools` | 3 memories of 2 owners, 1 job, 2 calls in flight, 1 reflection, a restart | 347 k | `AuditWithinOwner`, `WritesAudited`, `ExcludedStays` |
| `queue_exclusive_claim` | as `queue_race` | | **refutes** `ExclusiveClaim` |
| `identity` | 2 concurrent requests for each of: 2 users, 2 sessions, 1 external account, 2 failures; 1 code, 4 tokens, 2 clients; 2 agents, 2 keys, 1 letter; 1 channel, 2 agents, 2 posts | 2.16 M | `AccountsHold`, `OAuthHolds`, `AgentsHold`, `ChannelsHold`, `TakenBackForGood` |
| `conversations` | 2 concurrent requests for each of: 2 messages, 2 conversations, 2 agents; 1 message, 4 kinds of reactions, limit 2; 1 hash, 2 messages, 3 rows, 2 cleaners; 2 messages and warnings, batch 1; 2 memories, 1 packet | 1.80 M | `ConversationsHold`, `ReactionsHold`, `CleanupHolds`, `InjectionHolds`, `ReadStaysRead` |
| `work` | 2 concurrent calls for each of: 3 rows of goals and tasks; server and command line, 3 secrets; 2 executions, 5 edits of the configuration; 3 handlers of 2 agents, limit 1; 2 messages to embed, 1 worker, 3 starts, 2 providers | 2.38 M | `GoalsHold`, `SecretsHold`, `HarnessHolds`, `K8sHolds`, `EmbeddingsHold`, `OverForGood` |

Type invariants are conjuncts of the invariants of the composed instances, and theorems
of the others (section 6).

### Why the bounds are enough

* *Messages, deliveries, jobs, tasks.* Rows do not look at each other except where
  the instance has two of them: claim order and batches (two messages), a bid of
  another task (two tasks), slots and the semaphore (two jobs). In `webhook_retries`
  one delivery is enough to fill a channel of one slot with its own duplicates (scene `race`), and
  two deliveries fight for the slot and for the one row the restart reads (scene `full`). Both
  scenes at once are too many states for an everyday run; what two workers and a restart do together is
  covered by the proof of `DeadLetterEarned`.
* *Processes.* Two of each kind that can race with itself, and one of the others:
  a race here is between two statements of one call and a statement of another.
  Three sessions are two of one agent and one of another.
* *Restarts and midnights.* One, at any point (three starts for the embeddings: with one provider,
  with the other, and again after a start that broke off). The state after a restart is a
  state of the tables with idle processes, and a second restart starts from such a
  state, too.
* *Retry counts.* `maxAttempts` 2 and threshold 2 instead of 3 and 50: the smallest
  values at which the first failure and the last one differ.
* *Composed instances.* One shared thing to fight over and two requests that fight: one
  channel, one code, one name, one hash, one title. A second one of a kind is there
  where an operation compares them: two messages for the read pointer, two agents for
  a kick, two messages for a shared file, three rows for a root with two children, two
  images for the limit on handlers. `MaxLast` is the largest id a client marks read; as large as
  the number of messages it is ahead of all that are not sent yet. `NamedIds` 0 and 2 are no metadata
  and an id that is for memory 1 a later or missing one and for memory 2 its own. `MaxUnasked` caps a
  counter. Every agent is a member of the channel (`RoomMembers`). `GoalMoves`, `TaskMoves`, `KeyAgents` and `Edits` choose
  which inputs are tried (`TaskMoves` has `claimed`, the move that sets no assignee, and goes on to `done`; a
  cancelled task is like one that is done), and each choice keeps every branch of the code reachable,
  but one: two larger instances are too slow for every day and were checked once: two conversations besides
  the warnings (`MaxRtConvs = 2`, 2.0 M states), the least for which a send finds its
  conversation removed by retention (that branch), and two embedding workers with two starts (the
  default, and the run, is one worker).
* *Depth.* Nothing sets `MessageEvent.Depth`, so `MaxDepth` never bites; the model
  keeps the check and events of depth 0 only.
* The proofs have no bounds at all: they hold for every value of the constants.

`CHECK_DEADLOCK FALSE` is in the instances that may really stop: the inputs (calls,
jobs, messages) are finite there, and when all have been worked off nothing is
left to do. In the others a stop would be an error, and is looked for.

Symmetry is used for messages and runs of `Reactor`, calls and memories, tasks and
bidders, and the two requests of the composed instances, all of them model values
that no definition tells apart, and only in runs without liveness properties.

## 5. Fairness

Only what the code's own goroutines and the clock do is fair; nobody has to send,
claim, answer, bid, award, retry or administrate.

| run | fair | because |
|---|---|---|
| `queue_resolve` | StalemateWorker's selection and failing of each row, ageing of a claim | a ticker (`stalemate.go`) that lives as long as the server; the clock |
| `reactor_k8s` | steps of goroutines, the Poller's tick and check of each run, end of a Job, cooldown | goroutines without waits on others; `activeDeadlineSeconds` ends a Job; the clock |
| `webhook_retries` | worker steps, the poller, the dispatching goroutine, `next_retry_at` passing | the HTTP client has a time-out, so a request always ends; tickers; the clock |
| `dream_jobs` | every step of a job's goroutine, among them the return of the harness | `runJob` gives `Execute` a context with a deadline |

All are weak fairness. In particular the semaphore of the dream worker needs no
strong fairness for `DispatchedSettles`, because in the instance the jobs are finitely
many; with an endless stream of jobs it would depend on Go's channel queue being
first in, first out.

## 6. Proofs

Eight modules hold theorems, nearly all of the form `Spec => []P`, `Spec => [][A]_vars` or
refinement. They assume only the named `ASSUME` of the module: constants of the
right type, processes of different kinds that are different, and finiteness of a set
of calls where calls are counted. None bounds a set or a number.

* **`MessageQueueProofs`**. `IndInv` is the type invariant with `ClaimOwnership`,
  `HandedOutClaimed`, `FinisherIsOwner`, `FailedHasError` and `CallsInFlight`. The
  last is the strengthening: what a goroutine knows between two statements. The
  ids it selected were sent to the agent it acts for and, after its UPDATE, are no
  longer pending, *whoever* claimed them; without it `HandedOutClaimed` is not
  inductive, since `ClaimFetch` does not look at `claimed_by`. From `IndInv` follow
  the refinement of `MessageLifecycle` (`ClaimUpdate` is the atomic claim, the last
  statement of the others the atomic finish or removal, the rest stutters), that no
  message goes back, and that the StalemateWorker fails only what is stale at that
  moment.
* **`ReactorProofs`**. `IndInv` adds to the types and `RunningHasJob` what the goroutines
  hold: `LaunchOK` (between Job and INSERT a goroutine holds a Job without a row that
  nobody else holds), `HandOverOK` (a harness row is `running` while its goroutine is
  about to start) and `WatchOK` (only running rows are watched, and by one watcher).
  `OutcomeOnce` follows from `WatchOK`. `HarnessForgetsNothing` is `NotForgotten` for the
  harness without restarts (with Kubernetes, or after a restart, it is false: section 7).
  It needs `RolesOK`, which goroutine evaluates what, and `Carried`, `NotForgotten` without
  counting on retries, which evaluate nothing.
* **`WebhookDeliveryProofs`**. Attempt counts are copied into the channel, into what the
  poller has fetched and into workers. `Counted` says that every copy is covered by
  requests that were made, that a worker has counted and is about to make, or that a restart cut
  off between the two; a dead letter is written by a worker whose count has
  reached `maxAttempts`. `AutoDisabled` is inductive with `Fresh` (no failures before
  registration).
* **`MemoryToolsProofs`**, the dream worker. `DreamInv` is the type invariant with
  `RewriteSlots` (rewrites are planned and recorded for slot 0 only), `OneInFlight` (the
  unique index: one row in flight per owner, type and slot), `InHand` (a dispatcher
  between two statements has its job to itself, still `pending` or `dispatched`, and no
  goroutine of it runs) and `Goroutines` (the status of a row follows its goroutine).
  `OneRewrite` needs all of them: two agents at work would be two rows in flight on slot
  0. That a row only moves forward follows because `Complete` is called only by whoever
  has the job in hand. For `UsageAccounted`, `OwnJob` says that the job in hand is one of
  the owner whose counter is raised, and `StepAccounting` that a step changes counters
  and living goroutines together or not at all.
* **`MemoryToolsProofs`**, the tools. `NextIsDream`: the tools are stutterings of the
  worker, so everything above holds of the composition. `MemInv` adds `CallsChecked`, what
  the checks of a call found out and what stays true until its last statement because
  a row never changes its owner (`RowsStay`), and `LogsOwned`. `ExcludedStays` follows from
  logs that only grow (`EntriesStay`) and outcomes that stay; `WritesAudited` is inductive
  with `MemInv`, because a call that has written owes its entry and only `AppendAction`
  or a restart ends it (`OwedStays`).

* **`IdentityProofs`**. *Tokens*: `OAuthInv` adds what a request holds between two
  statements (`RequestsHoldUsedCodes`): the code it answers was marked used before any
  token is written, of the same client and user; a token of nobody belongs to a client with a
  secret and has no refresh token. *Agents*: `RemovalsCapture` and
  `InactiveCaptured` say what a removal under way has put into dead letters; letters that
  came after its capture, or whose capture failed, are the named exception. *Accounts*: wrong
  passwords at the login form are bounded
  together with those that are being compared, `failures + |Checking| <= max - 1 +
  |Requests|`, which counts calls and hence needs finitely many of them. *Channels*:
  `CallSound` (a call that is going to add a member of a private channel was let in and
  its agent has not been kicked since), `AcceptedAdds` (an invitation that was taken has its
  member, or a call that is about to add it, or the call was cut off), `KickersOwn`, and
  `PostsSound`, that a copy of a mention refers to an earlier post of its channel.
  `ConsumedStays` and `InactiveStays` are the action properties.
* **`StoreProofs`**. *Reactions*: `EveryVerdictCounts` relates three counts: verdicts that
  were stored, adjustments of trust, calls that still owe one. *Attachments*: `UnderWay`
  and `SelectedUnused` say what an upload and a collection may rely on between their
  statements; what another cleaner disturbed is the named exception. *Retention*: no two
  rows share an id, what agents write stands apart from the worker's conversations
  (`ApartFromAgents`), a warning that did not stray is alone in its conversation
  (`WarningsAlone`), and what a batch has selected is expired. *Conversations*: `CvLooked`, a
  send that is about to begin a thread looked when there was none; `CvMarks`, a pointer that
  a read is about to move passes nothing unseen but what the web user marked ahead; `ReadStaysRead` follows because the pointer
  is the maximum. The counts of the views are sums over rows
  (`SumTheorems`). *Injected memories*: `BudgetAlwaysHeld` is about `applyTokenBudget` on every list
  of memories, every number of items and every budget, not only those TLC tries:
  after each turn of the loop the packet is the items so far, or it has ended with the
  first that did not fit. `LinksSound` needs that a message whose listener has not run is
  late as soon as another one is stored, `AuditSound` that a number is in one place.
* **`WorkProofs`**. *Task auction*: `CallsMatch` relates what a call remembers to the tables
  (its bid is a bid of its task and was recorded; after the UPDATE the task is awarded),
  `BidsForeign` that no bid is the poster's own. For the ledger, `Traced` and `Checked`
  say that a completed task was checked by a call that knew its assignee; for
  `AwardConsistent`, `Marked` that the only award of a task rejects other bids than its own.
  *Secrets*: `KeysSound`, an open store and every row have a key, and unless two keys were
  generated it is the one of the file; `RowsStay`, rows and revocations stay. *Kubernetes
  handlers*: `DispatchesSound`, a Job on the cluster is on record, or the call that made it
  has the row in hand, or its handler is gone; `LimitSound`, handlers and registrations
  under way together pass the limit by less than the number of concurrent calls, which
  counts calls and hence needs finitely many. *Goals*: `GlChannels` (a channel has its goal, a
  call that will insert it, or was left behind), `GlLines` (the ancestors of a task are tasks
  of its goal, the first a root), `GlJudged` (a call about to move a task on has seen it
  claimed), and that sums of costs over the tasks of a tree agree with those over billing
  codes. *Harness*: `ExecSound` per execution and
  `RunSettled` per row: which of row, start time, work and directory is still there in
  which phase. *Embeddings*: `RowsLast` says in which order a start
  may leave the tables when it stops, `MessageSound` where a message is at any time (row, queue,
  batch, or one of the named losses), `BatchesApart` that no two workers hold the same
  item. `MergeRankings` shows `mergeRRF` for every two rankings and every limit: what both searches
  found among their first 60 outweighs what one of them found (`TwoOutweighOne`); 60 is the constant
  of the formula, and beyond it this is false.
* **`SumTheorems`**. Lemmas about `MapThenSumSet`: a sum over a finite set is defined, does
  not depend on the order, splits over disjoint sets and adds up over the rows of each
  key.

The composed instances: a step of `IdentityNext`, `StoreNext` or `WorkNext` is a step of one
component and leaves the variables of the others alone (`IdentityComposes`, `StoreComposes`,
`WorkComposes`), so each composition implements each component's own specification, and
what is proved of the component holds in the composition. `ChannelsHoldAlways` and its
likes are stated for the specification that TLC runs, but the invariant behind them is that
of the component, and does not need `part`.

What a recursive definition computes is proved without an induction theorem, by a least
counterexample (`LeastNatural`): sums, the loop of the budget, and the loops that filter.

What stays with TLC: liveness under fairness (`ClaimsResolve`, `RunsComplete`,
`PendingSettles`, `RetriesSettle`, `DispatchedSettles`), which the prover does not
handle. `NotForgotten` is proved for the harness, which is the back end of the run that checks it.

## 7. Where documents and code disagree

The last section of each module states what a document, comment or log line
promises and the code does not keep, quoting it. The first is a run of its own, with
a finding in `PROJECT.json`. The others are refuted by TLC when added to the
instance named here (same file, with the constants changed as said; for the
composed instances with `part` in front, as in the invariants there).

| property | refuted by | what happens |
|---|---|---|
| `ExclusiveClaim` | run `queue_exclusive_claim` | two sessions of one agent select the same id; the loser's last SELECT returns it, too |
| `FinishedIsFinal` | `MessageQueue_race.cfg` | two finishes pass the check, the second UPDATE overwrites the first |
| `RetentionSparesProcessing` | `MessageQueue_race.cfg` | a message is claimed between retention's SELECT and its DELETE |
| `OneRunAtATime` | `Reactor_k8s.cfg` | two DMs both see no running run |
| `BudgetCap` | `Reactor_k8s.cfg`, `Budget = 1` | two DMs both see room in the budget |
| `RetryLimited` | `Reactor_k8s.cfg`, `Retries = {q1}` | a retry skips budget and cooldown |
| `NotForgotten` | `Reactor_k8s.cfg`, `HasCooldown = FALSE`, `Budget = 5` | a launch clears the flag another goroutine has just set |
| `CooldownRetry` | `Reactor_k8s.cfg`, `Backend = "harness"`, `Budget = 5` | nothing looks at `pending_work` when the cooldown ends |
| `FollowUpRun` | `Reactor_k8s.cfg`, `HasCooldown = FALSE`, `Budget = 5` | the flag is set after the run's end was handled |
| `HarnessRowUpdated` | `Reactor_k8s.cfg`, `Backend = "harness"` | the context that timed out is also the one the row is updated with |
| `PollerPicksUp` | `WebhookDelivery_retries.cfg`, `Owners = {}` | the log says "delivery queue full, delivery will be picked up by retry poller", which reads only `retrying` rows |
| `AddressBlocked` | `Identity.cfg`, `MaxUnasked = 4` | the consent page compares passwords without asking or telling the limiter |
| `OldKeyInvalid` | `Identity.cfg` | an update that read the agent before its key was revoked writes the old key back |
| `MembersFindMessages` | `Conversations.cfg` | the search asks for `to_agent = ''` where the column holds NULL |
| `DreamRunRecorded` | `Work.cfg` | the context of a dream run ends before the budget of its back end, and the row is finished on it |
| `AtMostThreeAttempts`, `DocumentedTransitions` | `WebhookDelivery_retries.cfg` | the poller enqueues a retry that is still in flight; the two answers overwrite each other |
| `DisabledIsQuiet` | `WebhookDelivery_retries.cfg`, `AutoDisableThreshold = 1` | work enqueued before the webhook was disabled is sent |
| `WebhookLimit` | `WebhookDelivery_retries.cfg`, `Webhooks = {w1, w2}`, `Registrars = {g1, g2}` | count, then insert |
| `TaskLifecycle` | `TaskAuction_auction.cfg` | the expiry worker cancels between the check and the UPDATE of an award |
| `OneWinner` | `TaskAuction_auction.cfg`, `AwardCalls = {w1, w2}`, `Tasks = {t1}` | two awards of one task |
| `OneLedgerRow` | `TaskAuction_auction.cfg`, `DoneCalls = {f1, f2}`, `Marketplace = {w1, f1, f2}`, `Tasks = {t1}` | two `mark_task_done` of one task |
| `LosersTold`, `WinnerTold` | `TaskAuction_auction.cfg`, `FairSpec`, no symmetry, `Tasks = {t1}` | a bid after the list was read; a restart before the DM |
| `BrokenCompleted` | `DreamWorker_jobs.cfg`, `MaxRestarts = 0` | the CHECK constraint refuses `circuit_broken`, the row keeps its slot |
| `InFlightTended`, `TokenOutlivesJob`, `DailyLimit` | `DreamWorker_jobs.cfg` | rows of a stopped server; a token that lapses behind a long job; one look at the gate for N jobs |
| `SupersededHidden`, `LoserNotListed`, `OneSurvivor`, `NoCycle`, `LinkExcludes`, `ClosedLog` | `MemoryTools_audit.cfg` | no status filter is wired into retrieval; the query leaves out the kept memory, not the loser; a pair is marked both ways; a failed job leaves its links; entries after the end of a job |
| `FilesRemoved` | `Conversations.cfg` | the clean-up of retention looks in `attachments/ab/`, the store writes to `attachments/ab/cd/`: no file of an expired message is ever removed |
| `ClaimedSpared` | `Conversations.cfg` | a message is claimed between the SELECT and its batch |
| `PacketWithinBudget` | `Conversations.cfg` | the core memory does not count against the budget |
| `BlocksUntilOver` | `Work.cfg` | one failed poll ends the wait for a Job that goes on |
| `HandlerLimit` | `Work.cfg` | count, then insert |
| `InterruptedResumes` | `Work.cfg` | nothing calls `ResetStale`: an item in `processing` stays there after a restart |

Other places where the code does less than a reader expects, each an exception named
in an invariant: a call that judged a goal before it was over reopens it
(`NothingReopened`); a creation of a goal that stops after the channel blocks its title
(`TitleUsable`); two processes that both find no key file leave secrets nobody can
read (`ListedIsReadable`); a purge that is refused a message deletes its attachments and
embedding (`RowsWithMessage`); a warning lands in the conversation of another insert
(`WarningsApart`); the state badge of `EnrichMessages` does not know `awarded`
(`EnrichmentAgrees`); what arrives between capture and deactivation is no dead letter, and
neither is anything when the capture fails, which is only logged (`LettersCaptured`); a web user who marks an
id as read that no message has yet (`notifications_handler.go:136` asks only that it is positive)
does not see the messages up to it (`NothingMissed`); a sender's metadata can make a memory a reply
to itself, to a later one or to none, so following links need not end (`LinksPointBack`);
`Transition` of `goaltasks/service.go:118` moves a task to `claimed` without an assignee, although
`specs/018-dynamic-agent-spawning/spec.md:213` (FR-005) wants an "atomic single-assignee claim" (`WorkHasAssignee`); the extra arguments of
a docker block come after the server's own `--env` and can replace them, and in a Job the agent's and
the request's variables can (`EnvReserved`); a start that stops or fails between deleting embeddings
and queueing the messages leaves messages that are never embedded again, although
`specs/004-embeddings-retention-inbox/spec.md:15` says "ALL existing embeddings are deleted and ALL messages are re-queued", and an
index file that cannot be read leaves rows without vectors (`NothingForgotten`, `EmbeddedIsIndexed`);
with a limit of up to 100 a message that both searches rank beyond 60 can come after one that only
one of them found (`MergeSound`); of a direct message between two agents of one user, `GetDMPartners`
(`store.go:745`) lists the receiver only, although the comment above the query (`store.go:734`) wants "ALL
conversation partners, including other owned agents" (`ViewsAgree`). `UpdateJobRunStatus`, `ResetStale`, `OnMessageDeleted`, `EvaluateBudget`,
`CancelTasksByChannel`, `DeleteChannel`, `CreateClient`, `CleanupExpired` of sessions and `Pin` have no
caller in production.

## 8. Not modelled

* *Errors of the database.* A statement succeeds, except where the code is written
  for its failure or goes on after it: the INSERT of a run after its Job was created (`Reactor`), a
  UNIQUE or CHECK constraint (`DreamWorker`, `MemoryTools`), the capture of dead letters
  (`AgentRegistry`), the statements of a start (`Embeddings`), a purge (`Retention`).
* *Message queue.* Messages to `system`, which the StalemateWorker leaves alone; its reminders and escalations, the time-out
  of 60 s of one round, the order by priority beyond the claim, attachments.
* *Reactor.* Refusals when no back end or runner is configured, the failure notice
  to the owner. They end an evaluation with a row like any other refusal.
* *Webhooks.* The token bucket of an agent (it delays a request), the checks of the
  URL, signatures.
* *Auction.* Membership of the auction channel is fixed; skill cards and reflections
  are wiki articles; cancelling a task has no caller.
* *Dream worker.* Whether the watermark is reached is an input, because counting
  unprocessed memories reads half the database; the counter of broken circuits,
  metrics and logs are left out.
* *Memory tools.* Bodies and reasons; a reflection has one source; a core memory
  above the cap is refused and leaves no trace.
* *Identity.* Hashes, signatures, scopes, redirect URIs and PKCE belong to bcrypt and
  fosite; the exchange with an identity provider is an input. Rate limits of the
  REST API other than the login limiter.
* *Conversations and channels.* Filters and sort orders of queries, text of messages,
  names and their validation; settings of channels have no effect the properties see.
* *Trust.* The decay over time is real arithmetic. Delegation caps and configuration
  hashes have no production caller.
* *Search.* Distances are floating-point numbers: the rankings that are merged are
  inputs.
* *Harness.* What the work does, options of images and volumes, contents of files.
* *Wiki.* Every edit is one transaction: no interleaving to look for.
* *Plugins.* A registry filled before the server accepts requests, and a restart of
  the whole process; the rest is the plugins' own code.
* *JavaScript pool.* One counting semaphore around a library.
* *A2A.* A message and a row that only the gateway reads.
* *Push, server-sent events, traces.* Delivery without acknowledgement; what is dropped
  leaves no state and no other part reads it.
* *Actions index, agent queries.* Read-only.
* *Wiring, storage, metrics, console, demonstrations, Web UI, dream agent, benchmark.*
  No state of their own, or clients outside the server.
