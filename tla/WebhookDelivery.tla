--------------------------- MODULE WebhookDelivery ---------------------------
(***************************************************************************)
(* The webhooks of one agent (internal/webhooks): registration, the rows   *)
(* of webhook_deliveries, the bounded queue, the workers that POST, the    *)
(* retry poller, dead letters and the restart of the engine.               *)
(*                                                                         *)
(* A delivery is one message to one webhook.  Times are abstract: `due`    *)
(* says that next_retry_at has passed.  Events carry depth 0: nothing that *)
(* sends messages sets MessageEvent.Depth, so the depth check never bites. *)
(***************************************************************************)
EXTENDS Integers, Sequences, FiniteSets

CONSTANTS
  Messages,             \* events for the agent, each dispatched by a goroutine
  Webhooks,             \* webhook ids
  Registered,           \* the webhooks that exist at first
  Registrars,           \* calls of register_webhook
  Owners,               \* requests POST /api/deliveries/{id}/retry
  Workers,              \* delivery workers
  None,                 \* no delivery
  QueueSize,            \* capacity of the channel
  RequeueLimit,         \* rows that requeuePending reads
  maxAttempts,
  MaxWebhooksPerAgent,
  AutoDisableThreshold,
  MaxRestarts           \* bound: how often the server is restarted

Deliveries == Messages \X Webhooks

ASSUME WebhookAssumption ==
  /\ IsFiniteSet(Workers) /\ Registered \subseteq Webhooks
  /\ None \notin Deliveries
  /\ QueueSize \in Nat /\ RequeueLimit \in Nat /\ MaxRestarts \in Nat
  /\ maxAttempts \in Nat \ {0} /\ MaxWebhooksPerAgent \in Nat /\ AutoDisableThreshold \in Nat \ {0}

VARIABLES
  hook,       \* webhooks.status; "none": not registered, "deleted"
  failures,   \* webhooks.consecutive_failures
  row,        \* webhook_deliveries.status; "none": not inserted, "gone": deleted
  attempts,   \* webhook_deliveries.attempts
  due,        \* next_retry_at <= now
  queue,      \* the channel: deliveries with the attempts counted so far
  fetched,    \* work read from the database and not yet put into the channel
  worker,     \* what each worker is at
  dispatched, \* messages whose event was dispatched
  todo,       \* webhooks a dispatching goroutine still has to insert rows for
  reg,        \* where each register_webhook call stands
  retry,      \* where each retry request stands
  sent,       \* requests made for a delivery, counted up to maxAttempts + 1
  cut,        \* attempts that were counted and whose request a restart cut off
  stranded,   \* pending deliveries whose work met a full channel or was not requeued
  restarts

tables == <<hook, failures, row, attempts, due>>
traces == <<sent, cut, stranded, restarts>>
vars   == <<tables, queue, fetched, worker, dispatched, todo, reg, retry, traces>>

HookOf(d) == d[2]
Work   == [d : Deliveries, n : Nat]
Idle   == [pc |-> "idle", d |-> None, n |-> 0]
Busy   == [pc : {"wait", "post", "sent", "reset", "count", "read", "disable"}, d : Deliveries, n : Nat]
NoRequest == [pc |-> "idle", d |-> None]
Exists(w) == hook[w] \in {"active", "disabled"}
Stored(d) == row[d] \notin {"none", "gone"}

Advance(k, label) == worker' = [worker EXCEPT ![k] = [pc |-> label, d |-> @.d, n |-> @.n]]
Rest(k) == worker' = [worker EXCEPT ![k] = Idle]

-----------------------------------------------------------------------------
(* Registration: the count and the INSERT are two statements. *)

RegisterCount(g) ==
  /\ reg[g] = "idle"
  /\ reg' = [reg EXCEPT ![g] =
       IF Cardinality({w \in Webhooks : Exists(w)}) >= MaxWebhooksPerAgent THEN "done" ELSE "insert"]
  /\ UNCHANGED <<tables, queue, fetched, worker, dispatched, todo, retry, traces>>

RegisterInsert(g, w) ==
  /\ reg[g] = "insert"
  /\ hook[w] = "none"
  /\ hook' = [hook EXCEPT ![w] = "active"]
  /\ reg'  = [reg EXCEPT ![g] = "done"]
  /\ UNCHANGED <<failures, row, attempts, due, queue, fetched, worker, dispatched, todo, retry, traces>>

\* The deliveries go with their webhook: ON DELETE CASCADE.
DeleteWebhook(w) ==
  /\ Exists(w)
  /\ hook' = [hook EXCEPT ![w] = "deleted"]
  /\ row'  = [d \in Deliveries |-> IF HookOf(d) = w /\ Stored(d) THEN "gone" ELSE row[d]]
  /\ UNCHANGED <<failures, attempts, due, queue, fetched, worker, dispatched, todo, reg, retry, traces>>

-----------------------------------------------------------------------------
(* Dispatch. *)

Dispatch(m) ==
  /\ m \notin dispatched
  /\ dispatched' = dispatched \cup {m}
  /\ todo' = [todo EXCEPT ![m] = {w \in Webhooks : hook[w] = "active"}]
  /\ UNCHANGED <<tables, queue, fetched, worker, reg, retry, traces>>

\* A non-blocking send: a full channel drops the work.
Enqueue(item) ==
  /\ queue' = IF Len(queue) < QueueSize THEN Append(queue, item) ELSE queue
  /\ stranded' = IF Len(queue) < QueueSize \/ row'[item.d] # "pending" THEN stranded
                                                                      ELSE stranded \cup {item.d}

\* The foreign key refuses the row of a webhook that was deleted meanwhile.
InsertDelivery(m, w) ==
  /\ w \in todo[m]
  /\ todo' = [todo EXCEPT ![m] = @ \ {w}]
  /\ IF Exists(w)
     THEN row' = [row EXCEPT ![<<m, w>>] = "pending"] /\ Enqueue([d |-> <<m, w>>, n |-> 0])
     ELSE UNCHANGED <<row, queue, stranded>>
  /\ UNCHANGED <<hook, failures, attempts, due, fetched, worker, dispatched, reg, retry, sent, cut, restarts>>

-----------------------------------------------------------------------------
(* The workers. *)

Take(k) ==
  /\ worker[k].pc = "idle"
  /\ queue # <<>>
  /\ worker' = [worker EXCEPT ![k] = [pc |-> "wait", d |-> Head(queue).d, n |-> Head(queue).n]]
  /\ queue' = Tail(queue)
  /\ UNCHANGED <<tables, fetched, dispatched, todo, reg, retry, traces>>

\* The rate limiter lets the worker go on: Attempts++, and the UPDATE.
CountAttempt(k) ==
  LET d == worker[k].d IN
  /\ worker[k].pc = "wait"
  /\ worker' = [worker EXCEPT ![k] = [pc |-> "post", d |-> d, n |-> @.n + 1]]
  /\ attempts' = IF Stored(d) THEN [attempts EXCEPT ![d] = worker[k].n + 1] ELSE attempts
  /\ UNCHANGED <<hook, failures, row, due, queue, fetched, dispatched, todo, reg, retry, traces>>

\* httpClient.Do: the request is made, whatever comes of it.
Post(k) ==
  /\ worker[k].pc = "post"
  /\ Advance(k, "sent")
  /\ sent' = [sent EXCEPT ![worker[k].d] = IF @ > maxAttempts THEN @ ELSE @ + 1]
  /\ UNCHANGED <<tables, queue, fetched, dispatched, todo, reg, retry, cut, stranded, restarts>>

\* The workers between the UPDATE and the request.
Posting(d) == {k \in Workers : worker[k].pc = "post" /\ worker[k].d = d}

\* UpdateDeliveryStatus: WHERE id = ? and nothing else.
UpdateDeliveryStatus(d, status) ==
  /\ row' = IF Stored(d) THEN [row EXCEPT ![d] = status] ELSE row
  /\ due' = [due EXCEPT ![d] = FALSE]

Delivered(k) ==
  /\ worker[k].pc = "sent"
  /\ UpdateDeliveryStatus(worker[k].d, "delivered")
  /\ Advance(k, "reset")
  /\ UNCHANGED <<hook, failures, attempts, queue, fetched, dispatched, todo, reg, retry, traces>>

RecordSuccess(k) ==
  /\ worker[k].pc = "reset"
  /\ failures' = [failures EXCEPT ![HookOf(worker[k].d)] = 0]
  /\ Rest(k)
  /\ UNCHANGED <<hook, row, attempts, due, queue, fetched, dispatched, todo, reg, retry, traces>>

\* Mutant: off by one in the comparison with MaxAttempts.
FailedEarly(k) ==
  /\ worker[k].pc = "sent"
  /\ LET last == worker[k].n + 1 >= maxAttempts IN
       /\ UpdateDeliveryStatus(worker[k].d, IF last THEN "dead_lettered" ELSE "retrying")
       /\ IF last THEN Advance(k, "count") ELSE Rest(k)
  /\ UNCHANGED <<hook, failures, attempts, queue, fetched, dispatched, todo, reg, retry, traces>>

\* recordFailure: any other answer, a time-out, or no connection.
Failed(k) ==
  /\ worker[k].pc = "sent"
  /\ LET last == worker[k].n >= maxAttempts IN
       /\ UpdateDeliveryStatus(worker[k].d, IF last THEN "dead_lettered" ELSE "retrying")
       /\ IF last THEN Advance(k, "count") ELSE Rest(k)
  /\ UNCHANGED <<hook, failures, attempts, queue, fetched, dispatched, todo, reg, retry, traces>>

\* RecordFailure: an UPDATE, a SELECT, and perhaps another UPDATE.
IncrementConsecutiveFailures(k) ==
  /\ worker[k].pc = "count"
  /\ failures' = [failures EXCEPT ![HookOf(worker[k].d)] =
                    IF Exists(HookOf(worker[k].d)) THEN @ + 1 ELSE @]
  /\ Advance(k, "read")
  /\ UNCHANGED <<hook, row, attempts, due, queue, fetched, dispatched, todo, reg, retry, traces>>

\* Mutant: the webhook is disabled only past the threshold.
ReadFailuresStrict(k) ==
  LET w == HookOf(worker[k].d) IN
  /\ worker[k].pc = "read"
  /\ IF Exists(w) /\ failures[w] > AutoDisableThreshold THEN Advance(k, "disable") ELSE Rest(k)
  /\ UNCHANGED <<tables, queue, fetched, dispatched, todo, reg, retry, traces>>

ReadFailures(k) ==
  LET w == HookOf(worker[k].d) IN
  /\ worker[k].pc = "read"
  /\ IF Exists(w) /\ failures[w] >= AutoDisableThreshold THEN Advance(k, "disable") ELSE Rest(k)
  /\ UNCHANGED <<tables, queue, fetched, dispatched, todo, reg, retry, traces>>

DisableWebhook(k) ==
  LET w == HookOf(worker[k].d) IN
  /\ worker[k].pc = "disable"
  /\ hook' = [hook EXCEPT ![w] = IF Exists(w) THEN "disabled" ELSE @]
  /\ Rest(k)
  /\ UNCHANGED <<failures, row, attempts, due, queue, fetched, dispatched, todo, reg, retry, traces>>

-----------------------------------------------------------------------------
(* The retry poller, and requeuePending at the start of the engine. *)

RetryDue(d) ==
  /\ row[d] = "retrying" /\ ~due[d]
  /\ due' = [due EXCEPT ![d] = TRUE]
  /\ UNCHANGED <<hook, failures, row, attempts, queue, fetched, worker, dispatched, todo, reg, retry, traces>>

WorkFor(ds) == {[d |-> x, n |-> attempts[x]] : x \in ds}

\* Mutant: the comparison with next_retry_at is the wrong way round.
ProcessRetriesInverted ==
  /\ fetched = {}
  /\ fetched' = WorkFor({d \in Deliveries : row[d] = "retrying" /\ ~due[d]})
  /\ fetched' # {}
  /\ UNCHANGED <<tables, queue, worker, dispatched, todo, reg, retry, traces>>

\* processRetries: the SELECT of GetRetryableDeliveries.
ProcessRetries ==
  /\ fetched = {}
  /\ fetched' = WorkFor({d \in Deliveries : row[d] = "retrying" /\ due[d]})
  /\ fetched' # {}
  /\ UNCHANGED <<tables, queue, worker, dispatched, todo, reg, retry, traces>>

\* One pass of the loop over the selected rows.
EnqueueFetched(item) ==
  /\ item \in fetched
  /\ fetched' = fetched \ {item}
  /\ UNCHANGED tables
  /\ IF Exists(HookOf(item.d)) THEN Enqueue(item) ELSE UNCHANGED <<queue, stranded>>
  /\ UNCHANGED <<worker, dispatched, todo, reg, retry, sent, cut, restarts>>

\* What a restart leaves of the goroutines, the channel and the requests.
Stopped ==
  /\ restarts < MaxRestarts
  /\ queue'   = <<>>
  /\ worker'  = [k \in Workers |-> Idle]
  /\ todo'    = [m \in Messages |-> {}]
  /\ reg'     = [g \in Registrars |-> "done"]
  /\ retry'   = [o \in Owners |-> [pc |-> "done", d |-> retry[o].d]]
  /\ cut'     = [d \in Deliveries |-> cut[d] + Cardinality(Posting(d))]
  /\ restarts' = restarts + 1
  /\ UNCHANGED <<tables, dispatched, sent>>

\* GetPendingDeliveries: the oldest pending rows, up to the limit.
OldestPending(oldest) ==
  LET pending == {d \in Deliveries : row[d] = "pending"} IN
  /\ oldest \subseteq pending
  /\ Cardinality(oldest) <= RequeueLimit
  /\ oldest = pending \/ Cardinality(oldest) = RequeueLimit
  /\ stranded' = pending \ oldest

\* Mutant: requeuePending reads the retrying rows, which the poller has anyway.
RestartRetryingOnly(oldest) ==
  /\ Stopped /\ OldestPending(oldest)
  /\ fetched' = WorkFor({d \in Deliveries : row[d] = "retrying"})

\* The goroutines and the channel are lost; requeuePending reads the oldest
\* pending rows.
Restart(oldest) ==
  /\ Stopped /\ OldestPending(oldest)
  /\ fetched' = WorkFor(oldest)

-----------------------------------------------------------------------------
(* The owner's retry of a dead letter, and the purge of old ones. *)

RetryDelivery(o, d) ==
  /\ retry[o].pc = "idle"
  /\ row[d] = "dead_lettered"
  /\ retry' = [retry EXCEPT ![o] = [pc |-> "status", d |-> d]]
  /\ UNCHANGED <<tables, queue, fetched, worker, dispatched, todo, reg, traces>>

RetrySetPending(o) ==
  /\ retry[o].pc = "status"
  /\ UpdateDeliveryStatus(retry[o].d, "pending")
  /\ retry' = [retry EXCEPT ![o].pc = IF Stored(retry[o].d) THEN "attempts" ELSE "done"]
  /\ stranded' = stranded \cup {d \in Deliveries : d = retry[o].d /\ Stored(d)}
  /\ UNCHANGED <<hook, failures, attempts, queue, fetched, worker, dispatched, todo, reg, sent, cut, restarts>>

RetryResetAttempts(o) ==
  /\ retry[o].pc = "attempts"
  /\ attempts' = IF Stored(retry[o].d) THEN [attempts EXCEPT ![retry[o].d] = 0] ELSE attempts
  /\ retry' = [retry EXCEPT ![o].pc = "done"]
  /\ UNCHANGED <<hook, failures, row, due, queue, fetched, worker, dispatched, todo, reg, traces>>

PurgeOldDeadLetters ==
  /\ \E d \in Deliveries : row[d] = "dead_lettered"
  /\ row' = [d \in Deliveries |-> IF row[d] = "dead_lettered" THEN "gone" ELSE row[d]]
  /\ UNCHANGED <<hook, failures, attempts, due, queue, fetched, worker, dispatched, todo, reg, retry, traces>>

-----------------------------------------------------------------------------
Init ==
  /\ hook = [w \in Webhooks |-> IF w \in Registered THEN "active" ELSE "none"]
  /\ failures = [w \in Webhooks |-> 0]
  /\ row = [d \in Deliveries |-> "none"]
  /\ attempts = [d \in Deliveries |-> 0]
  /\ due = [d \in Deliveries |-> FALSE]
  /\ queue = <<>> /\ fetched = {}
  /\ worker = [k \in Workers |-> Idle]
  /\ dispatched = {} /\ todo = [m \in Messages |-> {}]
  /\ reg = [g \in Registrars |-> "idle"]
  /\ retry = [o \in Owners |-> NoRequest]
  /\ sent = [d \in Deliveries |-> 0] /\ cut = [d \in Deliveries |-> 0]
  /\ stranded = {}
  /\ restarts = 0

WorkerStep(k) ==
  \/ Take(k) \/ CountAttempt(k) \/ Post(k) \/ Delivered(k) \/ RecordSuccess(k) \/ Failed(k)
  \/ IncrementConsecutiveFailures(k) \/ ReadFailures(k) \/ DisableWebhook(k)

Next ==
  \/ \E g \in Registrars : RegisterCount(g) \/ \E w \in Webhooks : RegisterInsert(g, w)
  \/ \E w \in Webhooks : DeleteWebhook(w)
  \/ \E m \in Messages : Dispatch(m) \/ \E w \in Webhooks : InsertDelivery(m, w)
  \/ \E k \in Workers : WorkerStep(k)
  \/ \E d \in Deliveries : RetryDue(d)
  \/ ProcessRetries
  \/ \E item \in fetched : EnqueueFetched(item)
  \/ \E o \in Owners : \/ \E d \in Deliveries : RetryDelivery(o, d)
                       \/ RetrySetPending(o) \/ RetryResetAttempts(o)
  \/ PurgeOldDeadLetters
  \/ \E oldest \in SUBSET Deliveries : Restart(oldest)

\* Workers and the poller's loop run, an answer or a time-out comes, and time
\* passes.  Nobody has to send, register, delete or retry.
Settling ==
  /\ \A d \in Deliveries : WF_vars(RetryDue(d))
  /\ \A m \in Messages : WF_vars(\E w \in Webhooks : InsertDelivery(m, w))
  /\ WF_vars(ProcessRetries) /\ WF_vars(\E item \in fetched : EnqueueFetched(item))
Fairness == Settling /\ \A k \in Workers : WF_vars(WorkerStep(k))

Spec     == Init /\ [][Next]_vars
FairSpec == Spec /\ Fairness

-----------------------------------------------------------------------------
\* Tables, channel, workers and requests keep their types.
TypeOK ==
  /\ hook \in [Webhooks -> {"none", "active", "disabled", "deleted"}]
  /\ failures \in [Webhooks -> Nat]
  /\ row \in [Deliveries -> {"none", "pending", "retrying", "delivered", "dead_lettered", "gone"}]
  /\ attempts \in [Deliveries -> Nat]
  /\ due \in [Deliveries -> BOOLEAN]
  /\ queue \in Seq(Work)
  /\ fetched \in SUBSET Work
  /\ worker \in [Workers -> {Idle} \cup Busy]
  /\ dispatched \in SUBSET Messages
  /\ todo \in [Messages -> SUBSET Webhooks]
  /\ reg \in [Registrars -> {"idle", "insert", "done"}]
  /\ retry \in [Owners -> [pc : {"idle", "status", "attempts", "done"}, d : Deliveries \cup {None}]]
  /\ sent \in [Deliveries -> 0..(maxAttempts + 1)]
  /\ cut \in [Deliveries -> Nat]
  /\ stranded \in SUBSET Deliveries
  /\ restarts \in 0..MaxRestarts

\* A delivery is given up only after maxAttempts requests, those included that a
\* worker has counted and is about to make, and those a restart cut off after the
\* UPDATE had counted them: duplicated work, retries with stale counts, manual
\* resets and restarts may add requests, and lose none in any other way.
DeadLetterEarned ==
  \A d \in Deliveries : row[d] = "dead_lettered" =>
    sent[d] + Cardinality(Posting(d)) + cut[d] >= maxAttempts

\* A webhook that has reached the threshold is disabled, or the worker that
\* counted the failure is about to do so; interleaved counts of two workers
\* cannot both miss the threshold.  (A restart in between may: the next failure
\* then disables it.)
AutoDisabled ==
  restarts = 0 => \A w \in Webhooks : hook[w] = "active" /\ failures[w] >= AutoDisableThreshold =>
    \E k \in Workers : worker[k].pc \in {"read", "disable"} /\ HookOf(worker[k].d) = w

\* Once retries have begun the delivery is seen through: it is delivered, dead-
\* lettered or deleted, across restarts and however often it is enqueued twice.
RetriesSettle ==
  \A d \in Deliveries : row[d] = "retrying" ~> row[d] # "retrying"

\* A delivery that was recorded is attempted: its row does not stay "pending"
\* unless its work met a full channel, was not among the rows requeuePending
\* reads, or the owner's retry set it to pending, which puts nothing into the
\* channel.  A restart between the INSERT and the attempt is made up for.
PendingSettles ==
  \A d \in Deliveries : row[d] = "pending" ~> (row[d] # "pending" \/ d \in stranded)

-----------------------------------------------------------------------------
(* What the documentation says and the code does not do. *)

\* specs/003-webhooks-k8s-runner/spec.md, SC-005: a failing endpoint receives
\* exactly 3 attempts.
AtMostThreeAttempts == \A d \in Deliveries : sent[d] <= maxAttempts

\* specs/003-webhooks-k8s-runner/data-model.md: the state transitions of a
\* delivery; none leaves "delivered", and "dead_lettered" only goes to "pending".
DocumentedTransitions ==
  [][\A d \in Deliveries :
       /\ row[d] = "delivered" => row'[d] \in {"delivered", "gone"}
       /\ row[d] = "dead_lettered" => row'[d] \in {"dead_lettered", "pending", "gone"}]_vars

\* delivery.go:229, when the channel is full: "delivery will be picked up by
\* retry poller".  The poller reads retrying rows only.
PollerPicksUp == \A d \in Deliveries : row[d] = "pending" ~> row[d] # "pending"

\* SC-006: a disabled webhook is sent nothing.
DisabledIsQuiet ==
  [][\A k \in Workers : Post(k) => hook[HookOf(worker[k].d)] # "disabled"]_vars

\* FR-002: at most 3 webhooks per agent.
WebhookLimit == Cardinality({w \in Webhooks : Exists(w)}) <= MaxWebhooksPerAgent

=============================================================================
