----------------------- MODULE WebhookDeliveryProofs -----------------------
(***************************************************************************)
(* Proofs about WebhookDelivery for any number of messages, webhooks,      *)
(* workers and restarts, and any channel size: types, dead letters only    *)
(* after maxAttempts requests, none missing but for those a restart cut     *)
(* off, and no missed threshold.                                           *)
(***************************************************************************)
EXTENDS WebhookDelivery, SequenceTheorems, FiniteSetTheorems, TLAPS

\* The requests for a delivery: made, about to be made, or cut off by a restart.
asked == [d \in Deliveries |-> sent[d] + Cardinality(Posting(d)) + cut[d]]

\* n does not exceed the requests for d (those made are counted up to
\* maxAttempts + 1).
Covered(n, d) == n <= asked[d] \/ sent[d] > maxAttempts

\* Every copy of an attempt count, in the table, in the channel, read by the
\* poller or held by a worker, is covered by requests that were really made.
Counted ==
  /\ \A d \in Deliveries : Covered(attempts[d], d)
  /\ \A i \in 1..Len(queue) : Covered(queue[i].n, queue[i].d)
  /\ \A item \in fetched : Covered(item.n, item.d)
  /\ \A k \in Workers : worker[k].pc \in {"wait", "post", "sent"} => Covered(worker[k].n, worker[k].d)

\* DeadLetterEarned, in these terms.
Earned == \A d \in Deliveries : row[d] = "dead_lettered" => asked[d] >= maxAttempts

\* A webhook that is not registered has no failures.
Fresh == \A w \in Webhooks : hook[w] = "none" => failures[w] = 0

IndInv == TypeOK /\ Counted /\ Earned

-----------------------------------------------------------------------------
\* The initial state satisfies the inductive invariant.
LEMMA InitInv == Init => IndInv /\ Fresh /\ AutoDisabled
  <1> SUFFICES ASSUME Init PROVE IndInv /\ Fresh /\ AutoDisabled
    OBVIOUS
  <1>1. TypeOK
    BY WebhookAssumption DEF Init, TypeOK, NoRequest
  <1>a. \A d \in Deliveries : asked[d] = 0
    <2>1. \A d \in Deliveries : Posting(d) = {}
      BY DEF Init, Posting, Idle
    <2>2. \A d \in Deliveries : Cardinality(Posting(d)) = 0
      BY <2>1, FS_EmptySet
    <2>3. \A d \in Deliveries : sent[d] = 0 /\ cut[d] = 0
      BY DEF Init
    <2> QED
      BY <2>2, <2>3 DEF asked
  <1>2. Counted /\ Earned
    BY <1>1, <1>a, WebhookAssumption DEF Init, TypeOK, Counted, Covered, Earned, Idle
  <1>3. Fresh /\ AutoDisabled
    BY WebhookAssumption DEF Init, Fresh, AutoDisabled
  <1> QED
    BY <1>1, <1>2, <1>3 DEF IndInv

\* A delivery belongs to a webhook.
LEMMA HookType == ASSUME NEW d \in Deliveries PROVE HookOf(d) \in Webhooks
  BY DEF Deliveries, HookOf

\* The channel after a non-blocking send holds what it held and, perhaps, the
\* new work.
LEMMA EnqueueSpec ==
  ASSUME queue \in Seq(Work), NEW item \in Work, Enqueue(item)
  PROVE  /\ queue' \in Seq(Work)
         /\ \A i \in 1..Len(queue') :
              \/ queue'[i] = item
              \/ i \in 1..Len(queue) /\ queue'[i] = queue[i]
  <1>1. CASE queue' = queue
    BY <1>1
  <1>2. CASE queue' = Append(queue, item)
    <2>1. queue' \in Seq(Work) /\ Len(queue') = Len(queue) + 1 /\ Len(queue) \in Nat
      BY <1>2
    <2>2. \A i \in 1..Len(queue) : queue'[i] = queue[i]
      BY <1>2
    <2>3. queue'[Len(queue) + 1] = item
      BY <1>2
    <2> QED
      BY <2>1, <2>2, <2>3
  <1> QED
    BY <1>1, <1>2 DEF Enqueue

\* What a worker takes was in the channel, and the rest stays.
LEMMA TakeSpec ==
  ASSUME queue \in Seq(Work), queue # <<>>, queue' = Tail(queue)
  PROVE  /\ Head(queue) \in Work /\ 1 \in 1..Len(queue) /\ Head(queue) = queue[1]
         /\ queue' \in Seq(Work)
         /\ \A i \in 1..Len(queue') : i + 1 \in 1..Len(queue) /\ queue'[i] = queue[i + 1]
  <1>1. Len(queue) \in Nat /\ Len(queue) > 0 /\ Len(queue') = Len(queue) - 1
    BY HeadTailProperties, EmptySeq
  <1>2. \A i \in 1..Len(queue') : i + 1 \in 1..Len(queue) /\ queue'[i] = queue[i + 1]
    BY <1>1
  <1> QED
    BY <1>1, <1>2

\* A worker that is not idle holds a delivery.
LEMMA BusyWorker ==
  ASSUME TypeOK, NEW k \in Workers, worker[k].pc # "idle"
  PROVE  worker[k] \in Busy /\ worker[k].d \in Deliveries /\ worker[k].n \in Nat
  BY DEF TypeOK, Idle, Busy

\* A worker that goes on with its delivery is busy.
LEMMA AdvanceType ==
  ASSUME TypeOK, NEW k \in Workers, worker[k].d \in Deliveries, worker[k].n \in Nat,
         NEW label \in {"sent", "reset", "count", "read", "disable"}, Advance(k, label)
  PROVE  worker' \in [Workers -> {Idle} \cup Busy]
  <1>1. [pc |-> label, d |-> worker[k].d, n |-> worker[k].n] \in Busy
    BY DEF Busy
  <1> QED
    BY <1>1 DEF TypeOK, Advance

\* A worker that is done is idle.
LEMMA RestType ==
  ASSUME TypeOK, NEW k \in Workers, Rest(k)
  PROVE  worker' \in [Workers -> {Idle} \cup Busy]
  BY DEF TypeOK, Rest

\* The requests for a delivery are finitely many.
LEMMA AskedType ==
  ASSUME TypeOK
  PROVE  /\ \A d \in Deliveries : IsFiniteSet(Posting(d)) /\ Cardinality(Posting(d)) \in Nat
         /\ asked \in [Deliveries -> Nat]
         /\ \A d \in Deliveries : asked[d] = sent[d] + Cardinality(Posting(d)) + cut[d]
  <1>1. ASSUME NEW d \in Deliveries PROVE IsFiniteSet(Posting(d)) /\ Cardinality(Posting(d)) \in Nat
    <2>1. Posting(d) \in SUBSET Workers
      BY DEF Posting
    <2> QED
      BY <2>1, FS_Subset, FS_CardinalityType, WebhookAssumption
  <1>2. \A d \in Deliveries : sent[d] \in Nat /\ cut[d] \in Nat
    BY WebhookAssumption DEF TypeOK
  <1>3. \A d \in Deliveries : sent[d] + Cardinality(Posting(d)) + cut[d] \in Nat
    BY <1>1, <1>2
  <1> QED
    BY <1>1, <1>3 DEF asked

\* The same of the state a step leads to.
LEMMA LaterPosting == \A d \in Deliveries : Cardinality(Posting(d)') \in Nat
  <1>1. \A d \in Deliveries : Posting(d)' \in SUBSET Workers
    BY DEF Posting
  <1> QED
    BY <1>1, FS_Subset, FS_CardinalityType, WebhookAssumption

\* A step that moves no worker from or to the request leaves them as they are.
LEMMA AskedStays ==
  ASSUME UNCHANGED <<sent, cut>>,
         \A k \in Workers : worker'[k] = worker[k] \/ (worker[k].pc # "post" /\ worker'[k].pc # "post")
  PROVE  asked' = asked
  <1>1. \A d \in Deliveries : Posting(d)' = Posting(d)
    BY DEF Posting
  <1> QED
    BY <1>1 DEF asked

\* Every step keeps the types.
LEMMA StepType == TypeOK /\ [Next]_vars => TypeOK'
  <1> SUFFICES ASSUME TypeOK, [Next]_vars PROVE TypeOK'
    OBVIOUS
  <1> USE WebhookAssumption DEF traces
  <1>1. ASSUME NEW g \in Registrars, RegisterCount(g)
         PROVE  TypeOK'
    BY <1>1 DEF TypeOK, tables, Exists, RegisterCount
  <1>2. ASSUME NEW g \in Registrars, NEW w \in Webhooks, RegisterInsert(g, w)
         PROVE  TypeOK'
    BY <1>2 DEF TypeOK, RegisterInsert
  <1>3. ASSUME NEW w \in Webhooks, DeleteWebhook(w)
         PROVE  TypeOK'
    BY <1>3 DEF TypeOK, Exists, Stored, DeleteWebhook
  <1>4. ASSUME NEW m \in Messages, Dispatch(m)
         PROVE  TypeOK'
    BY <1>4 DEF TypeOK, tables, Dispatch
  <1>5. ASSUME NEW m \in Messages, NEW w \in Webhooks, InsertDelivery(m, w)
         PROVE  TypeOK'
    <2>1. <<m, w>> \in Deliveries /\ [d |-> <<m, w>>, n |-> 0] \in Work
      BY DEF Deliveries, Work
    <2>2. queue' \in Seq(Work)
      BY <1>5, <2>1, EnqueueSpec DEF TypeOK, InsertDelivery
    <2>3. stranded' \in SUBSET Deliveries
      <3>1. stranded' = stranded \/ stranded' = stranded \cup {<<m, w>>}
        BY <1>5 DEF InsertDelivery, Enqueue
      <3> QED
        BY <2>1, <3>1 DEF TypeOK
    <2> QED
      BY <1>5, <2>1, <2>2, <2>3 DEF TypeOK, InsertDelivery
  <1>6. ASSUME NEW k \in Workers, Take(k)
         PROVE  TypeOK'
    <2>1. Head(queue).d \in Deliveries /\ Head(queue).n \in Nat /\ queue' \in Seq(Work)
      BY <1>6, TakeSpec DEF TypeOK, Take, Work
    <2>2. worker' \in [Workers -> {Idle} \cup Busy]
      BY <1>6, <2>1 DEF TypeOK, Take, Busy
    <2> QED
      BY <1>6, <2>1, <2>2 DEF TypeOK, tables, Take
  <1>7. ASSUME NEW k \in Workers, CountAttempt(k)
         PROVE  TypeOK'
    BY <1>7, SMTT(30) DEF TypeOK, Idle, Busy, Stored, CountAttempt
  <1>23. ASSUME NEW k \in Workers, Post(k)
         PROVE  TypeOK'
    <2>1. worker[k].d \in Deliveries /\ worker[k].n \in Nat
      BY <1>23, BusyWorker DEF Post
    <2>2. worker' \in [Workers -> {Idle} \cup Busy]
      BY <1>23, <2>1, AdvanceType DEF Post
    <2>3. sent' \in [Deliveries -> 0..(maxAttempts + 1)]
      BY <1>23, <2>1 DEF TypeOK, Post
    <2> QED
      BY <1>23, <2>2, <2>3 DEF TypeOK, tables, Post
  <1>8. ASSUME NEW k \in Workers, Delivered(k)
         PROVE  TypeOK'
    BY <1>8 DEF TypeOK, Advance, Idle, Busy, Stored, Delivered, UpdateDeliveryStatus
  <1>9. ASSUME NEW k \in Workers, RecordSuccess(k)
         PROVE  TypeOK'
    BY <1>9 DEF TypeOK, Rest, Idle, Busy, RecordSuccess, HookOf
  <1>10. ASSUME NEW k \in Workers, Failed(k)
         PROVE  TypeOK'
    <2>1. worker[k].d \in Deliveries /\ worker[k].n \in Nat
      BY <1>10, BusyWorker DEF Failed
    <2>2. worker' \in [Workers -> {Idle} \cup Busy]
      <3>1. Advance(k, "count") \/ Rest(k)
        BY <1>10 DEF Failed
      <3> QED
        BY <2>1, <3>1, AdvanceType, RestType
    <2>3. PICK status \in {"dead_lettered", "retrying"} : UpdateDeliveryStatus(worker[k].d, status)
      BY <1>10 DEF Failed
    <2>4. /\ row' \in [Deliveries -> {"none", "pending", "retrying", "delivered", "dead_lettered", "gone"}]
          /\ due' \in [Deliveries -> BOOLEAN]
      BY <2>1, <2>3 DEF TypeOK, UpdateDeliveryStatus
    <2> QED
      BY <1>10, <2>2, <2>4 DEF TypeOK, Failed
  <1>11. ASSUME NEW k \in Workers, IncrementConsecutiveFailures(k)
         PROVE  TypeOK'
    <2>1. HookOf(worker[k].d) \in Webhooks /\ worker[k].d \in Deliveries /\ worker[k].n \in Nat
      BY <1>11, BusyWorker, HookType DEF IncrementConsecutiveFailures
    <2>2. worker' \in [Workers -> {Idle} \cup Busy]
      BY <1>11, <2>1 DEF TypeOK, IncrementConsecutiveFailures, Advance, Busy
    <2>3. failures' \in [Webhooks -> Nat]
      BY <1>11, <2>1 DEF TypeOK, IncrementConsecutiveFailures
    <2> QED
      BY <1>11, <2>2, <2>3 DEF TypeOK, IncrementConsecutiveFailures
  <1>12. ASSUME NEW k \in Workers, ReadFailures(k)
         PROVE  TypeOK'
    <2>1. worker[k].d \in Deliveries /\ worker[k].n \in Nat
      BY <1>12, BusyWorker DEF ReadFailures
    <2>2. Advance(k, "disable") \/ Rest(k)
      BY <1>12 DEF ReadFailures
    <2>3. worker' \in [Workers -> {Idle} \cup Busy]
      BY <2>1, <2>2, AdvanceType, RestType
    <2> QED
      BY <1>12, <2>3 DEF TypeOK, tables, ReadFailures
  <1>13. ASSUME NEW k \in Workers, DisableWebhook(k)
         PROVE  TypeOK'
    BY <1>13 DEF TypeOK, Rest, Idle, Busy, Exists, DisableWebhook, HookOf
  <1>14. ASSUME NEW d \in Deliveries, RetryDue(d)
         PROVE  TypeOK'
    BY <1>14 DEF TypeOK, RetryDue
  <1>15. ASSUME ProcessRetries
         PROVE  TypeOK'
    BY <1>15 DEF TypeOK, tables, Work, ProcessRetries, WorkFor
  <1>16. ASSUME NEW item \in fetched, EnqueueFetched(item)
         PROVE  TypeOK'
    <2>1. item \in Work
      BY DEF TypeOK
    <2>2. queue' \in Seq(Work)
      BY <1>16, <2>1, EnqueueSpec DEF TypeOK, EnqueueFetched
    <2>3. stranded' \in SUBSET Deliveries
      BY <1>16, <2>1 DEF TypeOK, EnqueueFetched, Enqueue, Work
    <2> QED
      BY <1>16, <2>2, <2>3 DEF TypeOK, tables, EnqueueFetched
  <1>17. ASSUME NEW o \in Owners, NEW d \in Deliveries, RetryDelivery(o, d)
         PROVE  TypeOK'
    BY <1>17 DEF TypeOK, tables, RetryDelivery
  <1>18. ASSUME NEW o \in Owners, RetrySetPending(o)
         PROVE  TypeOK'
    <2>1. retry' \in [Owners -> [pc : {"idle", "status", "attempts", "done"}, d : Deliveries \cup {None}]]
      <3>1. PICK label \in {"attempts", "done"} : retry' = [retry EXCEPT ![o].pc = label]
        BY <1>18 DEF RetrySetPending
      <3> QED
        BY <3>1, ZenonT(40) DEF TypeOK
    <2>2. /\ row' \in [Deliveries -> {"none", "pending", "retrying", "delivered", "dead_lettered", "gone"}]
          /\ due' \in [Deliveries -> BOOLEAN]
      BY <1>18 DEF TypeOK, RetrySetPending, UpdateDeliveryStatus
    <2>3. stranded' \in SUBSET Deliveries
      BY <1>18 DEF TypeOK, RetrySetPending
    <2> QED
      BY <1>18, <2>1, <2>2, <2>3 DEF TypeOK, RetrySetPending
  <1>19. ASSUME NEW o \in Owners, RetryResetAttempts(o)
         PROVE  TypeOK'
    BY <1>19, ZenonT(40) DEF TypeOK, Stored, RetryResetAttempts
  <1>20. ASSUME PurgeOldDeadLetters
         PROVE  TypeOK'
    BY <1>20 DEF TypeOK, PurgeOldDeadLetters
  <1>21. ASSUME NEW oldest \in SUBSET Deliveries, Restart(oldest)
         PROVE  TypeOK'
    <2>1. cut' \in [Deliveries -> Nat]
      BY <1>21, AskedType DEF TypeOK, Restart, Stopped
    <2>2. stranded' \in SUBSET Deliveries /\ fetched' \in SUBSET Work
      BY <1>21 DEF TypeOK, Restart, OldestPending, WorkFor, Work
    <2>3. retry' \in [Owners -> [pc : {"idle", "status", "attempts", "done"}, d : Deliveries \cup {None}]]
      BY <1>21 DEF TypeOK, Restart, Stopped
    <2>4. /\ worker' \in [Workers -> {Idle} \cup Busy] /\ queue' \in Seq(Work)
          /\ todo' \in [Messages -> SUBSET Webhooks] /\ reg' \in [Registrars -> {"idle", "insert", "done"}]
          /\ restarts' \in 0..MaxRestarts
      BY <1>21 DEF TypeOK, Restart, Stopped
    <2> QED
      BY <1>21, <2>1, <2>2, <2>3, <2>4 DEF TypeOK, tables, Restart, Stopped
  <1>22. ASSUME UNCHANGED vars
         PROVE  TypeOK'
    BY <1>22 DEF TypeOK, tables, vars
  <1> QED
    BY <1>1, <1>2, <1>3, <1>4, <1>5, <1>6, <1>7, <1>8, <1>9, <1>10, <1>11, <1>12, <1>13, <1>14, <1>15, <1>16, <1>17, <1>18, <1>19, <1>20, <1>21, <1>22, <1>23 DEF Next, WorkerStep

\* An attempt that is counted is one more request to come.
LEMMA CountAdds ==
  ASSUME TypeOK, NEW k \in Workers, CountAttempt(k)
  PROVE  /\ worker[k].d \in Deliveries /\ asked'[worker[k].d] = asked[worker[k].d] + 1
         /\ \A x \in Deliveries : x # worker[k].d => asked'[x] = asked[x]
  <1>0. PICK d \in Deliveries : d = worker[k].d
    BY BusyWorker DEF CountAttempt
  <1>1. worker[k].n \in Nat /\ worker[k].pc = "wait"
    BY BusyWorker DEF CountAttempt
  <1>2. worker'[k].pc = "post" /\ worker'[k].d = d /\ worker'[k].n = worker[k].n + 1
    BY <1>0 DEF CountAttempt, TypeOK
  <1>3. \A l \in Workers \ {k} : worker'[l] = worker[l]
    BY DEF CountAttempt, TypeOK
  <1>4. /\ \A x \in Deliveries : x # d => Posting(x)' = Posting(x)
        /\ k \notin Posting(d) /\ Posting(d)' = Posting(d) \cup {k}
    BY <1>0, <1>1, <1>2, <1>3 DEF Posting
  <1>5. Cardinality(Posting(d)') = Cardinality(Posting(d)) + 1
    BY <1>1, <1>4, AskedType, FS_AddElement
  <1>6. sent' = sent /\ cut' = cut
    BY DEF CountAttempt, traces
  <1>7. /\ asked'[d] = asked[d] + 1
        /\ \A x \in Deliveries : x # d => asked'[x] = asked[x]
    <2>1. \A x \in Deliveries : asked[x] = sent[x] + Cardinality(Posting(x)) + cut[x]
      BY AskedType
    <2>2. \A x \in Deliveries : asked'[x] = sent'[x] + Cardinality(Posting(x)') + cut'[x]
      BY DEF asked
    <2>a. asked'[d] = sent'[d] + Cardinality(Posting(d)') + cut'[d]
      BY <2>2
    <2>3. asked'[d] = sent[d] + (Cardinality(Posting(d)) + 1) + cut[d]
      BY <1>5, <1>6, <2>a
    <2>4. sent[d] \in Nat /\ Cardinality(Posting(d)) \in Nat /\ cut[d] \in Nat
      BY <1>1, AskedType DEF TypeOK
    <2>5. asked'[d] = asked[d] + 1
      BY <1>1, <2>1, <2>3, <2>4
    <2> QED
      BY <1>4, <1>6, <2>1, <2>2, <2>5
  <1> QED
    BY <1>0, <1>7

\* The request that was to come is made.
LEMMA PostKeeps ==
  ASSUME TypeOK, NEW k \in Workers, Post(k)
  PROVE  \A x \in Deliveries : asked'[x] = asked[x] \/ sent'[x] > maxAttempts
  <1> USE WebhookAssumption
  <1>1. worker[k].d \in Deliveries /\ worker[k].n \in Nat /\ worker[k].pc = "post"
    BY BusyWorker DEF Post
  <1>2. PICK d \in Deliveries : d = worker[k].d
    BY <1>1
  <1>3. worker'[k].pc = "sent" /\ worker'[k].d = d /\ worker'[k].n = worker[k].n
    BY <1>2 DEF Post, Advance, TypeOK
  <1>4. \A l \in Workers \ {k} : worker'[l] = worker[l]
    BY DEF Post, Advance, TypeOK
  <1>5. /\ \A x \in Deliveries : x # d => Posting(x)' = Posting(x)
        /\ k \in Posting(d) /\ Posting(d)' = Posting(d) \ {k}
    BY <1>1, <1>2, <1>3, <1>4 DEF Posting
  <1>6. Cardinality(Posting(d)') = Cardinality(Posting(d)) - 1
    BY <1>5, AskedType, FS_RemoveElement
  <1>7. /\ cut' = cut /\ sent'[d] = (IF sent[d] > maxAttempts THEN sent[d] ELSE sent[d] + 1)
        /\ \A x \in Deliveries : x # d => sent'[x] = sent[x]
    BY <1>2 DEF Post, TypeOK
  <1>8. /\ sent[d] > maxAttempts => sent'[d] > maxAttempts
        /\ ~(sent[d] > maxAttempts) => asked'[d] = asked[d]
        /\ \A x \in Deliveries : x # d => asked'[x] = asked[x]
    <2>1. \A x \in Deliveries : asked[x] = sent[x] + Cardinality(Posting(x)) + cut[x]
      BY AskedType
    <2>2. \A x \in Deliveries : asked'[x] = sent'[x] + Cardinality(Posting(x)') + cut'[x]
      BY DEF asked
    <2>3. \A x \in Deliveries : x # d => asked'[x] = asked[x]
      BY <1>5, <1>7, <2>1, <2>2
    <2>4. asked'[d] = sent'[d] + (Cardinality(Posting(d)) - 1) + cut[d]
      BY <1>6, <1>7, <2>2
    <2>5. sent[d] \in Nat /\ Cardinality(Posting(d)) \in Nat /\ cut[d] \in Nat
      BY AskedType DEF TypeOK
    <2>6. ~(sent[d] > maxAttempts) => asked'[d] = asked[d]
      BY <1>7, <2>1, <2>4, <2>5
    <2> QED
      BY <1>7, <2>3, <2>6
  <1> QED
    BY <1>8

\* A restart cuts off the requests that were to come.
LEMMA RestartKeeps ==
  ASSUME TypeOK, NEW oldest \in SUBSET Deliveries, Restart(oldest)
  PROVE  asked' = asked
  <1>0. sent' = sent /\ worker' = [k \in Workers |-> Idle]
    BY DEF Restart, Stopped
  <1>1. \A d \in Deliveries : Posting(d)' = {}
    BY <1>0 DEF Posting, Idle
  <1>2. \A d \in Deliveries : cut'[d] = cut[d] + Cardinality(Posting(d))
    BY DEF Restart, Stopped
  <1>3. \A d \in Deliveries : sent[d] \in Nat /\ cut[d] \in Nat /\ Cardinality(Posting(d)) \in Nat
    BY AskedType DEF TypeOK
  <1>4. \A d \in Deliveries : sent'[d] + Cardinality(Posting(d)') + cut'[d] = sent[d] + Cardinality(Posting(d)) + cut[d]
    <2>1. \A d \in Deliveries : Cardinality(Posting(d)') = 0
      BY <1>1, FS_EmptySet
    <2> QED
      BY <1>0, <1>2, <1>3, <2>1
  <1> QED
    BY <1>4 DEF asked

\* Every step keeps the counts covered.
LEMMA StepCounted == TypeOK /\ TypeOK' /\ Counted /\ [Next]_vars => Counted'
  <1> SUFFICES ASSUME TypeOK, TypeOK', Counted, [Next]_vars PROVE Counted'
    OBVIOUS
  <1> USE WebhookAssumption DEF traces
  <1>0. \A d \in Deliveries : asked[d] \in Nat
    BY AskedType
  <1>1. ASSUME NEW g \in Registrars, RegisterCount(g)
         PROVE  Counted'
    <2>a. asked' = asked
      BY <1>1, AskedStays DEF RegisterCount
    <2> QED
      BY <1>0, <1>1, <2>a DEF Counted, Covered, TypeOK, tables, Exists, RegisterCount
  <1>2. ASSUME NEW g \in Registrars, NEW w \in Webhooks, RegisterInsert(g, w)
         PROVE  Counted'
    <2>a. asked' = asked
      BY <1>2, AskedStays DEF RegisterInsert
    <2> QED
      BY <1>0, <1>2, <2>a DEF Counted, Covered, TypeOK, RegisterInsert
  <1>3. ASSUME NEW w \in Webhooks, DeleteWebhook(w)
         PROVE  Counted'
    <2>a. asked' = asked
      BY <1>3, AskedStays DEF DeleteWebhook
    <2> QED
      BY <1>0, <1>3, <2>a DEF Counted, Covered, TypeOK, Exists, Stored, DeleteWebhook
  <1>4. ASSUME NEW m \in Messages, Dispatch(m)
         PROVE  Counted'
    <2>a. asked' = asked
      BY <1>4, AskedStays DEF Dispatch
    <2> QED
      BY <1>0, <1>4, <2>a DEF Counted, Covered, TypeOK, tables, Dispatch
  <1>5. ASSUME NEW m \in Messages, NEW w \in Webhooks, InsertDelivery(m, w)
         PROVE  Counted'
    <2>a. asked' = asked
      BY <1>5, AskedStays DEF InsertDelivery
    <2>1. <<m, w>> \in Deliveries /\ [d |-> <<m, w>>, n |-> 0] \in Work
      BY DEF Deliveries, Work
    <2>2. sent[<<m, w>>] \in 0..(maxAttempts + 1)
      BY <2>1 DEF TypeOK
    <2>3. \A i \in 1..Len(queue') : Covered(queue'[i].n, queue'[i].d)
      <3>1. CASE Enqueue([d |-> <<m, w>>, n |-> 0])
        <4>1. Covered(0, <<m, w>>)
          BY <1>0, <2>1 DEF Covered
        <4>2. \A i \in 1..Len(queue) : Covered(queue[i].n, queue[i].d)
          BY DEF Counted
        <4>3. \A i \in 1..Len(queue') :
                \/ queue'[i] = [d |-> <<m, w>>, n |-> 0]
                \/ i \in 1..Len(queue) /\ queue'[i] = queue[i]
          BY <2>1, <3>1, EnqueueSpec DEF TypeOK
        <4> QED
          BY <4>1, <4>2, <4>3
      <3>2. CASE queue' = queue
        BY <3>2 DEF Counted
      <3> QED
        BY <1>5, <3>1, <3>2 DEF InsertDelivery
    <2> QED
      BY <1>0, <1>5, <2>a, <2>3 DEF Counted, Covered, InsertDelivery
  <1>6. ASSUME NEW k \in Workers, Take(k)
         PROVE  Counted'
    <2>a. asked' = asked
      BY <1>6, AskedStays DEF Take, TypeOK
    <2>1. Covered(Head(queue).n, Head(queue).d)
      BY <1>6, TakeSpec DEF Counted, TypeOK, Take
    <2>2. \A i \in 1..Len(queue') : Covered(queue'[i].n, queue'[i].d)
      <3>1. \A i \in 1..Len(queue') : i + 1 \in 1..Len(queue) /\ queue'[i] = queue[i + 1]
        BY <1>6, TakeSpec DEF TypeOK, Take
      <3> QED
        BY <3>1 DEF Counted
    <2> QED
      BY <1>0, <1>6, <2>a, <2>1, <2>2 DEF Counted, Covered, TypeOK, tables, Take
  <1>7. ASSUME NEW k \in Workers, CountAttempt(k)
         PROVE  Counted'
    <2> DEFINE d == worker[k].d
    <2>1. d \in Deliveries /\ worker[k].n \in Nat /\ worker[k].pc = "wait"
      BY <1>7, BusyWorker DEF CountAttempt
    <2>2. /\ worker'[k].pc = "post" /\ worker'[k].d = d /\ worker'[k].n = worker[k].n + 1
          /\ sent' = sent
      BY <1>7 DEF CountAttempt, TypeOK
    <2>3. \A l \in Workers \ {k} : worker'[l] = worker[l]
      BY <1>7 DEF CountAttempt, TypeOK
    <2>7. asked'[d] = asked[d] + 1 /\ \A x \in Deliveries : x # d => asked'[x] = asked[x]
      BY <1>7, CountAdds
    <2> DEFINE After(n, x) == n <= asked'[x] \/ sent'[x] > maxAttempts
    <2>8. After(worker[k].n + 1, d)
      BY <1>0, <2>1, <2>2, <2>7 DEF Counted, Covered
    <2>9. \A n \in Nat, x \in Deliveries : Covered(n, x) => After(n, x)
      BY <1>0, <2>1, <2>2, <2>7 DEF Covered
    <2> HIDE DEF After
    <2>10. \A x \in Deliveries : After(attempts'[x], x)
      <3>1. \A x \in Deliveries : attempts'[x] = attempts[x] \/ (x = d /\ attempts'[x] = worker[k].n + 1)
        BY <1>7, <2>1 DEF CountAttempt, TypeOK
      <3>2. \A x \in Deliveries : attempts[x] \in Nat /\ Covered(attempts[x], x)
        BY DEF Counted, TypeOK
      <3> QED
        BY <2>8, <2>9, <3>1, <3>2
    <2>11. \A i \in 1..Len(queue') : After(queue'[i].n, queue'[i].d)
      <3>1. \A i \in 1..Len(queue) : queue[i] \in Work
        BY DEF TypeOK
      <3> QED
        BY <1>7, <2>9, <3>1 DEF CountAttempt, Counted, Work
    <2>12. \A item \in fetched' : After(item.n, item.d)
      BY <1>7, <2>9 DEF CountAttempt, Counted, TypeOK, Work
    <2>13. \A l \in Workers : worker'[l].pc \in {"wait", "post", "sent"} => After(worker'[l].n, worker'[l].d)
      <3>1. \A l \in Workers : worker[l].pc \in {"wait", "post", "sent"} =>
              worker[l].n \in Nat /\ worker[l].d \in Deliveries /\ Covered(worker[l].n, worker[l].d)
        BY BusyWorker DEF Counted
      <3> QED
        BY <2>2, <2>3, <2>8, <2>9, <3>1
    <2> QED
      BY <2>10, <2>11, <2>12, <2>13 DEF Counted, Covered, After
  <1>23. ASSUME NEW k \in Workers, Post(k)
         PROVE  Counted'
    <2>1. worker[k].d \in Deliveries /\ worker[k].n \in Nat /\ worker[k].pc = "post"
      BY <1>23, BusyWorker DEF Post
    <2>3. /\ worker'[k].pc = "sent" /\ worker'[k].d = worker[k].d /\ worker'[k].n = worker[k].n
          /\ \A l \in Workers \ {k} : worker'[l] = worker[l]
      BY <1>23 DEF Post, Advance, TypeOK
    <2>7. \A x \in Deliveries : asked'[x] = asked[x] \/ sent'[x] > maxAttempts
      BY <1>23, PostKeeps
    <2>8. \A x \in Deliveries : sent[x] > maxAttempts => sent'[x] > maxAttempts
      BY <1>23, <2>1 DEF Post, TypeOK
    <2> DEFINE After(n, x) == n <= asked'[x] \/ sent'[x] > maxAttempts
    <2>9. \A n \in Nat, x \in Deliveries : Covered(n, x) => After(n, x)
      BY <1>0, <2>7, <2>8 DEF Covered
    <2> HIDE DEF After
    <2>10. \A x \in Deliveries : After(attempts'[x], x)
      BY <1>23, <2>9 DEF Post, tables, Counted, TypeOK
    <2>11. \A i \in 1..Len(queue') : After(queue'[i].n, queue'[i].d)
      <3>1. \A i \in 1..Len(queue) : queue[i] \in Work
        BY DEF TypeOK
      <3> QED
        BY <1>23, <2>9, <3>1 DEF Post, Counted, Work
    <2>12. \A item \in fetched' : After(item.n, item.d)
      BY <1>23, <2>9 DEF Post, Counted, TypeOK, Work
    <2>13. \A l \in Workers : worker'[l].pc \in {"wait", "post", "sent"} => After(worker'[l].n, worker'[l].d)
      <3>1. \A l \in Workers : worker[l].pc \in {"wait", "post", "sent"} =>
              worker[l].n \in Nat /\ worker[l].d \in Deliveries /\ Covered(worker[l].n, worker[l].d)
        BY BusyWorker DEF Counted
      <3> QED
        BY <2>1, <2>3, <2>9, <3>1
    <2> QED
      BY <2>10, <2>11, <2>12, <2>13 DEF Counted, Covered, After
  <1>8. ASSUME NEW k \in Workers, Delivered(k)
         PROVE  Counted'
    <2>a. asked' = asked
      BY <1>8, AskedStays DEF Delivered, Advance, TypeOK
    <2> QED
      BY <1>0, <1>8, <2>a DEF Counted, Covered, TypeOK, Advance, Idle, Busy, Stored, Delivered, UpdateDeliveryStatus
  <1>9. ASSUME NEW k \in Workers, RecordSuccess(k)
         PROVE  Counted'
    <2>a. asked' = asked
      BY <1>9, AskedStays DEF RecordSuccess, Rest, Idle, TypeOK
    <2> QED
      BY <1>0, <1>9, <2>a DEF Counted, Covered, TypeOK, Rest, Idle, Busy, RecordSuccess, HookOf
  <1>10. ASSUME NEW k \in Workers, Failed(k)
         PROVE  Counted'
    <2>1. Advance(k, "count") \/ Rest(k)
      BY <1>10 DEF Failed
    <2>2. worker'[k].pc \in {"count", "idle"} /\ \A l \in Workers \ {k} : worker'[l] = worker[l]
      BY <2>1 DEF Advance, Rest, Idle, TypeOK
    <2>a. asked' = asked
      BY <1>10, <2>2, AskedStays DEF Failed
    <2> QED
      BY <1>0, <1>10, <2>2, <2>a DEF Counted, Covered, Failed
  <1>11. ASSUME NEW k \in Workers, IncrementConsecutiveFailures(k)
         PROVE  Counted'
    <2>a. asked' = asked
      BY <1>11, AskedStays DEF IncrementConsecutiveFailures, Advance, TypeOK
    <2> QED
      BY <1>0, <1>11, <2>a DEF Counted, Covered, TypeOK, Advance, Idle, Busy, Exists, IncrementConsecutiveFailures, HookOf
  <1>12. ASSUME NEW k \in Workers, ReadFailures(k)
         PROVE  Counted'
    <2>1. Advance(k, "disable") \/ Rest(k)
      BY <1>12 DEF ReadFailures
    <2>2. worker'[k].pc \in {"disable", "idle"} /\ \A l \in Workers \ {k} : worker'[l] = worker[l]
      BY <2>1 DEF Advance, Rest, Idle, TypeOK
    <2>a. asked' = asked
      BY <1>12, <2>2, AskedStays DEF ReadFailures
    <2> QED
      BY <1>0, <1>12, <2>2, <2>a DEF Counted, Covered, ReadFailures, tables
  <1>13. ASSUME NEW k \in Workers, DisableWebhook(k)
         PROVE  Counted'
    <2>a. asked' = asked
      BY <1>13, AskedStays DEF DisableWebhook, Rest, Idle, TypeOK
    <2> QED
      BY <1>0, <1>13, <2>a DEF Counted, Covered, TypeOK, Rest, Idle, Busy, Exists, DisableWebhook, HookOf
  <1>14. ASSUME NEW d \in Deliveries, RetryDue(d)
         PROVE  Counted'
    <2>a. asked' = asked
      BY <1>14, AskedStays DEF RetryDue
    <2> QED
      BY <1>0, <1>14, <2>a DEF Counted, Covered, TypeOK, RetryDue
  <1>15. ASSUME ProcessRetries
         PROVE  Counted'
    <2>a. asked' = asked
      BY <1>15, AskedStays DEF ProcessRetries
    <2> QED
      BY <1>0, <1>15, <2>a DEF Counted, Covered, tables, ProcessRetries, WorkFor
  <1>16. ASSUME NEW item \in fetched, EnqueueFetched(item)
         PROVE  Counted'
    <2>a. asked' = asked
      BY <1>16, AskedStays DEF EnqueueFetched
    <2>1. item \in Work /\ Covered(item.n, item.d)
      BY DEF TypeOK, Counted
    <2>2. \A i \in 1..Len(queue') : Covered(queue'[i].n, queue'[i].d)
      <3>1. CASE Enqueue(item)
        BY <2>1, <3>1, EnqueueSpec DEF Counted, TypeOK
      <3>2. CASE queue' = queue
        BY <3>2 DEF Counted
      <3> QED
        BY <1>16, <3>1, <3>2 DEF EnqueueFetched
    <2> QED
      BY <1>0, <1>16, <2>a, <2>2 DEF Counted, Covered, EnqueueFetched, tables
  <1>17. ASSUME NEW o \in Owners, NEW d \in Deliveries, RetryDelivery(o, d)
         PROVE  Counted'
    <2>a. asked' = asked
      BY <1>17, AskedStays DEF RetryDelivery
    <2> QED
      BY <1>0, <1>17, <2>a DEF Counted, Covered, TypeOK, tables, RetryDelivery
  <1>18. ASSUME NEW o \in Owners, RetrySetPending(o)
         PROVE  Counted'
    <2>a. asked' = asked
      BY <1>18, AskedStays DEF RetrySetPending
    <2> QED
      BY <1>0, <1>18, <2>a DEF Counted, Covered, TypeOK, Stored, RetrySetPending, UpdateDeliveryStatus
  <1>19. ASSUME NEW o \in Owners, RetryResetAttempts(o)
         PROVE  Counted'
    <2>a. asked' = asked
      BY <1>19, AskedStays DEF RetryResetAttempts
    <2> QED
      <3>1. \A x \in Deliveries : attempts'[x] = attempts[x] \/ attempts'[x] = 0
        BY <1>19 DEF TypeOK, Stored, RetryResetAttempts
      <3>2. sent' = sent /\ queue' = queue /\ fetched' = fetched /\ worker' = worker
        BY <1>19 DEF RetryResetAttempts
      <3> QED
        BY <1>0, <2>a, <3>1, <3>2 DEF Counted, Covered
  <1>20. ASSUME PurgeOldDeadLetters
         PROVE  Counted'
    <2>a. asked' = asked
      BY <1>20, AskedStays DEF PurgeOldDeadLetters
    <2> QED
      BY <1>0, <1>20, <2>a DEF Counted, Covered, TypeOK, PurgeOldDeadLetters
  <1>21. ASSUME NEW oldest \in SUBSET Deliveries, Restart(oldest)
         PROVE  Counted'
    <2>1. sent' = sent /\ attempts' = attempts /\ queue' = <<>> /\ worker' = [k \in Workers |-> Idle]
      BY <1>21 DEF Restart, Stopped, tables
    <2>2. asked' = asked
      BY <1>21, RestartKeeps
    <2>3. \A item \in fetched' : \E d \in Deliveries : item.d = d /\ item.n = attempts[d]
      BY <1>21 DEF Restart, OldestPending, WorkFor
    <2> QED
      BY <1>0, <2>1, <2>2, <2>3 DEF Counted, Covered, Idle
  <1>22. ASSUME UNCHANGED vars
         PROVE  Counted'
    <2>a. asked' = asked
      BY <1>22, AskedStays DEF vars
    <2> QED
      BY <1>0, <1>22, <2>a DEF Counted, Covered, TypeOK, tables, vars
  <1> QED
    BY <1>1, <1>2, <1>3, <1>4, <1>5, <1>6, <1>7, <1>8, <1>9, <1>10, <1>11, <1>12, <1>13, <1>14, <1>15, <1>16, <1>17, <1>18, <1>19, <1>20, <1>21, <1>22, <1>23 DEF Next, WorkerStep

\* Every step keeps dead letters earned: the worker that gives a delivery up
\* holds a count of at least maxAttempts, and that count is covered.
LEMMA StepDead == TypeOK /\ TypeOK' /\ Counted /\ Earned /\ [Next]_vars => Earned'
  <1> SUFFICES ASSUME TypeOK, TypeOK', Counted, Earned, [Next]_vars PROVE Earned'
    OBVIOUS
  <1> USE WebhookAssumption DEF traces
  <1>0. \A d \in Deliveries : asked[d] \in Nat
    BY AskedType
  <1>1. ASSUME NEW g \in Registrars, RegisterCount(g)
         PROVE  Earned'
    <2>a. asked' = asked
      BY <1>1, AskedStays DEF RegisterCount
    <2> QED
      BY <1>0, <1>1, <2>a DEF Earned, TypeOK, tables, RegisterCount
  <1>2. ASSUME NEW g \in Registrars, NEW w \in Webhooks, RegisterInsert(g, w)
         PROVE  Earned'
    <2>a. asked' = asked
      BY <1>2, AskedStays DEF RegisterInsert
    <2> QED
      BY <1>0, <1>2, <2>a DEF Earned, TypeOK, RegisterInsert
  <1>3. ASSUME NEW w \in Webhooks, DeleteWebhook(w)
         PROVE  Earned'
    <2>a. asked' = asked
      BY <1>3, AskedStays DEF DeleteWebhook
    <2> QED
      BY <1>0, <1>3, <2>a DEF Earned, DeleteWebhook
  <1>4. ASSUME NEW m \in Messages, Dispatch(m)
         PROVE  Earned'
    <2>a. asked' = asked
      BY <1>4, AskedStays DEF Dispatch
    <2> QED
      BY <1>0, <1>4, <2>a DEF Earned, TypeOK, tables, Dispatch
  <1>5. ASSUME NEW m \in Messages, NEW w \in Webhooks, InsertDelivery(m, w)
         PROVE  Earned'
    <2>a. asked' = asked
      BY <1>5, AskedStays DEF InsertDelivery
    <2>1. \A d \in Deliveries : row'[d] = row[d] \/ row'[d] = "pending"
      BY <1>5 DEF InsertDelivery, TypeOK
    <2> QED
      BY <1>0, <1>5, <2>a, <2>1 DEF Earned, InsertDelivery
  <1>6. ASSUME NEW k \in Workers, Take(k)
         PROVE  Earned'
    <2>a. asked' = asked
      BY <1>6, AskedStays DEF Take, TypeOK
    <2> QED
      BY <1>0, <1>6, <2>a DEF Earned, TypeOK, tables, Take
  <1>7. ASSUME NEW k \in Workers, CountAttempt(k)
         PROVE  Earned'
    <2>1. \A x \in Deliveries : asked'[x] = asked[x] \/ asked'[x] = asked[x] + 1
      BY <1>7, CountAdds
    <2> QED
      BY <1>0, <1>7, <2>1 DEF Earned, CountAttempt
  <1>23. ASSUME NEW k \in Workers, Post(k)
         PROVE  Earned'
    <2>1. \A x \in Deliveries : asked'[x] = asked[x] \/ sent'[x] > maxAttempts
      BY <1>23, PostKeeps
    <2>2. \A x \in Deliveries : asked'[x] = sent'[x] + Cardinality(Posting(x)') + cut'[x]
      BY DEF asked
    <2>3. \A x \in Deliveries : sent'[x] \in Nat /\ cut'[x] \in Nat
      BY DEF TypeOK
    <2>4. \A x \in Deliveries : Cardinality(Posting(x)') \in Nat
      BY LaterPosting
    <2>5. \A x \in Deliveries : asked[x] >= maxAttempts => asked'[x] >= maxAttempts
      BY <2>1, <2>2, <2>3, <2>4
    <2> QED
      BY <1>23, <2>5 DEF Earned, Post, tables
  <1>8. ASSUME NEW k \in Workers, Delivered(k)
         PROVE  Earned'
    <2>a. asked' = asked
      BY <1>8, AskedStays DEF Delivered, Advance, TypeOK
    <2> QED
      BY <1>0, <1>8, <2>a DEF Earned, TypeOK, Delivered, UpdateDeliveryStatus
  <1>9. ASSUME NEW k \in Workers, RecordSuccess(k)
         PROVE  Earned'
    <2>a. asked' = asked
      BY <1>9, AskedStays DEF RecordSuccess, Rest, Idle, TypeOK
    <2> QED
      BY <1>0, <1>9, <2>a DEF Earned, TypeOK, RecordSuccess
  <1>10. ASSUME NEW k \in Workers, Failed(k)
         PROVE  Earned'
    <2>1. worker[k].d \in Deliveries /\ worker[k].n \in Nat /\ Covered(worker[k].n, worker[k].d)
      BY <1>10, BusyWorker DEF Failed, Counted
    <2>2. worker[k].n >= maxAttempts => asked[worker[k].d] >= maxAttempts
      <3>1. /\ asked[worker[k].d] = sent[worker[k].d] + Cardinality(Posting(worker[k].d)) + cut[worker[k].d]
            /\ sent[worker[k].d] \in Nat /\ Cardinality(Posting(worker[k].d)) \in Nat /\ cut[worker[k].d] \in Nat
        <4> DEFINE d == worker[k].d
        <4> SUFFICES d \in Deliveries => /\ asked[d] = sent[d] + Cardinality(Posting(d)) + cut[d]
                                         /\ sent[d] \in Nat /\ Cardinality(Posting(d)) \in Nat /\ cut[d] \in Nat
          BY <2>1
        <4> HIDE DEF d
        <4>1. \A x \in Deliveries : sent[x] \in Nat /\ cut[x] \in Nat
          BY DEF TypeOK
        <4> QED
          BY <4>1, AskedType
      <3> QED
        BY <2>1, <3>1 DEF Covered
    <2>a. asked' = asked
      <3>1. Advance(k, "count") \/ Rest(k)
        BY <1>10 DEF Failed
      <3> QED
        BY <1>10, <3>1, AskedStays DEF Failed, Advance, Rest, Idle, TypeOK
    <2>3. \A d \in Deliveries : row'[d] = "dead_lettered" =>
            row[d] = "dead_lettered" \/ (d = worker[k].d /\ worker[k].n >= maxAttempts)
      <3>1. CASE worker[k].n >= maxAttempts
        BY <1>10, <2>1, <3>1 DEF Failed, UpdateDeliveryStatus, TypeOK
      <3>2. CASE ~(worker[k].n >= maxAttempts)
        <4>1. UpdateDeliveryStatus(worker[k].d, "retrying")
          BY <1>10, <3>2 DEF Failed
        <4> QED
          BY <2>1, <4>1 DEF UpdateDeliveryStatus, TypeOK
      <3> QED
        BY <3>1, <3>2
    <2> QED
      BY <1>10, <2>2, <2>3, <2>a DEF Earned, Failed
  <1>11. ASSUME NEW k \in Workers, IncrementConsecutiveFailures(k)
         PROVE  Earned'
    <2>a. asked' = asked
      BY <1>11, AskedStays DEF IncrementConsecutiveFailures, Advance, TypeOK
    <2> QED
      BY <1>0, <1>11, <2>a DEF Earned, TypeOK, IncrementConsecutiveFailures
  <1>12. ASSUME NEW k \in Workers, ReadFailures(k)
         PROVE  Earned'
    <2>1. Advance(k, "disable") \/ Rest(k)
      BY <1>12 DEF ReadFailures
    <2>a. asked' = asked
      BY <1>12, <2>1, AskedStays DEF ReadFailures, Advance, Rest, Idle, TypeOK
    <2> QED
      BY <1>12, <2>a DEF Earned, tables, ReadFailures
  <1>13. ASSUME NEW k \in Workers, DisableWebhook(k)
         PROVE  Earned'
    <2>a. asked' = asked
      BY <1>13, AskedStays DEF DisableWebhook, Rest, Idle, TypeOK
    <2> QED
      BY <1>0, <1>13, <2>a DEF Earned, TypeOK, DisableWebhook
  <1>14. ASSUME NEW d \in Deliveries, RetryDue(d)
         PROVE  Earned'
    <2>a. asked' = asked
      BY <1>14, AskedStays DEF RetryDue
    <2> QED
      BY <1>0, <1>14, <2>a DEF Earned, TypeOK, RetryDue
  <1>15. ASSUME ProcessRetries
         PROVE  Earned'
    <2>a. asked' = asked
      BY <1>15, AskedStays DEF ProcessRetries
    <2> QED
      BY <1>0, <1>15, <2>a DEF Earned, TypeOK, tables, ProcessRetries
  <1>16. ASSUME NEW item \in fetched, EnqueueFetched(item)
         PROVE  Earned'
    <2>a. asked' = asked
      BY <1>16, AskedStays DEF EnqueueFetched
    <2> QED
      BY <1>0, <1>16, <2>a DEF Earned, TypeOK, tables, EnqueueFetched
  <1>17. ASSUME NEW o \in Owners, NEW d \in Deliveries, RetryDelivery(o, d)
         PROVE  Earned'
    <2>a. asked' = asked
      BY <1>17, AskedStays DEF RetryDelivery
    <2> QED
      BY <1>0, <1>17, <2>a DEF Earned, TypeOK, tables, RetryDelivery
  <1>18. ASSUME NEW o \in Owners, RetrySetPending(o)
         PROVE  Earned'
    <2>a. asked' = asked
      BY <1>18, AskedStays DEF RetrySetPending
    <2> QED
      BY <1>0, <1>18, <2>a DEF Earned, TypeOK, RetrySetPending, UpdateDeliveryStatus
  <1>19. ASSUME NEW o \in Owners, RetryResetAttempts(o)
         PROVE  Earned'
    <2>a. asked' = asked
      BY <1>19, AskedStays DEF RetryResetAttempts
    <2> QED
      BY <1>0, <1>19, <2>a DEF Earned, TypeOK, RetryResetAttempts
  <1>20. ASSUME PurgeOldDeadLetters
         PROVE  Earned'
    <2>a. asked' = asked
      BY <1>20, AskedStays DEF PurgeOldDeadLetters
    <2> QED
      BY <1>0, <1>20, <2>a DEF Earned, TypeOK, PurgeOldDeadLetters
  <1>21. ASSUME NEW oldest \in SUBSET Deliveries, Restart(oldest)
         PROVE  Earned'
    BY <1>21, RestartKeeps DEF Earned, tables, Restart, Stopped
  <1>22. ASSUME UNCHANGED vars
         PROVE  Earned'
    <2>a. asked' = asked
      BY <1>22, AskedStays DEF vars
    <2> QED
      BY <1>0, <1>22, <2>a DEF Earned, TypeOK, tables, vars
  <1> QED
    BY <1>1, <1>2, <1>3, <1>4, <1>5, <1>6, <1>7, <1>8, <1>9, <1>10, <1>11, <1>12, <1>13, <1>14, <1>15, <1>16, <1>17, <1>18, <1>19, <1>20, <1>21, <1>22, <1>23 DEF Next, WorkerStep

\* Every step keeps the inductive invariant.
LEMMA StepInv == IndInv /\ [Next]_vars => IndInv'
  BY StepType, StepCounted, StepDead DEF IndInv

\* Every step keeps it true that no failure is counted for a webhook before it
\* is registered, and that no counted threshold is missed: whoever raises the
\* counter is at "read" afterwards, and whoever leaves "read" or "disable" has
\* seen a counter below the threshold, or disabled the webhook.
LEMMA StepDisabled ==
  TypeOK /\ TypeOK' /\ Fresh /\ AutoDisabled /\ [Next]_vars => Fresh' /\ AutoDisabled'
  <1> SUFFICES ASSUME TypeOK, TypeOK', Fresh, AutoDisabled, [Next]_vars PROVE Fresh' /\ AutoDisabled'
    OBVIOUS
  <1> USE WebhookAssumption DEF traces
  <1>1. ASSUME NEW g \in Registrars, RegisterCount(g)
         PROVE  Fresh' /\ AutoDisabled'
    BY <1>1 DEF Fresh, AutoDisabled, TypeOK, Exists, tables, RegisterCount
  <1>2. ASSUME NEW g \in Registrars, NEW w \in Webhooks, RegisterInsert(g, w)
         PROVE  Fresh' /\ AutoDisabled'
    BY <1>2 DEF Fresh, AutoDisabled, TypeOK, RegisterInsert
  <1>3. ASSUME NEW w \in Webhooks, DeleteWebhook(w)
         PROVE  Fresh' /\ AutoDisabled'
    BY <1>3 DEF Fresh, AutoDisabled, TypeOK, Exists, DeleteWebhook
  <1>4. ASSUME NEW m \in Messages, Dispatch(m)
         PROVE  Fresh' /\ AutoDisabled'
    BY <1>4 DEF Fresh, AutoDisabled, TypeOK, tables, Dispatch
  <1>5. ASSUME NEW m \in Messages, NEW w \in Webhooks, InsertDelivery(m, w)
         PROVE  Fresh' /\ AutoDisabled'
    BY <1>5 DEF Fresh, AutoDisabled, TypeOK, Exists, InsertDelivery
  <1>6. ASSUME NEW k \in Workers, Take(k)
         PROVE  Fresh' /\ AutoDisabled'
    BY <1>6 DEF Fresh, AutoDisabled, TypeOK, Idle, tables, Take
  <1>7. ASSUME NEW k \in Workers, CountAttempt(k)
         PROVE  Fresh' /\ AutoDisabled'
    BY <1>7 DEF Fresh, AutoDisabled, TypeOK, Idle, CountAttempt
  <1>23. ASSUME NEW k \in Workers, Post(k)
         PROVE  Fresh' /\ AutoDisabled'
    BY <1>23 DEF Fresh, AutoDisabled, TypeOK, Advance, tables, Post
  <1>8. ASSUME NEW k \in Workers, Delivered(k)
         PROVE  Fresh' /\ AutoDisabled'
    BY <1>8 DEF Fresh, AutoDisabled, TypeOK, Advance, Idle, Delivered, UpdateDeliveryStatus
  <1>9. ASSUME NEW k \in Workers, RecordSuccess(k)
         PROVE  Fresh' /\ AutoDisabled'
    <2>1. \A w \in Webhooks : failures'[w] = failures[w] \/ failures'[w] = 0
      BY <1>9 DEF RecordSuccess, TypeOK
    <2>2. \A l \in Workers \ {k} : worker'[l] = worker[l]
      BY <1>9 DEF RecordSuccess, Rest, TypeOK
    <2>3. hook' = hook /\ restarts' = restarts /\ worker[k].pc = "reset"
      BY <1>9 DEF RecordSuccess
    <2>4. Fresh'
      BY <2>1, <2>3 DEF Fresh
    <2>5. ASSUME restarts = 0, NEW w \in Webhooks, hook[w] = "active", failures'[w] >= AutoDisableThreshold
          PROVE  \E l \in Workers : worker'[l].pc \in {"read", "disable"} /\ HookOf(worker'[l].d) = w
      <3>1. failures[w] >= AutoDisableThreshold
        BY <2>1, <2>5
      <3>2. PICK l \in Workers : worker[l].pc \in {"read", "disable"} /\ HookOf(worker[l].d) = w
        BY <2>5, <3>1 DEF AutoDisabled
      <3>3. l # k
        BY <2>3, <3>2
      <3> QED
        BY <2>2, <3>2, <3>3
    <2> QED
      BY <2>3, <2>4, <2>5 DEF AutoDisabled
  <1>10. ASSUME NEW k \in Workers, Failed(k)
         PROVE  Fresh' /\ AutoDisabled'
    <2>1. Advance(k, "count") \/ Rest(k)
      BY <1>10 DEF Failed
    <2>2. \A l \in Workers \ {k} : worker'[l] = worker[l]
      BY <2>1 DEF Advance, Rest, TypeOK
    <2> QED
      BY <1>10, <2>2 DEF Fresh, AutoDisabled, Failed
  <1>11. ASSUME NEW k \in Workers, IncrementConsecutiveFailures(k)
         PROVE  Fresh' /\ AutoDisabled'
    BY <1>11, ZenonT(40) DEF Fresh, AutoDisabled, TypeOK, Exists, Advance, Idle, IncrementConsecutiveFailures
  <1>12. ASSUME NEW k \in Workers, ReadFailures(k)
         PROVE  Fresh' /\ AutoDisabled'
    <2> DEFINE w == HookOf(worker[k].d)
    <2>1. \A l \in Workers \ {k} : worker'[l] = worker[l]
      <3>1. Advance(k, "disable") \/ Rest(k)
        BY <1>12 DEF ReadFailures
      <3> QED
        BY <3>1 DEF Advance, Rest, TypeOK
    <2>2. Fresh' /\ UNCHANGED <<hook, failures, restarts>>
      BY <1>12 DEF ReadFailures, tables, Fresh
    <2>3. CASE Exists(w) /\ failures[w] >= AutoDisableThreshold
      <3>1. Advance(k, "disable")
        BY <1>12, <2>3 DEF ReadFailures
      <3>2. worker'[k].pc = "disable" /\ worker'[k].d = worker[k].d
        BY <3>1 DEF Advance, TypeOK
      <3> QED
        BY <2>1, <2>2, <3>2 DEF AutoDisabled
    <2>4. CASE ~(Exists(w) /\ failures[w] >= AutoDisableThreshold)
      <3>1. ~(hook[w] = "active" /\ failures[w] >= AutoDisableThreshold)
        BY <2>4 DEF Exists
      <3> QED
        BY <2>1, <2>2, <3>1 DEF AutoDisabled
    <2> QED
      BY <2>3, <2>4
  <1>13. ASSUME NEW k \in Workers, DisableWebhook(k)
         PROVE  Fresh' /\ AutoDisabled'
    BY <1>13, ZenonT(40) DEF Fresh, AutoDisabled, TypeOK, Exists, Rest, Idle, DisableWebhook
  <1>14. ASSUME NEW d \in Deliveries, RetryDue(d)
         PROVE  Fresh' /\ AutoDisabled'
    BY <1>14 DEF Fresh, AutoDisabled, TypeOK, RetryDue
  <1>15. ASSUME ProcessRetries
         PROVE  Fresh' /\ AutoDisabled'
    BY <1>15 DEF Fresh, AutoDisabled, TypeOK, tables, ProcessRetries
  <1>16. ASSUME NEW item \in fetched, EnqueueFetched(item)
         PROVE  Fresh' /\ AutoDisabled'
    BY <1>16 DEF Fresh, AutoDisabled, TypeOK, Exists, tables, EnqueueFetched
  <1>17. ASSUME NEW o \in Owners, NEW d \in Deliveries, RetryDelivery(o, d)
         PROVE  Fresh' /\ AutoDisabled'
    BY <1>17 DEF Fresh, AutoDisabled, TypeOK, tables, RetryDelivery
  <1>18. ASSUME NEW o \in Owners, RetrySetPending(o)
         PROVE  Fresh' /\ AutoDisabled'
    BY <1>18 DEF Fresh, AutoDisabled, TypeOK, RetrySetPending, UpdateDeliveryStatus
  <1>19. ASSUME NEW o \in Owners, RetryResetAttempts(o)
         PROVE  Fresh' /\ AutoDisabled'
    BY <1>19 DEF Fresh, AutoDisabled, TypeOK, RetryResetAttempts
  <1>20. ASSUME PurgeOldDeadLetters
         PROVE  Fresh' /\ AutoDisabled'
    BY <1>20 DEF Fresh, AutoDisabled, TypeOK, PurgeOldDeadLetters
  <1>21. ASSUME NEW oldest \in SUBSET Deliveries, Restart(oldest)
         PROVE  Fresh' /\ AutoDisabled'
    BY <1>21 DEF Fresh, AutoDisabled, TypeOK, Idle, tables, Restart, Stopped
  <1>22. ASSUME UNCHANGED vars
         PROVE  Fresh' /\ AutoDisabled'
    BY <1>22 DEF Fresh, AutoDisabled, TypeOK, tables, vars
  <1> QED
    BY <1>1, <1>2, <1>3, <1>4, <1>5, <1>6, <1>7, <1>8, <1>9, <1>10, <1>11, <1>12, <1>13, <1>14, <1>15, <1>16, <1>17, <1>18, <1>19, <1>20, <1>21, <1>22, <1>23 DEF Next, WorkerStep

-----------------------------------------------------------------------------
\* The inductive invariants hold in every reachable state.
LEMMA Invariance == Spec => [](IndInv /\ Fresh /\ AutoDisabled)
  <1>1. (IndInv /\ Fresh /\ AutoDisabled) /\ [Next]_vars => (IndInv /\ Fresh /\ AutoDisabled)'
    BY StepInv, StepDisabled DEF IndInv
  <1> QED
    BY InitInv, <1>1, PTL DEF Spec

\* The tables, the channel, the workers and the requests keep their types.
THEOREM TypeCorrect == Spec => []TypeOK
  BY Invariance, PTL DEF IndInv

\* recordFailure gives a delivery up only when maxAttempts requests were made
\* for it, are being made, or were cut off by a restart after they had been
\* counted, however often the poller, the owner or a restart enqueues it again.
THEOREM DeadLettersEarned == Spec => []DeadLetterEarned
  <1>1. IndInv => DeadLetterEarned
    BY AskedType DEF IndInv, Earned, DeadLetterEarned
  <1> QED
    BY Invariance, <1>1, PTL

\* RecordFailure does not miss the threshold between its three statements:
\* until the first restart, a webhook at the threshold is disabled or about to
\* be, for any number of workers.
THEOREM ThresholdNotMissed == Spec => []AutoDisabled
  BY Invariance, PTL
=============================================================================
