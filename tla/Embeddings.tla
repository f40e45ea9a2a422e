---------------------------- MODULE Embeddings ----------------------------
(***************************************************************************)
(* The embedding pipeline and search (internal/search, the embeddings.*    *)
(* admin commands, the start and stop of the server in cmd/synapbus).      *)
(*                                                                         *)
(* A message is queued, a worker takes a batch, asks the provider, puts    *)
(* the vector into the index in memory, writes the row that says so, and   *)
(* closes the queue item: four places that are written one after the       *)
(* other.  The index reaches the disk only when the server stops in order. *)
(* The start is a row of statements too, and drops their errors: boot names *)
(* the one that comes next.                                                *)
(* Nothing calls ResetStale or OnMessageDeleted.                           *)
(***************************************************************************)
EXTENDS Naturals, Sequences, FiniteSets, SequencesExt

CONSTANTS
    EmMessages,          \* messages that may be written
    EmWorkers,           \* WorkerCount goroutines
    Providers,           \* the provider a start may be configured with
    EmBatch,             \* BatchSize
    RetryMaxAttempts,
    MaxStarts            \* bound: starts of the server

VARIABLES
    emMsgs,       \* message -> "absent" | "live" | "gone"
    emQueue,      \* message -> [status, attempts]; status "none": no item
    rowOf,        \* message -> provider of its embeddings row, NoProvider without one
    index,        \* message -> provider of its vector in memory, NoProvider without one
    indexFile,    \* the same on disk
    workers,      \* worker -> [pc, batch, msg]
    server,       \* [up, boot, provider, starts]; boot "off": no start is under way
    admin,        \* embeddings.reindex or clear: [pc, again]
    strandedItems,     \* history: items a stop left in processing
    unsaved,      \* history: messages whose vector a crash, an unreadable file or a
                  \* start that kept their rows lost
    overtaken,    \* history: messages in a batch while the tables were cleared
    cleared       \* history: messages whose rows an admin or a start deleted, or whom a
                  \* start failed to queue, until they are queued again; a stop before
                  \* their items are deleted keeps them out

emNotes == <<strandedItems, unsaved, overtaken, cleared>>
emVars == <<emMsgs, emQueue, rowOf, index, indexFile, workers, server, admin, strandedItems, unsaved, overtaken, cleared>>

NoProvider == "none"
NoMessage == "none"
NoItem == [status |-> "none", attempts |-> 0]
IdleWorker == [pc |-> "idle", batch |-> {}, msg |-> NoMessage]
NoAdmin == [pc |-> "idle", again |-> FALSE]
NoVectors == [m \in EmMessages |-> NoProvider]

ASSUME EmbeddingsAssumption ==
    /\ NoMessage \notin EmMessages /\ NoProvider \notin Providers
    /\ RetryMaxAttempts \in Nat \ {0} /\ MaxStarts \in Nat

EmbeddingsInit ==
    /\ emMsgs = [m \in EmMessages |-> "absent"]
    /\ emQueue = [m \in EmMessages |-> NoItem]
    /\ rowOf = [m \in EmMessages |-> NoProvider]
    /\ index = NoVectors /\ indexFile = NoVectors
    /\ workers = [w \in EmWorkers |-> IdleWorker]
    /\ server = [up |-> FALSE, boot |-> "off", provider |-> NoProvider, starts |-> 0]
    /\ admin = NoAdmin
    /\ strandedItems = {} /\ unsaved = {} /\ overtaken = {} /\ cleared = {}

Live(m) == emMsgs[m] = "live"
InBatch == UNION {workers[w].batch \union ({workers[w].msg} \ {NoMessage}) : w \in EmWorkers}

-----------------------------------------------------------------------------
(* The queue.                                                              *)

Pending(m) == emQueue[m].status = "pending"

\* INSERT OR IGNORE; an item is unique to its message
Enqueue(q, ms) == [m \in EmMessages |-> IF m \in ms /\ q[m].status = "none"
                                        THEN [status |-> "pending", attempts |-> 0] ELSE q[m]]

\* Messages with neither a row nor an item
EnqueueAllMessages(q, rows) ==
    Enqueue(q, {m \in EmMessages : Live(m) /\ rows[m] = NoProvider /\ q[m].status = "none"})

SetItemStatus(q, ms, status) ==
    [m \in EmMessages |-> IF m \in ms /\ q[m].status # "none" THEN [q[m] EXCEPT !.status = status] ELSE q[m]]

MarkCompleted(ms) == emQueue' = SetItemStatus(emQueue, ms, "completed")
MarkFailed(ms) == emQueue' = SetItemStatus(emQueue, ms, "failed")
ClearQueue == emQueue' = [m \in EmMessages |-> NoItem]
DeleteAllEmbeddings == rowOf' = [m \in EmMessages |-> NoProvider]

\* Mutant: the notifier only queues while the queue is empty.
OnFirstMessageCreated(m) ==
    /\ emMsgs[m] = "absent" /\ server.up
    /\ emMsgs' = [emMsgs EXCEPT ![m] = "live"]
    /\ emQueue' = IF \E n \in EmMessages : Pending(n) THEN emQueue ELSE Enqueue(emQueue, {m})
    /\ UNCHANGED <<rowOf, index, indexFile, workers, server, admin, emNotes>>

\* SetEmbeddingNotifier: SendMessage queues what it stored
OnMessageCreated(m) ==
    /\ emMsgs[m] = "absent" /\ server.up
    /\ emMsgs' = [emMsgs EXCEPT ![m] = "live"]
    /\ emQueue' = Enqueue(emQueue, {m})
    /\ UNCHANGED <<rowOf, index, indexFile, workers, server, admin, emNotes>>

\* Retention and purge: row and item cascade, the vector stays
MessageDeleted(m) ==
    /\ Live(m) /\ server.up
    /\ emMsgs' = [emMsgs EXCEPT ![m] = "gone"]
    /\ emQueue' = [emQueue EXCEPT ![m] = NoItem]
    /\ rowOf' = [rowOf EXCEPT ![m] = NoProvider]
    /\ UNCHANGED <<index, indexFile, workers, server, admin, emNotes>>

-----------------------------------------------------------------------------
(* Start and stop.                                                         *)

Booting == server.boot # "off"
BootAt(step) == server' = [server EXCEPT !.boot = step]

\* The file, or a fresh index where it cannot be read
NewVectorIndex(p, readable) ==
    /\ ~server.up /\ ~Booting /\ server.starts < MaxStarts
    /\ server' = [up |-> FALSE, boot |-> "provider", provider |-> p, starts |-> server.starts + 1]
    /\ index' = IF readable THEN indexFile ELSE NoVectors
    /\ unsaved' = IF readable THEN unsaved ELSE unsaved \union {m \in EmMessages : indexFile[m] # NoProvider}
    /\ UNCHANGED <<emMsgs, emQueue, rowOf, indexFile, workers, admin, strandedItems, overtaken, cleared>>

\* The provider of the last row, none without a row or when the query fails:
\* only another one than the configured one makes the start drop everything
GetEmbeddingProvider(existing) ==
    /\ server.boot = "provider"
    /\ existing \in {rowOf[m] : m \in EmMessages} \union {NoProvider}
    /\ BootAt(IF existing \in {NoProvider, server.provider} THEN "enqueue" ELSE "rows")
    /\ UNCHANGED <<emMsgs, emQueue, rowOf, index, indexFile, workers, admin, emNotes>>

StartDeletesRows(ok) ==
    /\ server.boot = "rows" /\ BootAt("queue")
    /\ IF ok THEN DeleteAllEmbeddings ELSE rowOf' = rowOf
    /\ cleared' = IF ok THEN {m \in EmMessages : Live(m)} ELSE cleared
    /\ UNCHANGED <<emMsgs, emQueue, index, indexFile, workers, admin, strandedItems, unsaved, overtaken>>

StartClearsQueue(ok) ==
    /\ server.boot = "queue" /\ BootAt("index")
    /\ IF ok THEN ClearQueue ELSE emQueue' = emQueue
    /\ cleared' = IF ok THEN {m \in EmMessages : Live(m)} ELSE cleared
    /\ strandedItems' = IF ok THEN {} ELSE strandedItems
    /\ UNCHANGED <<emMsgs, rowOf, index, indexFile, workers, admin, unsaved, overtaken>>

StartRebuilds ==
    /\ server.boot = "index" /\ BootAt("enqueue")
    /\ index' = NoVectors
    /\ unsaved' = unsaved \union {m \in EmMessages : rowOf[m] # NoProvider}
    /\ UNCHANGED <<emMsgs, emQueue, rowOf, indexFile, workers, admin, strandedItems, overtaken, cleared>>

\* What has neither row nor item is queued, then the workers start
StartPipeline(ok) ==
    /\ server.boot = "enqueue"
    /\ server' = [server EXCEPT !.boot = "off", !.up = TRUE]
    /\ emQueue' = IF ok THEN EnqueueAllMessages(emQueue, rowOf) ELSE emQueue
    /\ cleared' = IF ok THEN {m \in cleared : emQueue[m].status # "none"}
                  ELSE cleared \union {m \in EmMessages : Live(m) /\ rowOf[m] = NoProvider /\ emQueue[m].status = "none"}
    /\ UNCHANGED <<emMsgs, rowOf, index, indexFile, workers, admin, strandedItems, unsaved, overtaken>>

\* The context is cancelled: the provider's call and the statements after it
\* fail, so a batch under way stays in processing
StopWorkers ==
    /\ workers' = [w \in EmWorkers |-> IdleWorker]
    /\ strandedItems' = strandedItems \union {m \in InBatch : emQueue[m].status = "processing"}
    /\ server' = [server EXCEPT !.up = FALSE, !.boot = "off"]
    /\ admin' = NoAdmin
    /\ UNCHANGED <<emMsgs, emQueue, rowOf, overtaken, cleared>>

Save == indexFile' = index
StopPipeline == server.up /\ StopWorkers /\ Save /\ UNCHANGED <<index, unsaved>>

\* At any moment, the start included
Crash ==
    /\ server.up \/ Booting
    /\ StopWorkers
    /\ index' = NoVectors
    /\ unsaved' = unsaved \union {m \in EmMessages : index[m] \notin {NoProvider, indexFile[m]}}
    /\ UNCHANGED indexFile

-----------------------------------------------------------------------------
(* A worker.                                                               *)

\* The oldest pending items; those whose message is gone are closed
Dequeue(w, items) ==
    /\ server.up /\ workers[w].pc = "idle"
    /\ items # {} /\ \A m \in items : Pending(m)
    /\ Cardinality(items) = EmBatch \/ items = {m \in EmMessages : Pending(m)}
    /\ Cardinality(items) <= EmBatch
    /\ emQueue' = [m \in EmMessages |->
          IF m \in items THEN [status |-> "processing", attempts |-> emQueue[m].attempts + 1] ELSE emQueue[m]]
    /\ workers' = [workers EXCEPT ![w] = [pc |-> "embed", batch |-> items, msg |-> NoMessage]]
    /\ UNCHANGED <<emMsgs, rowOf, index, indexFile, server, admin, emNotes>>

\* The worker goes on with what is left of its batch
NextInBatch(batch) ==
    [pc |-> IF batch = {} THEN "idle" ELSE "answered", batch |-> batch, msg |-> NoMessage]

processBatch(w) ==
    LET there == {m \in workers[w].batch : Live(m)} IN
    /\ workers[w].pc = "embed"
    /\ MarkCompleted(workers[w].batch \ there)
    /\ workers' = [workers EXCEPT ![w] = NextInBatch(there)]
    /\ UNCHANGED <<emMsgs, rowOf, index, indexFile, server, admin, emNotes>>

\* The provider fails: the batch is failed, and every failed item is queued again
\* that has an attempt left
EmbedFails(w) ==
    /\ workers[w].pc = "answered"
    /\ MarkFailed(workers[w].batch)
    /\ workers' = [workers EXCEPT ![w] = [IdleWorker EXCEPT !.pc = "requeue"]]
    /\ UNCHANGED <<emMsgs, rowOf, index, indexFile, server, admin, emNotes>>

RequeueFailed(w) ==
    /\ workers[w].pc = "requeue"
    /\ emQueue' = SetItemStatus(emQueue, {m \in EmMessages : /\ emQueue[m].status = "failed"
                                                         /\ emQueue[m].attempts < RetryMaxAttempts}, "pending")
    /\ workers' = [workers EXCEPT ![w] = IdleWorker]
    /\ UNCHANGED <<emMsgs, rowOf, index, indexFile, server, admin, emNotes>>

\* No vector for a message, or the index refuses it
EmptyEmbedding(w, m) ==
    /\ workers[w].pc = "answered" /\ m \in workers[w].batch
    /\ MarkFailed({m})
    /\ workers' = [workers EXCEPT ![w] = NextInBatch(workers[w].batch \ {m})]
    /\ UNCHANGED <<emMsgs, rowOf, index, indexFile, server, admin, emNotes>>

AddVector(w, m) ==
    /\ workers[w].pc = "answered" /\ m \in workers[w].batch
    /\ index' = [index EXCEPT ![m] = server.provider]
    /\ unsaved' = unsaved \ {m}
    /\ workers' = [workers EXCEPT ![w] = [pc |-> "row", batch |-> workers[w].batch \ {m}, msg |-> m]]
    /\ UNCHANGED <<emMsgs, emQueue, rowOf, indexFile, server, admin, strandedItems, overtaken, cleared>>

\* The foreign key refuses a row for a message that is gone; its item is gone too
SaveEmbedding(w) ==
    LET m == workers[w].msg IN
    /\ workers[w].pc = "row"
    /\ rowOf' = IF Live(m) THEN [rowOf EXCEPT ![m] = server.provider] ELSE rowOf
    /\ workers' = [workers EXCEPT ![w] = IF Live(m) THEN [workers[w] EXCEPT !.pc = "close"]
                                              ELSE NextInBatch(workers[w].batch)]
    /\ UNCHANGED <<emMsgs, emQueue, index, indexFile, server, admin, emNotes>>

CloseItem(w) ==
    /\ workers[w].pc = "close"
    /\ MarkCompleted({workers[w].msg})
    /\ workers' = [workers EXCEPT ![w] = NextInBatch(workers[w].batch)]
    /\ UNCHANGED <<emMsgs, rowOf, index, indexFile, server, admin, emNotes>>

-----------------------------------------------------------------------------
(* embeddings.clear and embeddings.reindex: the rows, the items, the index,  *)
(* and for reindex everything into the queue again.                        *)

ClearEmbeddings(again) ==
    /\ admin = NoAdmin /\ server.up
    /\ DeleteAllEmbeddings
    /\ admin' = [pc |-> "queue", again |-> again]
    /\ overtaken' = overtaken \union InBatch
    /\ cleared' = {m \in EmMessages : Live(m)}
    /\ UNCHANGED <<emMsgs, emQueue, index, indexFile, workers, server, strandedItems, unsaved>>

handleEmbeddingsClear == ClearEmbeddings(FALSE)
handleEmbeddingsReindex == ClearEmbeddings(TRUE)

AdminClearsQueue ==
    /\ admin.pc = "queue" /\ admin' = [admin EXCEPT !.pc = "index"]
    /\ ClearQueue
    /\ overtaken' = overtaken \union InBatch
    /\ cleared' = {m \in EmMessages : Live(m)}
    /\ strandedItems' = {}
    /\ UNCHANGED <<emMsgs, rowOf, index, indexFile, workers, server, unsaved>>

Rebuild ==
    /\ admin.pc = "index" /\ admin' = [admin EXCEPT !.pc = "enqueue"]
    /\ index' = NoVectors
    /\ overtaken' = overtaken \union InBatch \union {m \in EmMessages : rowOf[m] # NoProvider}
    /\ UNCHANGED <<emMsgs, emQueue, rowOf, indexFile, workers, server, strandedItems, unsaved, cleared>>

AdminDone ==
    /\ admin.pc = "enqueue" /\ admin' = NoAdmin
    /\ emQueue' = IF admin.again THEN EnqueueAllMessages(emQueue, rowOf) ELSE emQueue
    /\ cleared' = IF admin.again THEN {} ELSE cleared
    /\ UNCHANGED <<emMsgs, rowOf, index, indexFile, workers, server, strandedItems, unsaved, overtaken>>

EmbeddingsNext ==
    \/ \E m \in EmMessages : OnMessageCreated(m) \/ MessageDeleted(m)
    \/ \E p \in Providers, readable \in BOOLEAN : NewVectorIndex(p, readable)
    \/ \E existing \in Providers \union {NoProvider} : GetEmbeddingProvider(existing)
    \/ \E ok \in BOOLEAN : StartDeletesRows(ok) \/ StartClearsQueue(ok) \/ StartPipeline(ok)
    \/ StartRebuilds \/ StopPipeline \/ Crash
    \/ \E w \in EmWorkers :
          \/ processBatch(w) \/ EmbedFails(w) \/ RequeueFailed(w) \/ SaveEmbedding(w) \/ CloseItem(w)
          \/ \E items \in SUBSET EmMessages : Dequeue(w, items)
          \/ \E m \in EmMessages : EmptyEmbedding(w, m) \/ AddVector(w, m)
    \/ handleEmbeddingsClear \/ handleEmbeddingsReindex \/ AdminClearsQueue \/ Rebuild \/ AdminDone

EmbeddingsSpec == EmbeddingsInit /\ [][EmbeddingsNext]_emVars

-----------------------------------------------------------------------------
(* Search: a ranking is a sequence of messages without repetition, best     *)
(* first; Failed stands for an error.                                      *)

Failed == <<0>>
NoOne == ""
rrfK == 60

\* A direct message is for its two ends, a channel message for the members
canAgentAccessMessage(agent, msg, members) ==
    IF msg.to # NoOne THEN agent \in {msg.from, msg.to}
    ELSE IF msg.channel THEN agent \in members ELSE agent = msg.from

\* The nearest vectors whose message is there and may be seen
semanticSearch(near, agent, msgs, members, limit) ==
    LET seen == SelectSeq(near, LAMBDA m : m \in DOMAIN msgs /\ canAgentAccessMessage(agent, msgs[m], members)) IN
    SubSeq(seen, 1, IF Len(seen) < limit THEN Len(seen) ELSE limit)

Rank(s, m) == IF \E i \in DOMAIN s : s[i] = m THEN CHOOSE i \in DOMAIN s : s[i] = m ELSE 0

\* Reciprocal ranks, as numerator and denominator of their sum
Score(sem, full, m) ==
    LET term(r) == IF r = 0 THEN <<0, 1>> ELSE <<1, rrfK + r>>
        a == term(Rank(sem, m))  b == term(Rank(full, m)) IN
    <<a[1] * b[2] + b[1] * a[2], a[2] * b[2]>>
Higher(x, y) == x[1] * y[2] > y[1] * x[2]

\* Every order by score: equal scores come in any order, as a map is iterated
mergeRRF(sem, full, limit) ==
    LET ids == Range(sem) \union Range(full)
        sorted == {t \in SetToSeqs(ids) :
                     \A i, j \in DOMAIN t : i < j => ~Higher(Score(sem, full, t[j]), Score(sem, full, t[i]))} IN
    {SubSeq(t, 1, IF Len(t) < limit THEN Len(t) ELSE limit) : t \in sorted}

\* Both searches; one that fails or finds nothing leaves the answer to the other
hybridSearch(sem, full, limit) ==
    IF sem = Failed /\ full = Failed THEN {Failed}
    ELSE IF sem \in {Failed, <<>>} THEN {IF full = Failed THEN <<>> ELSE full}
    ELSE IF full \in {Failed, <<>>} THEN {sem}
    ELSE mergeRRF(sem, full, limit)

\* "auto" is hybrid once there are vectors; "semantic" falls back on full text,
\* but is an error where no provider is configured
Search(mode, provider, vectors, sem, full, limit) ==
    CASE mode = "auto" -> IF provider /\ vectors THEN hybridSearch(sem, full, limit) ELSE {full}
      [] mode = "semantic" -> IF ~provider THEN {Failed} ELSE IF sem = Failed \/ ~vectors THEN {full} ELSE {sem}
      [] mode = "fulltext" -> {full}
      [] OTHER -> {Failed}

callSearchMessages(mode, provider, vectors, sem, full, limit) == Search(mode, provider, vectors, sem, full, limit)

-----------------------------------------------------------------------------
\* Items, rows and vectors
EmbeddingsTypeOK ==
    /\ \A m \in EmMessages : emQueue[m].status \in {"none", "pending", "processing", "completed", "failed"}
    /\ rowOf \in [EmMessages -> Providers \union {NoProvider}]
    /\ index \in [EmMessages -> Providers \union {NoProvider}]
    /\ \A w \in EmWorkers : workers[w].batch \subseteq EmMessages

\* Pipeline: a message is embedded, or an item says that it will be or that it
\* failed, unless a stop stranded its batch, an admin cleared the tables, with
\* or without a batch under way, or a start broke off between its statements or
\* could not queue it
NothingForgotten ==
    server.up => \A m \in EmMessages : Live(m) =>
        \/ rowOf[m] # NoProvider \/ emQueue[m].status \in {"pending", "failed"}
        \/ m \in InBatch \/ m \in strandedItems \union overtaken \union cleared

\* processBatch, NewVectorIndex: what a row says is embedded has a vector of that
\* provider, unless a crash, an unreadable file or a start that could not delete
\* the row lost it, or a reindex came between vector and row
EmbeddedIsIndexed ==
    server.up => \A m \in EmMessages :
        rowOf[m] # NoProvider /\ m \notin unsaved \union overtaken => index[m] = rowOf[m]

\* RequeueFailed: the provider is asked RetryMaxAttempts times at most
AttemptsBounded ==
    \A m \in EmMessages : emQueue[m].attempts <= RetryMaxAttempts

Ids == 1..3
Rankings == UNION {SetToSeqs(s) : s \in SUBSET Ids}
\* A direct message, a channel message, and a vector whose message is gone
SampleMessages == [m \in {1, 2} |-> IF m = 1 THEN [from |-> "a", to |-> "b", channel |-> FALSE]
                                             ELSE [from |-> "a", to |-> NoOne, channel |-> TRUE]]

FoundEarly(sem, full, m) == Rank(sem, m) <= rrfK /\ Rank(full, m) <= rrfK

\* mergeRRF: each found message once, as many as the limit allows; one that both
\* searches found among their first rrfK precedes one that only one of them found,
\* wherever; what the limit leaves out is not scored above what it keeps
MergeSound ==
    \A sem, full \in Rankings \ {<<>>}, limit \in 1..3 : \A t \in mergeRRF(sem, full, limit) :
        LET both == Range(sem) \intersect Range(full)  any == Range(sem) \union Range(full) IN
        /\ Cardinality(Range(t)) = Len(t) /\ Range(t) \subseteq any
        /\ Len(t) = IF Cardinality(any) < limit THEN Cardinality(any) ELSE limit
        /\ \A i, j \in DOMAIN t : t[i] \in any \ both /\ t[j] \in both /\ FoundEarly(sem, full, t[j]) => j < i
        /\ \A m \in any : m \notin Range(t) => \A i \in DOMAIN t : ~Higher(Score(sem, full, m), Score(sem, full, t[i]))

\* Search: what full text finds is not lost because the semantic search fails or
\* finds nothing; only a semantic search without a provider is refused
FallbackSound ==
    \A mode \in {"auto", "semantic", "fulltext"}, provider, vectors \in BOOLEAN, full \in Rankings :
        /\ callSearchMessages(mode, provider, vectors, Failed, full, 3) =
             {IF mode = "semantic" /\ ~provider THEN Failed ELSE full}
        /\ \A near \in Rankings, a \in {"a", "b", "c"} :
              LET sem == semanticSearch(near, a, SampleMessages, {"b"}, 3) IN
              mode # "semantic" /\ sem = <<>> => callSearchMessages(mode, provider, vectors, sem, full, 3) = {full}

EmbeddingsSafe ==
    /\ EmbeddingsTypeOK /\ NothingForgotten /\ EmbeddedIsIndexed /\ AttemptsBounded
    /\ MergeSound /\ FallbackSound

-----------------------------------------------------------------------------
(* What a document says.                                                   *)

\* specs/004: "On next startup, the system detects pending/processing items in the
\* embedding queue and resumes processing them": while the server runs, an item
\* in processing is in a worker's batch
InterruptedResumes ==
    server.up => \A m \in EmMessages : emQueue[m].status = "processing" => m \in InBatch
=============================================================================
