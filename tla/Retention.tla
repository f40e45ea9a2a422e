----------------------------- MODULE Retention -----------------------------
(***************************************************************************)
(* The retention worker and the admin's purge                              *)
(* (internal/messaging/retention.go, messages.purge, retention.status).    *)
(*                                                                         *)
(* A cleanup selects who to warn, warns one agent after the other in three *)
(* statements each, selects what has expired, deletes it in batches, one   *)
(* transaction each, and drops the conversations left empty.  Sends,       *)
(* claims and a purge run between any two of these.  Time is counted in    *)
(* units no cleanup outlasts; an age stops growing at Expired, where the   *)
(* worker no longer tells ages apart.  A message's "rows" are its          *)
(* attachments, embedding and queue item.  Row ids of a table are never    *)
(* reused, and `lastRowid` is what last_insert_rowid() answers on the one  *)
(* connection, whichever statement inserted last.                          *)
(***************************************************************************)
EXTENDS Naturals, FiniteSets

CONSTANTS
    Writers,          \* agents that write to each other
    BatchSize,        \* 500 in the code
    Warned, Expired,  \* ages at which a message is warned about and deleted
    MaxRtMessages, MaxRtConvs

VARIABLES
    rtMsgs,       \* set of [id, conv, from, to, age, status, reply, rows, about]
    rtConvs,      \* set of [id, warning]
    nextMsg, nextConv,
    lastRowid,
    cycle,        \* the worker: [pc, targets, seen, agent, about, opened, rowid, ids]
    purge,        \* the purge: [pc, ids]
    sends,        \* a send between its conversation and its message: [pc, ...]
    strayed,      \* history: warnings that took a wrong row id
    halfPurged    \* history: messages whose rows a purge deleted without them

rtVars == <<rtMsgs, rtConvs, nextMsg, nextConv, lastRowid, cycle, purge, sends, strayed, halfPurged>>

System == "system"
Nobody == "nobody"   \* to_agent of a channel message is NULL
NoRow == 0

\* Nobody writes as the system; sendRetentionWarnings needs a window
ASSUME RetentionAssumption ==
    /\ System \notin Writers /\ Nobody \notin Writers
    /\ Warned \in Nat /\ Expired \in Nat /\ Warned < Expired

Asleep == [pc |-> "asleep", targets |-> {}, seen |-> {}, agent |-> Nobody, about |-> NoRow,
           opened |-> NoRow, rowid |-> NoRow, ids |-> {}]
NoPurge == [pc |-> "idle", ids |-> {}]
NoSend == [pc |-> "idle", from |-> Nobody, to |-> Nobody, conv |-> NoRow]

RetentionInit ==
    /\ rtMsgs = {} /\ rtConvs = {}
    /\ nextMsg = 1 /\ nextConv = 1 /\ lastRowid = NoRow
    /\ cycle = Asleep /\ purge = NoPurge /\ sends = NoSend
    /\ strayed = {} /\ halfPurged = {}

Messages(conv) == {m \in rtMsgs : m.conv = conv}
Replies(ids) == {m \in rtMsgs : m.reply \in ids /\ m.id \notin ids}

-----------------------------------------------------------------------------
(* What the rest of the system does to messages.                           *)

NewMessage(conv, from, to, reply, about) ==
    [id |-> nextMsg, conv |-> conv, from |-> from, to |-> to, age |-> 0, status |-> "pending",
     reply |-> reply, rows |-> TRUE, about |-> about]

InsertRtMessage(m) ==
    /\ rtMsgs' = rtMsgs \union {m}
    /\ nextMsg' = nextMsg + 1
    /\ lastRowid' = nextMsg

InsertRtConversation(isWarning) ==
    /\ rtConvs' = rtConvs \union {[id |-> nextConv, warning |-> isWarning]}
    /\ nextConv' = nextConv + 1
    /\ lastRowid' = nextConv

\* SendMessage: a conversation of its own, then the message
OpenConversation(from, to) ==
    /\ sends = NoSend /\ from # to /\ nextConv <= MaxRtConvs /\ nextMsg <= MaxRtMessages
    /\ InsertRtConversation(FALSE)
    /\ sends' = [pc |-> "message", from |-> from, to |-> to, conv |-> nextConv]
    /\ UNCHANGED <<rtMsgs, nextMsg, cycle, purge, strayed, halfPurged>>

\* The foreign key refuses a conversation that is gone
SendFirst ==
    /\ sends.pc = "message"
    /\ sends' = NoSend
    /\ IF \E c \in rtConvs : c.id = sends.conv
       THEN /\ nextMsg <= MaxRtMessages
            /\ InsertRtMessage(NewMessage(sends.conv, sends.from, sends.to, NoRow, NoRow))
       ELSE UNCHANGED <<rtMsgs, nextMsg, lastRowid>>
    /\ UNCHANGED <<rtConvs, nextConv, cycle, purge, strayed, halfPurged>>

\* A reply goes to the conversation of its message, or to a channel
SendReply(m, from, to) ==
    /\ nextMsg <= MaxRtMessages /\ m.from # System
    /\ InsertRtMessage(NewMessage(m.conv, from, to, m.id, NoRow))
    /\ UNCHANGED <<rtConvs, nextConv, cycle, purge, sends, strayed, halfPurged>>

\* ClaimMessages, and MarkDone or a stale claim's failure
ChangeStatus(m, status) ==
    /\ m.from # System
    /\ \/ m.status = "pending" /\ status = "processing"
       \/ m.status = "processing" /\ status = "done"
    /\ rtMsgs' = (rtMsgs \ {m}) \union {[m EXCEPT !.status = status]}
    /\ UNCHANGED <<rtConvs, nextMsg, nextConv, lastRowid, cycle, purge, sends, strayed, halfPurged>>

TimePasses ==
    /\ cycle = Asleep /\ \E m \in rtMsgs : m.age < Expired
    /\ rtMsgs' = {[m EXCEPT !.age = IF m.age < Expired THEN m.age + 1 ELSE m.age] : m \in rtMsgs}
    /\ UNCHANGED <<rtConvs, nextMsg, nextConv, lastRowid, cycle, purge, sends, strayed, halfPurged>>

-----------------------------------------------------------------------------
(* A cleanup: the warnings.                                                *)

InWindow(m) == m.age >= Warned /\ m.age < Expired

\* "Don't re-warn" looks for a warning in the conversation it is about
WarnedHere(conv) == \E w \in Messages(conv) : w.from = System /\ w.about # NoRow /\ w.age = 0

\* A row without recipient does not scan and is passed over
WarningTargets ==
    {[conv |-> m.conv, agents |-> {m.from, m.to}] :
        m \in {q \in rtMsgs : InWindow(q) /\ q.from # System /\ q.to # Nobody /\ ~WarnedHere(q.conv)}}

runCleanup ==
    /\ cycle = Asleep /\ rtMsgs # {}
    /\ cycle' = [Asleep EXCEPT !.pc = "warn", !.targets = WarningTargets]
    /\ UNCHANGED <<rtMsgs, rtConvs, nextMsg, nextConv, lastRowid, purge, sends, strayed, halfPurged>>

Unseen(t) == t.agents \ (cycle.seen \union {System})

\* One warning per agent and cycle: a conversation of its own ...
sendRetentionWarnings(t, a) ==
    /\ cycle.pc = "warn" /\ t \in cycle.targets /\ a \in Unseen(t)
    /\ nextConv <= MaxRtConvs + 2
    /\ InsertRtConversation(TRUE)
    /\ cycle' = [cycle EXCEPT !.pc = "rowid", !.seen = @ \union {a}, !.agent = a, !.about = t.conv,
                              !.opened = nextConv]
    /\ UNCHANGED <<rtMsgs, nextMsg, purge, sends, strayed, halfPurged>>

\* ... whose id is asked for in a statement of its own ...
last_insert_rowid ==
    /\ cycle.pc = "rowid"
    /\ cycle' = [cycle EXCEPT !.pc = "message", !.rowid = lastRowid]
    /\ UNCHANGED <<rtMsgs, rtConvs, nextMsg, nextConv, lastRowid, purge, sends, strayed, halfPurged>>

\* ... and the message, refused if there is no such conversation
InsertWarning ==
    LET home == {c \in rtConvs : c.id = cycle.rowid} IN
    /\ cycle.pc = "message" /\ nextMsg <= MaxRtMessages + 2
    /\ IF home # {}
       THEN InsertRtMessage(NewMessage(cycle.rowid, System, cycle.agent, NoRow, cycle.about))
       ELSE UNCHANGED <<rtMsgs, nextMsg, lastRowid>>
    /\ strayed' = IF home # {} /\ cycle.rowid # cycle.opened THEN strayed \union {nextMsg} ELSE strayed
    /\ cycle' = [cycle EXCEPT !.pc = "warn"]
    /\ UNCHANGED <<rtConvs, nextConv, purge, sends, halfPurged>>

-----------------------------------------------------------------------------
(* A cleanup: the deletion.                                                *)

\* Deletes messages with their rows; a reply that stays makes the DELETE of the
\* messages fail.  `keepGoing`: the error is not looked at and the rest commits
DeleteMessages(ids, keepGoing) ==
    LET refused == Replies(ids) # {} IN
    /\ rtMsgs' = IF ~refused THEN {m \in rtMsgs : m.id \notin ids}
                 ELSE IF keepGoing
                      THEN {IF m.id \in ids THEN [m EXCEPT !.rows = FALSE] ELSE m : m \in rtMsgs}
                      ELSE rtMsgs
    /\ halfPurged' = IF refused /\ keepGoing THEN halfPurged \union ids ELSE halfPurged

NonEmpty(msgs) == {c \in rtConvs : \E m \in msgs : m.conv = c.id}

deleteExpiredMessages ==
    /\ cycle.pc = "warn" /\ \A t \in cycle.targets : Unseen(t) = {}
    /\ LET old == {m.id : m \in {q \in rtMsgs : q.age >= Expired /\ q.status # "processing"}} IN
       cycle' = IF old = {} THEN Asleep ELSE [Asleep EXCEPT !.pc = "delete", !.ids = old]
    /\ UNCHANGED <<rtMsgs, rtConvs, nextMsg, nextConv, lastRowid, purge, sends, strayed, halfPurged>>

deleteRtBatch(batch) ==
    /\ cycle.pc = "delete" /\ batch # {} /\ batch \subseteq cycle.ids
    /\ Cardinality(batch) = BatchSize \/ (batch = cycle.ids /\ Cardinality(batch) < BatchSize)
    /\ DeleteMessages(batch, FALSE)
    /\ cycle' = [cycle EXCEPT !.ids = @ \ batch]
    /\ UNCHANGED <<rtConvs, nextMsg, nextConv, lastRowid, purge, sends, strayed>>

DropEmptyConversations ==
    /\ cycle.pc = "delete" /\ cycle.ids = {}
    /\ rtConvs' = NonEmpty(rtMsgs)
    /\ cycle' = Asleep
    /\ UNCHANGED <<rtMsgs, nextMsg, nextConv, lastRowid, purge, sends, strayed, halfPurged>>

-----------------------------------------------------------------------------
(* messages.purge: a selection, then one transaction.                      *)

\* "12m" are months, "7d" days, the rest a duration; 0 when there is no period
Day == 1
ParseRetentionPeriod(s) ==
    CASE s.n = 0 -> 0
      [] s.unit = "m" -> s.n * 30 * Day
      [] s.unit = "d" -> s.n * Day
      [] OTHER -> 0

\* No filter, or an age that says nothing, is refused
handleMessagesPurge(older, agent) ==
    LET age == ParseRetentionPeriod(older) IN
    /\ purge = NoPurge /\ (age > 0 \/ agent # Nobody)
    /\ LET ids == {m.id : m \in {q \in rtMsgs :
                      (age > 0 => q.age >= age) /\ (agent # Nobody => agent \in {q.from, q.to})}} IN
       ids # {} /\ purge' = [pc |-> "delete", ids |-> ids]
    /\ UNCHANGED <<rtMsgs, rtConvs, nextMsg, nextConv, lastRowid, cycle, sends, strayed, halfPurged>>

PurgeMessages ==
    /\ purge.pc = "delete"
    /\ DeleteMessages(purge.ids, TRUE)
    /\ rtConvs' = {c \in rtConvs : \E m \in rtMsgs' : m.conv = c.id}
    /\ purge' = NoPurge
    /\ UNCHANGED <<nextMsg, nextConv, lastRowid, cycle, sends, strayed>>

\* The process stops
RetentionCrash ==
    /\ <<cycle, purge, sends>> # <<Asleep, NoPurge, NoSend>>
    /\ cycle' = Asleep /\ purge' = NoPurge /\ sends' = NoSend
    /\ UNCHANGED <<rtMsgs, rtConvs, nextMsg, nextConv, lastRowid, strayed, halfPurged>>

Periods == {[n |-> 0, unit |-> "d"], [n |-> 1, unit |-> "d"]}

RetentionNext ==
    \/ \E a, b \in Writers : OpenConversation(a, b)
    \/ SendFirst \/ TimePasses \/ RetentionCrash
    \/ \E m \in rtMsgs : \/ ChangeStatus(m, "processing") \/ ChangeStatus(m, "done")
                         \/ \E a \in Writers : SendReply(m, a, m.from) \/ SendReply(m, a, Nobody)
    \/ runCleanup \/ last_insert_rowid \/ InsertWarning
    \/ \E t \in cycle.targets, a \in Writers : sendRetentionWarnings(t, a)
    \/ deleteExpiredMessages \/ DropEmptyConversations
    \/ \E batch \in SUBSET cycle.ids : deleteRtBatch(batch)
    \/ \E s \in Periods, a \in Writers \union {Nobody} : handleMessagesPurge(s, a)
    \/ PurgeMessages

RetentionSpec == RetentionInit /\ [][RetentionNext]_rtVars

-----------------------------------------------------------------------------
(* retention.status.                                                       *)

\* The buckets count messages younger than a bound and not younger than the last
messageAgeDistribution(bounds) ==
    [b \in bounds \union {Expired + 1} |->
        Cardinality({m \in rtMsgs : m.age < b /\ \A c \in bounds : c < b => m.age >= c})]

Status == [retention |-> Expired, window |-> Expired - Warned, ages |-> messageAgeDistribution({Warned, Expired})]
handleRetentionStatus == Status

-----------------------------------------------------------------------------
RetentionTypeOK ==
    /\ \A m, q \in rtMsgs : m.id = q.id => m = q
    /\ \A m \in rtMsgs : m.id < nextMsg /\ m.age <= Expired
    /\ \A c \in rtConvs : c.id < nextConv

\* The foreign keys, which no clean-up defers: a message has its conversation and
\* a reply its message, whatever a clean-up deletes between two statements
NothingDangles ==
    \A m \in rtMsgs : /\ \E c \in rtConvs : c.id = m.conv
                      /\ m.reply # NoRow => \E q \in rtMsgs : q.id = m.reply

\* deleteBatch, PurgeMessages: a message keeps its attachments and its embedding
\* while it is there, unless a purge was refused the message and not its rows
RowsWithMessage ==
    \A m \in rtMsgs : ~m.rows => m.id \in halfPurged

\* sendRetentionWarnings: a warning stands alone in its conversation, unless an
\* insert came between the worker's INSERT and its last_insert_rowid()
WarningsApart ==
    \A w \in rtMsgs : w.from = System /\ w.id \notin strayed =>
        /\ \A q \in Messages(w.conv) : q = w \/ q.id \in strayed
        /\ \E c \in rtConvs : c.id = w.conv /\ c.warning

\* deleteExpiredMessages: what the worker is about to delete has expired
OnlyExpired ==
    cycle.pc = "delete" => \A m \in rtMsgs : m.id \in cycle.ids => m.age >= Expired

\* messageAgeDistribution: the buckets add up to the messages there are
AgesPartition ==
    LET ages == handleRetentionStatus.ages IN
    ages[Warned] + ages[Expired] + ages[Expired + 1] = Cardinality(rtMsgs)

RetentionSafe ==
    /\ RetentionTypeOK /\ NothingDangles /\ RowsWithMessage /\ WarningsApart /\ OnlyExpired /\ AgesPartition

-----------------------------------------------------------------------------
(* What a document says.                                                   *)

\* specs/004, FR-019: "The retention cleanup MUST skip messages with status
\* "processing""
ClaimedSpared ==
    [][cycle.pc = "delete" /\ cycle'.ids # cycle.ids =>
          \A m \in rtMsgs : m.status = "processing" => \E q \in rtMsgs' : q.id = m.id]_rtVars
=============================================================================
