----------------------------- MODULE Injection -----------------------------
(***************************************************************************)
(* Proactive memory: the links the send path makes between memories        *)
(* (messaging/auto_links.go), the context packet that is put into a tool's *)
(* answer (search/injection.go, mcp/injection_wrap.go), the ring that      *)
(* records packets (messaging/memory_injections.go) and the core memories  *)
(* (messaging/memory_core.go and the admin commands).                      *)
(*                                                                         *)
(* The link listener runs after the message is stored, so other messages   *)
(* may be there already; a packet is recorded by a goroutine after the     *)
(* answer has gone out.  WrapInjection sets neither a status provider nor  *)
(* a pin provider, so packets are neither filtered nor overlaid.           *)
(***************************************************************************)
EXTENDS Naturals, Sequences, FiniteSets, SequencesExt

CONSTANTS
    Thinkers, ThinkerOwner,   \* agents and the owner of each
    Sizes,                    \* lengths of bodies, in characters
    NamedIds,                 \* what reply_to_message_id of the metadata may say, 0 is nothing
    TriedSizes, TriedBudgets, \* lengths and budgets the budget is checked for
    Overhead,                 \* what an item costs besides its body
    BudgetTokens, MaxItems,
    CoreMaxBytes, CoreSizes,  \* the limit, and lengths of core memories that are tried
    MaxPool,                  \* bound: messages
    MaxPackets                \* bound: packets

ASSUME InjectionAssumption ==
    /\ Sizes \subseteq Nat /\ NamedIds \subseteq Nat /\ TriedSizes \subseteq Nat /\ TriedBudgets \subseteq Nat /\ CoreSizes \subseteq Nat
    /\ {Overhead, BudgetTokens, MaxItems, CoreMaxBytes} \subseteq Nat

VARIABLES
    pool,         \* sequence of [from, size, reply, meta, at, recent, live]: #open-brain
    heard,        \* messages whose listener has run
    memLinks,     \* set of [src, dst, type, owner]
    coreOf,       \* agent -> length of its core memory, 0 without one
    recording,    \* packets sent and not yet in the ring: set of [n, owner]
    ring,         \* the same, with age "new" or "day"
    delivered, lostRecords, cleaned,   \* history: packets sent, records lost and removed
    late          \* history: messages whose listener ran after another message was stored

ijVars == <<pool, heard, memLinks, coreOf, recording, ring, delivered, lostRecords, cleaned, late>>
ijAudit == <<recording, ring, delivered, lostRecords, cleaned>>

NoOne == "none"

InjectionInit ==
    /\ pool = <<>> /\ heard = {} /\ memLinks = {}
    /\ coreOf = [a \in Thinkers |-> 0]
    /\ recording = {} /\ ring = {}
    /\ delivered = 0 /\ lostRecords = 0 /\ cleaned = 0
    /\ late = {}

-----------------------------------------------------------------------------
(* A memory is stored, then its listener links it.                         *)

\* reply_to is a foreign key of a message that is there; nobody checks the id the
\* sender puts into the metadata
Remember(a, size, reply, meta, at) ==
    /\ Len(pool) < MaxPool /\ at # a
    /\ reply # 0 => pool[reply].live
    /\ pool' = Append(pool, [from |-> a, size |-> size, reply |-> reply, meta |-> meta, at |-> at,
                             recent |-> TRUE, live |-> TRUE])
    /\ late' = late \union (DOMAIN pool \ heard)
    /\ UNCHANGED <<heard, memLinks, coreOf, ijAudit>>

LatestOf(ids) == IF ids = {} THEN 0 ELSE CHOOSE i \in ids : \A j \in ids : j <= i

mostRecentMessageFromAgentInChannel(agent, exclude) ==
    LatestOf({i \in DOMAIN pool : pool[i].live /\ pool[i].from = agent /\ i # exclude})
mostRecentMessageInChannel(before) ==
    LatestOf({i \in DOMAIN pool : pool[i].live /\ i < before})

\* Unique by source, destination and type; there is no foreign key
AddLinks(links) == memLinks' = memLinks \union links

\* The reply_to column, or else extractReplyToFromMetadata
ReplyOf(msg) == IF msg.reply # 0 THEN msg.reply ELSE msg.meta

OnMessageSent(i) ==
    LET msg == pool[i]
        link(dst, type) == IF dst = 0 THEN {}
                           ELSE {[src |-> i, dst |-> dst, type |-> type, owner |-> ThinkerOwner[msg.from]]} IN
    /\ i \in DOMAIN pool \ heard
    /\ heard' = heard \union {i}
    /\ AddLinks(link(ReplyOf(msg), "reply_to")
                \union (IF msg.at \in {NoOne, msg.from} THEN {}
                        ELSE link(mostRecentMessageFromAgentInChannel(msg.at, i), "mention"))
                \union link(mostRecentMessageInChannel(i), "channel_cooccurrence"))
    /\ UNCHANGED <<pool, coreOf, late, ijAudit>>

\* Retention, and the passing of the recency window
Forget(i) ==
    /\ pool[i].live /\ pool' = [pool EXCEPT ![i].live = FALSE]
    /\ UNCHANGED <<heard, memLinks, coreOf, late, ijAudit>>
WindowPasses ==
    /\ \E i \in DOMAIN pool : pool[i].recent
    /\ pool' = [i \in DOMAIN pool |-> [pool[i] EXCEPT !.recent = FALSE]]
    /\ UNCHANGED <<heard, memLinks, coreOf, late, ijAudit>>

-----------------------------------------------------------------------------
(* The packet.                                                             *)

EstimateTokens(chars) == (chars + 3) \div 4
itemChars(item) == item.size + Overhead

\* One turn of the loop: an item that fits is taken; the first that does not is
\* cut to what is left, if anything is, and ends the packet
takeItem(st, item, budget) ==
    LET cost == EstimateTokens(itemChars(item))
        left == budget - st.used
        cut == [item EXCEPT !.size = left * 4 - Overhead, !.truncated = TRUE] IN
    IF st.used + cost <= budget
    THEN [used |-> st.used + cost, out |-> Append(st.out, item), done |-> FALSE]
    ELSE [used |-> st.used, done |-> TRUE,
          out |-> IF left * 4 <= Overhead THEN st.out ELSE Append(st.out, cut)]

applyTokenBudget(items, maxItems, budget) ==
    LET after[k \in 0..Len(items)] ==
          IF k = 0 THEN [used |-> 0, out |-> <<>>, done |-> FALSE]
          ELSE LET st == after[k - 1] IN
               IF st.done \/ k > maxItems THEN st ELSE takeItem(st, items[k], budget) IN
    after[Len(items)].out

Item(i) == [id |-> i, size |-> pool[i].size, truncated |-> FALSE]

\* Mutant: results are not filtered by the owner.
scoreOnly(results, owner) == [k \in DOMAIN results |-> Item(results[k])]

\* What a loop over s appends that skips all but some positions
Kept(s, positions) ==
    LET upTo[k \in 0..Len(s)] ==
          IF k = 0 THEN <<>> ELSE IF k \in positions THEN Append(upTo[k - 1], s[k]) ELSE upTo[k - 1] IN
    upTo[Len(s)]

\* Results of a search that the caller's owner's agents wrote
filterAndScore(results, owner) ==
    Kept([k \in DOMAIN results |-> Item(results[k])],
         {k \in DOMAIN results : ThinkerOwner[pool[results[k]].from] = owner})

\* Without a query: the owner's latest memories of the window, newest first
recentMemoriesForOwner(owner) ==
    LET newest(k) == Len(pool) + 1 - k IN
    Kept([k \in DOMAIN pool |-> Item(newest(k))],
         {k \in DOMAIN pool : LET m == pool[newest(k)] IN
                                 m.live /\ m.recent /\ ThinkerOwner[m.from] = owner})

\* The core memory is added after the budget; only my_status asks for it
BuildContextPacket(a, query, results) ==
    LET owner == ThinkerOwner[a]
        found == IF query THEN filterAndScore(results, owner) ELSE recentMemoriesForOwner(owner) IN
    [agent |-> a,
     items |-> applyTokenBudget(found, MaxItems, BudgetTokens),
     core |-> IF query THEN 0 ELSE coreOf[a]]

\* An empty packet is not delivered; the record is written by a goroutine
WrapInjection(a, query, results) ==
    LET pkt == BuildContextPacket(a, query, results) IN
    /\ delivered < MaxPackets /\ BudgetTokens > 0
    /\ pkt.items # <<>> \/ pkt.core > 0
    /\ delivered' = delivered + 1
    /\ recording' = recording \union {[n |-> delivered, owner |-> ThinkerOwner[a]]}
    /\ UNCHANGED <<pool, heard, memLinks, coreOf, ring, lostRecords, cleaned, late>>

\* send_message, search and execute give a query, my_status does not
wrapQuery(a, results) == WrapInjection(a, TRUE, results)
wrapStatus(a) == WrapInjection(a, FALSE, <<>>)

recordInjection(r) ==
    /\ r \in recording
    /\ recording' = recording \ {r}
    /\ ring' = ring \union {[rec |-> r, age |-> "new"]}
    /\ UNCHANGED <<pool, heard, memLinks, coreOf, delivered, lostRecords, cleaned, late>>

DayPasses ==
    /\ \E r \in ring : r.age = "new"
    /\ ring' = {[rec |-> r.rec, age |-> "day"] : r \in ring}
    /\ UNCHANGED <<pool, heard, memLinks, coreOf, recording, delivered, lostRecords, cleaned, late>>

\* An hourly tick of the stalemate worker
maybeCleanupInjections ==
    LET old == {r \in ring : r.age = "day"} IN
    /\ old # {}
    /\ ring' = ring \ old
    /\ cleaned' = cleaned + Cardinality(old)
    /\ UNCHANGED <<pool, heard, memLinks, coreOf, recording, delivered, lostRecords, late>>

ListRecent(owner) == {r.rec : r \in {q \in ring : q.rec.owner = owner}}

-----------------------------------------------------------------------------
(* Core memories, over the admin socket.                                   *)

handleMemoryCoreSet(a, size) ==
    /\ size <= CoreMaxBytes
    /\ coreOf' = [coreOf EXCEPT ![a] = size]
    /\ UNCHANGED <<pool, heard, memLinks, late, ijAudit>>

handleMemoryCoreDelete(a) ==
    /\ coreOf' = [coreOf EXCEPT ![a] = 0]
    /\ UNCHANGED <<pool, heard, memLinks, late, ijAudit>>

handleMemoryCoreGet(a) == [exists |-> coreOf[a] > 0, blob |-> coreOf[a]]

\* The process stops: listeners and records under way are lost
InjectionCrash ==
    /\ recording # {} \/ heard # DOMAIN pool
    /\ recording' = {}
    /\ lostRecords' = lostRecords + Cardinality(recording)
    /\ heard' = DOMAIN pool
    /\ UNCHANGED <<pool, memLinks, coreOf, ring, delivered, cleaned, late>>

Results == UNION {SetToSeqs(s) : s \in SUBSET {i \in DOMAIN pool : pool[i].live}}

InjectionNext ==
    \/ \E a \in Thinkers :
          \/ \E size \in Sizes, reply \in 0..Len(pool), meta \in NamedIds, at \in Thinkers \union {NoOne} :
               Remember(a, size, reply, meta, at)
          \/ wrapStatus(a) \/ \E results \in Results : wrapQuery(a, results)
          \/ handleMemoryCoreDelete(a) \/ \E size \in CoreSizes : handleMemoryCoreSet(a, size)
    \/ \E i \in DOMAIN pool : OnMessageSent(i) \/ Forget(i)
    \/ \E r \in recording : recordInjection(r)
    \/ WindowPasses \/ DayPasses \/ maybeCleanupInjections \/ InjectionCrash

InjectionSpec == InjectionInit /\ [][InjectionNext]_ijVars

-----------------------------------------------------------------------------
InjectionTypeOK ==
    /\ heard \subseteq DOMAIN pool
    /\ coreOf \in [Thinkers -> 0..CoreMaxBytes]
    /\ \A l \in memLinks : l.src \in DOMAIN pool /\ l.dst \in Nat \ {0}

Chars(items) == FoldSeq(LAMBDA item, sum : itemChars(item) + sum, 0, items)
Costs(items) == [k \in DOMAIN items |-> EstimateTokens(itemChars(items[k]))]
Tokens(items) == MapThenSumSet(LAMBDA k : Costs(items)[k], DOMAIN items)

\* The packets that could be sent now: what a search may find, in any order
Packets == {BuildContextPacket(a, FALSE, <<>>) : a \in Thinkers}
           \union UNION {{BuildContextPacket(a, TRUE, results) : results \in Results} : a \in Thinkers}

\* Up to three memories of the lengths that are tried
Candidates == UNION {[1..n -> [id : {0}, size : TriedSizes, truncated : {FALSE}]] : n \in 0..3}

PacketFits(c, maxItems, budget) ==
    LET p == applyTokenBudget(c, maxItems, budget)  n == Len(p)
        whole == IF n > 0 /\ p[n].truncated THEN n - 1 ELSE n IN
    /\ Tokens(p) <= budget /\ n <= maxItems /\ n <= Len(c)
    /\ \A k \in 1..whole : p[k] = c[k]
    /\ whole < n => p[n].size \in 1..(c[n].size - 1)
    /\ whole < Len(c) /\ whole < maxItems => Tokens(SubSeq(c, 1, whole + 1)) > budget

\* applyTokenBudget: the memories of a packet stay within the budget and the
\* number of items and keep their order; only the last one is cut, to something,
\* and no memory is left out that would have fitted
BudgetHeld ==
    \A c \in Candidates, maxItems \in 1..3, budget \in TriedBudgets : PacketFits(c, maxItems, budget)

\* filterAndScore, recentMemoriesForOwner: a packet has each memory once, and only
\* memories of the caller's owner, whatever the search found
OwnMemories ==
    \A p \in Packets : \A j, k \in DOMAIN p.items :
        /\ ThinkerOwner[pool[p.items[k].id].from] = ThinkerOwner[p.agent]
        /\ p.items[j].id = p.items[k].id => j = k

\* recordInjection, Cleanup: every packet that went out is in the ring, on its way
\* there, older than a day, or lost in a stop; none is recorded twice
AuditComplete ==
    /\ delivered = Cardinality(ring) + Cardinality(recording) + cleaned + lostRecords
    /\ \A r, q \in ring : r.rec.n = q.rec.n => r = q
    /\ \A r \in ring : r.rec \in ListRecent(r.rec.owner)

\* OnMessageSent: what the rules find themselves is an earlier memory, or for a
\* mention another one stored before the listener ran.  Only the id a sender put
\* into the metadata can make a link to a later memory, to itself or to none: it
\* is taken as it is
LinksPointBack ==
    \A l \in memLinks :
        \/ l.dst \in 1..(l.src - 1)
        \/ l.type = "mention" /\ l.src \in late /\ l.dst \in DOMAIN pool \ {l.src}
        \/ l.type = "reply_to" /\ pool[l.src].reply = 0 /\ l.dst = pool[l.src].meta

InjectionSafe ==
    /\ InjectionTypeOK /\ BudgetHeld /\ OwnMemories /\ AuditComplete /\ LinksPointBack

-----------------------------------------------------------------------------
(* What a document says.                                                   *)

\* specs/020, FR-006: "The packet MUST ... stay within a configurable token budget"
PacketWithinBudget ==
    \A p \in Packets : EstimateTokens(p.core + Chars(p.items)) <= BudgetTokens
=============================================================================
