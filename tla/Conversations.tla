--------------------------- MODULE Conversations ---------------------------
(***************************************************************************)
(* Conversations, the inbox with its read pointers, and the views agents   *)
(* and the web user have of the stored messages (messaging/service.go,     *)
(* messaging/store.go and the MCP and REST handlers above them).           *)
(*                                                                         *)
(* Message and conversation ids are positions: AUTOINCREMENT and one       *)
(* writer.  SendMessage is three statements (look for the conversation,    *)
(* insert it, insert the message); a read with mark_read is one query and  *)
(* then one update per conversation.  Filters, limits and offsets of a     *)
(* query are any subset of what it matches, the priority order is left     *)
(* open.  Claiming inside one web request is atomic here; its races are in *)
(* MessageQueue.  Who is in which channel does not change here (Channels).  *)
(***************************************************************************)
EXTENDS Integers, Sequences, FiniteSets, FiniteSetsExt

CONSTANTS
    Speakers,     \* agents other than "system"
    Owned,        \* the agents of the web user
    Human,        \* the web user's human agent
    Rooms,        \* channel ids, positive
    RoomMembers,  \* channel -> its members
    Topics,       \* subjects of direct messages, "" is none
    Posts,        \* concurrent requests: sends and marking reads
    MaxMessages, MaxConversations,
    MaxLast       \* largest last_message_id a client names

NoSubject == ""
Blank == ""             \* the empty string as a to_agent
NoRecipient == "NULL"   \* what InsertMessage stores as to_agent when there is none

ASSUME ConversationsAssumption ==
    /\ Human \in Speakers /\ Owned \subseteq Speakers
    /\ "system" \notin Speakers /\ {NoRecipient, Blank} \intersect Speakers = {}
    /\ Rooms \subseteq Nat \ {0} /\ IsFiniteSet(Rooms) /\ IsFiniteSet(Posts)
    /\ RoomMembers \in [Rooms -> SUBSET Speakers]
    /\ MaxMessages \in Nat /\ MaxConversations \in Nat
    /\ MaxLast \in Nat /\ MaxLast >= MaxMessages

VARIABLES
    convs,      \* sequence of [subject, room, pair, since]
    messages,   \* sequence of message rows
    lastRead,   \* inbox_state: agent -> conversation -> id
    posts,      \* what each request is doing
    returned,   \* history: <<agent, id>> returned by a marking read
    passed,     \* history: <<agent, id>> a marking read left out on purpose
    ahead       \* history: <<conversation, id>> the user marked read before the id was given out

cvVars == <<convs, messages, lastRead, posts, returned, passed, ahead>>

ConvIds == 1..Len(convs)
MsgIds == 1..Len(messages)
AtRest == [pc |-> "idle"]

ConversationsInit ==
    /\ convs = <<>> /\ messages = <<>>
    /\ lastRead = [a \in Speakers |-> [k \in 1..MaxConversations |-> 0]]
    /\ posts = [s \in Posts |-> AtRest]
    /\ returned = {} /\ passed = {} /\ ahead = {}

-----------------------------------------------------------------------------
(* Sending.                                                                *)

Sending == {s \in Posts : posts[s].pc \in {"conversation", "message"}}

Between(m, a, b) == {m.from, m.to} = {a, b}

\* Mutant: only threads the sender began are found.
FindOwnConversation(subject, from, to) ==
    {k \in ConvIds : /\ convs[k].subject = subject /\ convs[k].room = 0
                     /\ \E i \in MsgIds : /\ messages[i].conv = k
                                          /\ messages[i].from = from /\ messages[i].to = to}

\* The newest direct conversation of that subject with a message between them
FindConversation(subject, from, to) ==
    {k \in ConvIds : /\ convs[k].subject = subject /\ convs[k].room = 0
                     /\ \E i \in MsgIds : /\ messages[i].conv = k
                                          /\ Between(messages[i], from, to)}

\* Exactly one of to and room is given; a subject joins an earlier thread
SendMessage(s, from, to, room, conv, subject, reply) ==
    LET found == IF conv # 0 THEN {conv}
                 ELSE IF subject # NoSubject /\ to # NoRecipient THEN FindConversation(subject, from, to)
                 ELSE {} IN
    /\ posts[s] = AtRest /\ Len(messages) + Cardinality(Sending) < MaxMessages
    /\ (to = NoRecipient) # (room = 0)
    /\ conv = 0 \/ conv \in ConvIds
    /\ posts' = [posts EXCEPT ![s] =
         [pc |-> IF found = {} THEN "conversation" ELSE "message",
          conv |-> IF found = {} THEN 0 ELSE Max(found), since |-> Len(messages),
          from |-> from, to |-> to, room |-> room, subject |-> subject,
          reply |-> reply]]
    /\ UNCHANGED <<convs, messages, lastRead, returned, passed, ahead>>

InsertConversation(s) ==
    LET q == posts[s] IN
    /\ q.pc = "conversation" /\ Len(convs) < MaxConversations
    /\ convs' = Append(convs, [subject |-> q.subject, room |-> q.room,
                               pair |-> {q.from, q.to}, since |-> q.since])
    /\ posts' = [posts EXCEPT ![s].pc = "message", ![s].conv = Len(convs) + 1]
    /\ UNCHANGED <<messages, lastRead, returned, passed, ahead>>

InsertMessage(s) ==
    LET q == posts[s] IN
    /\ q.pc = "message"
    /\ messages' = Append(messages,
         [conv |-> q.conv, from |-> q.from, to |-> q.to, room |-> q.room,
          reply |-> q.reply, status |-> "pending"])
    /\ posts' = [posts EXCEPT ![s] = AtRest]
    /\ UNCHANGED <<convs, lastRead, returned, passed, ahead>>

\* The request is cancelled or a statement fails: the conversation may stay
SendFails(s) ==
    /\ s \in Sending
    /\ posts' = [posts EXCEPT ![s] = AtRest]
    /\ UNCHANGED <<convs, messages, lastRead, returned, passed, ahead>>

\* send_message of the bridge: a direct message or a channel by id
callSendMessage(s, from, to, room, subject, reply) ==
    SendMessage(s, from, to, room, 0, subject, reply)

\* messages.send of the admin socket, here for the server's own notices
handleMessagesSend(s, from, to, subject) == SendMessage(s, from, to, 0, 0, subject, 0)

\* POST /api/messages: a browser session always speaks as the human agent and
\* may name the conversation
RestSendMessage(s, to, room, conv, subject) ==
    SendMessage(s, Human, to, room, conv, subject, 0)

-----------------------------------------------------------------------------
(* The inbox.                                                              *)

buildInboxConditions(a, includeRead) ==
    {i \in MsgIds : /\ messages[i].to = a
                    /\ includeRead \/ i > lastRead[a][messages[i].conv]}

CountInboxMessages(a, includeRead) == Cardinality(buildInboxConditions(a, includeRead))

\* Mutant: the pointer is overwritten.
OverwriteInboxState(a, k, id) == lastRead' = [lastRead EXCEPT ![a][k] = id]

\* MAX(last_read_message_id, excluded.last_read_message_id)
UpdateInboxState(a, k, id) ==
    lastRead' = [lastRead EXCEPT ![a][k] = Max({@, id})]

LastReturned(page, k) == Max({i \in page : messages[i].conv = k})

\* read_inbox with mark_read: the page, and for each of its conversations the
\* pointer it will be given
ReadInbox(r, a, includeRead, page) ==
    LET match == buildInboxConditions(a, includeRead)
        threads == {messages[i].conv : i \in page} IN
    /\ posts[r] = AtRest
    /\ page # {} /\ page \subseteq match
    /\ posts' = [posts EXCEPT ![r] = [pc |-> "mark", agent |-> a,
                    marks |-> {<<k, LastReturned(page, k)>> : k \in threads}]]
    /\ returned' = returned \union {<<a, i>> : i \in page}
    /\ passed' = passed \union
         {<<a, i>> : i \in {j \in match \ page : /\ messages[j].conv \in threads
                                                  /\ j < LastReturned(page, messages[j].conv)}}
    /\ UNCHANGED <<convs, messages, lastRead, ahead>>

callReadInbox(r, a, includeRead, page) == ReadInbox(r, a, includeRead, page)

GetConversationIDsForDM(a, peer, last) ==
    {messages[i].conv : i \in {j \in MsgIds : /\ j <= last /\ messages[j].room = 0
                                                  /\ Between(messages[j], a, peer)}}

GetConversationIDsForChannel(room, last) ==
    {messages[i].conv : i \in {j \in MsgIds : j <= last /\ messages[j].room = room}}

\* POST /api/notifications/mark-read: the id the client names, which need not be
\* that of a message, goes to every conversation with a message of that peer or
\* channel up to it
MarkRead(r, threads, last) ==
    /\ posts[r] = AtRest /\ threads # {}
    /\ posts' = [posts EXCEPT ![r] = [pc |-> "mark", agent |-> Human,
                                      marks |-> threads \X {last}]]
    /\ passed' = passed \union
         {<<Human, i>> : i \in {j \in MsgIds : j <= last /\ messages[j].conv \in threads}}
    /\ ahead' = ahead \union (threads \X ((Len(messages) + 1)..last))
    /\ UNCHANGED <<convs, messages, lastRead, returned>>

MarkReadDM(r, peer, last) == MarkRead(r, GetConversationIDsForDM(Human, peer, last), last)
MarkReadChannel(r, room, last) == MarkRead(r, GetConversationIDsForChannel(room, last), last)

\* One conversation after the other; an error is logged and skipped
MarkConversation(r, mark) ==
    /\ posts[r].pc = "mark" /\ mark \in posts[r].marks
    /\ UpdateInboxState(posts[r].agent, mark[1], mark[2])
    /\ posts' = [posts EXCEPT ![r] =
                   IF posts[r].marks = {mark} THEN AtRest
                   ELSE [posts[r] EXCEPT !.marks = posts[r].marks \ {mark}]]
    /\ UNCHANGED <<convs, messages, returned, passed, ahead>>

MarkFails(r) ==
    /\ posts[r].pc = "mark"
    /\ posts' = [posts EXCEPT ![r] = AtRest]
    /\ UNCHANGED <<convs, messages, lastRead, returned, passed, ahead>>

\* PATCH /api/messages/{id}: a pending message is claimed first, by claiming
\* the first of its recipient by priority and time, which may be another
MarkDoneRequest(i) ==
    LET waiting == {j \in MsgIds : messages[j].to = messages[i].to
                                   /\ messages[j].status = "pending"} IN
    /\ messages[i].to \in Owned /\ messages[i].status # "done"
    /\ \E c \in (IF messages[i].status = "pending" THEN waiting ELSE {i}) :
         messages' = [messages EXCEPT ![c].status = IF c = i THEN "done" ELSE "processing"]
    /\ UNCHANGED <<convs, lastRead, posts, returned, passed, ahead>>

-----------------------------------------------------------------------------
(* The views.                                                              *)

GetConversationMessages(k) == {i \in MsgIds : messages[i].conv = k}
GetReplies(id) == {i \in MsgIds : messages[i].reply = id}
GetReplyCounts(ids) == [id \in {messages[i].reply : i \in MsgIds} \intersect ids |->
                          Cardinality({i \in MsgIds : messages[i].reply = id})]
EnrichedReplyCount(id) ==
    LET counts == GetReplyCounts({id}) IN IF id \in DOMAIN counts THEN counts[id] ELSE 0
GetChannelMessages(room) == {i \in MsgIds : messages[i].room = room}
CountPendingDMs(a) == Cardinality({i \in MsgIds : /\ messages[i].to = a /\ messages[i].room = 0
                                                  /\ messages[i].status = "pending"})
GetPendingDMs(a) == {i \in MsgIds : /\ messages[i].to = a /\ messages[i].room = 0
                                    /\ messages[i].status \in {"pending", "processing"}
                                    /\ messages[i].from # "system"}
GetSystemNotifications(a) == {i \in MsgIds : /\ messages[i].to = a /\ messages[i].from = "system"
                                             /\ messages[i].status = "pending"}
GetDMMessages(agents, peer) ==
    {i \in MsgIds : /\ messages[i].room = 0
                    /\ \/ messages[i].from \in agents /\ messages[i].to = peer
                       \/ messages[i].from = peer /\ messages[i].to \in agents}
GetDMPartners(agents) ==
    {IF messages[i].from \in agents THEN messages[i].to ELSE messages[i].from :
       i \in {j \in MsgIds : messages[j].room = 0
                             /\ {messages[j].from, messages[j].to} \intersect agents # {}}}
GetDMUnreadCounts(a) ==
    [p \in {messages[i].from : i \in {j \in MsgIds : messages[j].to = a /\ messages[j].room = 0}}
             \ {"system"} |->
       Cardinality({i \in MsgIds : /\ messages[i].to = a /\ messages[i].room = 0
                                   /\ messages[i].from = p
                                   /\ i > lastRead[a][messages[i].conv]})]
\* MIN over the channel's conversations, MAX over those with a peer
GetLastReadForChannel(a, room) ==
    LET threads == {messages[i].conv : i \in GetChannelMessages(room)} IN
    IF threads = {} THEN 0 ELSE Min({lastRead[a][k] : k \in threads})
GetChannelSummaries(a, room) ==
    [unread |-> Cardinality({i \in GetChannelMessages(room) : /\ messages[i].from # a
                                                             /\ i > lastRead[a][messages[i].conv]}),
     newest |-> Max({0} \union GetChannelMessages(room))]
GetLastReadForDM(agents, peer) ==
    LET threads == {messages[i].conv : i \in GetDMMessages(agents, peer)} IN
    Max({0} \union {lastRead[a][k] : a \in agents, k \in threads})
\* The third case asks for an empty to_agent; that of a channel message is NULL
buildSearchConditions(a) ==
    {i \in MsgIds : \/ a \in {messages[i].from, messages[i].to}
                    \/ /\ messages[i].room # 0 /\ messages[i].to = Blank
                       /\ a \in RoomMembers[messages[i].room]}

\* my_status
handleMyStatus(a) == [dms |-> GetPendingDMs(a), total |-> CountPendingDMs(a),
                      system |-> GetSystemNotifications(a)]

\* messages.list, messages.search and conversations.list of the admin socket
handleMessagesList(a) == {i \in MsgIds : a \in {messages[i].from, messages[i].to}}
handleConversationsList == [k \in ConvIds |-> Cardinality(GetConversationMessages(k))]

\* GET /api/messages/{id} and /api/conversations/{id}
isAgentOwnedBy(a) == a \in Owned
RestGetMessage(i) == isAgentOwnedBy(messages[i].from) \/ isAgentOwnedBy(messages[i].to)
RestGetConversation(k) ==
    GetConversationMessages(k) # {} => \E i \in GetConversationMessages(k) : RestGetMessage(i)
\* GET /api/messages and /api/conversations
ListMessages == UNION {buildInboxConditions(a, TRUE) : a \in Owned}
ListConversations == {messages[i].conv : i \in ListMessages}
RestSearchMessages == UNION {buildSearchConditions(a) : a \in Owned}
DMMessages(peer) == [messages |-> GetDMMessages(Owned, peer),
                     lastRead |-> GetLastReadForDM(Owned, peer)]
DMPartners == GetDMPartners(Owned)
\* GET /api/notifications/unread: the channels joined and the senders of direct
\* messages
UnreadCounts ==
    LET dms == GetDMUnreadCounts(Human)
        joined == [room \in {q \in Rooms : Human \in RoomMembers[q]} |->
                     GetChannelSummaries(Human, room).unread] IN
    MapThenSumSet(LAMBDA p : dms[p], DOMAIN dms) + MapThenSumSet(LAMBDA q : joined[q], DOMAIN joined)

ConversationsNext ==
    \/ \E s \in Posts :
         \/ InsertConversation(s) \/ InsertMessage(s) \/ SendFails(s)
         \/ \E from \in Speakers, to \in Speakers \union {NoRecipient}, room \in Rooms \union {0},
               t \in Topics, reply \in {0, Len(messages)} :
              from # to /\ (room = 0 => reply = 0) /\ callSendMessage(s, from, to, room, t, reply)
         \/ \E t \in Topics : handleMessagesSend(s, "system", Human, t)
         \/ \E to \in (Speakers \ {Human}) \union {NoRecipient}, room \in Rooms \union {0}, k \in ConvIds :
              RestSendMessage(s, to, room, k, NoSubject)
    \/ \E r \in Posts :
         \/ MarkFails(r)
         \/ \E mark \in ConvIds \X (1..MaxLast) : MarkConversation(r, mark)
         \/ \E a \in Speakers, page \in SUBSET MsgIds, all \in BOOLEAN : callReadInbox(r, a, all, page)
         \/ \E last \in 1..MaxLast : \/ \E peer \in Speakers : MarkReadDM(r, peer, last)
                                    \/ \E room \in Rooms : MarkReadChannel(r, room, last)
    \/ \E i \in MsgIds : MarkDoneRequest(i)

ConversationsSpec == ConversationsInit /\ [][ConversationsNext]_cvVars

-----------------------------------------------------------------------------
\* Rows point at rows that exist
ConversationsTypeOK ==
    /\ \A i \in MsgIds : messages[i].conv \in ConvIds /\ messages[i].reply < i
    /\ \A a \in Speakers : lastRead[a] \in [1..MaxConversations -> 0..MaxLast]

\* SendMessage: a second direct conversation of the same subject between two
\* agents exists only when its sender looked before the other's message was
\* stored; whoever looks afterwards joins the thread
ThreadsJoin ==
    \A j, k \in ConvIds :
        /\ j # k /\ convs[k].subject # NoSubject /\ convs[k].subject = convs[j].subject
        /\ convs[k].room = 0 /\ convs[j].room = 0
        => \A i \in MsgIds :
             messages[i].conv = j /\ {messages[i].from, messages[i].to} = convs[k].pair
             => i > convs[k].since

\* ReadInbox: however sends and reads interleave, a message at or below its
\* recipient's pointer was returned to it or left out by a read or mark that
\* could see it; a message that arrives during a read is still unread.  Only the
\* web user's own mark of an id that was not given out yet, which MarkRead does
\* not refuse, hides what is stored under it later
NothingMissed ==
    \A a \in Speakers, i \in MsgIds :
        messages[i].to = a /\ i <= lastRead[a][messages[i].conv]
        => \/ <<a, i>> \in returned \union passed
           \/ a = Human /\ <<messages[i].conv, i>> \in ahead

\* What total_unread counts: direct messages of others than the server, and what
\* others wrote in the channels the user joined, beyond the pointer
UnreadOf(a) ==
    {i \in MsgIds : /\ i > lastRead[a][messages[i].conv]
                    /\ \/ messages[i].to = a /\ messages[i].from # "system"
                       \/ /\ messages[i].room # 0 /\ a \in RoomMembers[messages[i].room]
                          /\ messages[i].from # a}

\* The badge, the inbox and the status page count the same messages; a search
\* finds what messages.list shows, and nothing of a channel but one's own (see
\* MembersFindMessages)
CountsAgree ==
    /\ UnreadCounts = Cardinality(UnreadOf(Human))
    /\ \A a \in Speakers :
         LET st == handleMyStatus(a) IN
         /\ st.total = Cardinality({i \in buildInboxConditions(a, TRUE) : messages[i].status = "pending"})
         /\ st.total <= Cardinality(st.dms \union st.system)
         /\ CountInboxMessages(a, FALSE) <= CountInboxMessages(a, TRUE)
         /\ buildSearchConditions(a) = handleMessagesList(a)
    /\ LET n == handleConversationsList IN
         MapThenSumSet(LAMBDA k : n[k], ConvIds) = Len(messages)
    /\ \A i \in MsgIds : EnrichedReplyCount(i) = Cardinality(GetReplies(i))

\* What the web lists it can open, a partner has a thread to show, and every
\* direct message of the user's agents is in the thread of a listed partner
ViewsAgree ==
    /\ \A i \in ListMessages \union RestSearchMessages : RestGetMessage(i)
    /\ \A k \in ListConversations : RestGetConversation(k)
    /\ \A p \in DMPartners : /\ DMMessages(p).messages # {}
                             /\ DMMessages(p).messages \subseteq RestSearchMessages
    /\ \A i \in RestSearchMessages :
         messages[i].room = 0 => \E p \in DMPartners : i \in DMMessages(p).messages

\* The marker of a channel view never passes a message that is still unread,
\* and a channel whose marker is at its newest message has no badge
ChannelMarkerHonest ==
    \A a \in Speakers, room \in Rooms, i \in MsgIds :
        messages[i].room = room /\ i <= GetLastReadForChannel(a, room)
        => /\ i <= lastRead[a][messages[i].conv]
           /\ LET sum == GetChannelSummaries(a, room) IN
              sum.newest <= GetLastReadForChannel(a, room) => sum.unread = 0

\* What the comment of buildSearchConditions says (messaging/store.go:477,
\* "Channel messages where agent is a member"): a member's search covers the
\* messages of its channels.  The code compares to_agent with '' where
\* InsertMessage stored NULL, and finds none of them.
MembersFindMessages ==
    \A i \in MsgIds : messages[i].room # 0 =>
        \A a \in RoomMembers[messages[i].room] : i \in buildSearchConditions(a)

ConversationsSafe ==
    /\ ConversationsTypeOK /\ ThreadsJoin /\ NothingMissed
    /\ CountsAgree /\ ViewsAgree /\ ChannelMarkerHonest

\* UpdateInboxState: what is read stays read, though reads overtake each other
ReadStaysRead ==
    [][\A a \in Speakers, k \in 1..MaxConversations : lastRead'[a][k] >= lastRead[a][k]]_cvVars
=============================================================================
