------------------------------ MODULE Channels ------------------------------
(***************************************************************************)
(* Channels: creation, membership, invitations, broadcasts with mentions,  *)
(* settings (internal/channels and the MCP, REST and admin-socket handlers *)
(* above it).                                                              *)
(*                                                                         *)
(* No operation of the service is a transaction: it checks with one query  *)
(* and writes with the next.  chCalls holds what a call has decided and    *)
(* has still to write, so calls of several agents interleave there, and a  *)
(* call may fail between two writes.  The members that a broadcast         *)
(* addresses are the ones it read.  Names are unique and stand for ids.    *)
(***************************************************************************)
EXTENDS Naturals, Sequences, FiniteSets

CONSTANTS
    ChAgents,     \* agents
    ChHuman,      \* the human agent of the one user
    ChOwned,      \* the agents of that user
    ChNames,      \* channel names
    MyAgents,     \* the name of the user's my-agents channel
    ChCalls,      \* concurrent calls
    MaxPosts

ASSUME ChannelsAssumption == ChHuman \in ChAgents /\ ChOwned \subseteq ChAgents /\ MyAgents \in ChNames

VARIABLES
    channels,     \* name -> row
    members,      \* name -> agent -> role
    invites,      \* name -> agent -> state
    chCalls,      \* call -> what it does next
    chPosts,        \* sequence of [chan, from, to, of]; to = NoAddressee is the channel message
    admitted,     \* history: name -> agents created, invited or owned into it
    removed,      \* history: name -> agents kicked, with no call of theirs under way
    cut,          \* history: name -> agents with a call that failed, or removed
    orphan        \* history: name -> whether its owner was lost, see HasOwner

chVars == <<channels, members, invites, chCalls, chPosts, admitted, removed, cut, orphan>>

NoChannel == [exists |-> FALSE, private |-> FALSE, system |-> FALSE]
Done == [pc |-> "idle"]
NoAddressee == ""     \* the empty to_agent of a channel message

ChannelsInit ==
    /\ channels = [n \in ChNames |-> NoChannel]
    /\ members = [n \in ChNames |-> [a \in ChAgents |-> "none"]]
    /\ invites = [n \in ChNames |-> [a \in ChAgents |-> "none"]]
    /\ chCalls = [c \in ChCalls |-> Done]
    /\ chPosts = <<>>
    /\ admitted = [n \in ChNames |-> {}]
    /\ removed = [n \in ChNames |-> {}]
    /\ cut = [n \in ChNames |-> {}]
    /\ orphan = [n \in ChNames |-> FALSE]

-----------------------------------------------------------------------------
(* Queries.                                                                *)

GetChannelByName(n) == channels[n].exists
GetMembers(n) == {a \in ChAgents : members[n][a] # "none"}
IsMember(n, a) == members[n][a] # "none"
IsOwner(n, a) == members[n][a] = "owner"
HasPendingInvite(n, a) == invites[n][a] = "pending"
CountMembers(n) == Cardinality(GetMembers(n))

StoreListChannels(a) ==
    {n \in ChNames : GetChannelByName(n) /\ (~channels[n].private \/ IsMember(n, a)
                                            \/ HasPendingInvite(n, a))}

\* The slice of the list that ListChannelsPaginated returns
ListChannelsPaginated(all, limit, offset) ==
    LET start == IF offset > Len(all) THEN Len(all) ELSE offset
        end == IF start + limit > Len(all) THEN Len(all) ELSE start + limit
    IN SubSeq(all, start + 1, end)

\* list_channels: each with its member count
callListChannels(a) == [n \in StoreListChannels(a) |-> CountMembers(n)]

\* channels.list of the administrator: every channel
handleChannelsList == [n \in {k \in ChNames : GetChannelByName(k)} |-> CountMembers(n)]

\* GET /api/channels: of all agents of the user; /api/channels/{name} and
\* channels.show: the members
RestListChannels == UNION {StoreListChannels(a) : a \in ChOwned}
RestGetChannel(n) == IF GetChannelByName(n) THEN GetMembers(n) ELSE {}
handleChannelsShow(n) == RestGetChannel(n)

\* get_channel_messages is for members only
callGetChannelMessages(n, a) ==
    IF IsMember(n, a) THEN {i \in 1..Len(chPosts) : chPosts[i].chan = n /\ chPosts[i].to = NoAddressee} ELSE {}

-----------------------------------------------------------------------------
(* Single statements.  A call goes on with `next`.                         *)

Step(c, next) == chCalls' = [chCalls EXCEPT ![c] = next]

\* INSERT OR nothing: UNIQUE(channel_id, agent_name)
AddMember(n, a, role) ==
    members' = [members EXCEPT ![n][a] = IF @ = "none" THEN role ELSE @]

RemoveMember(n, a) == members' = [members EXCEPT ![n][a] = "none"]

Admit(n, a) == admitted' = [admitted EXCEPT ![n] = @ \union {a}]

\* A call of that agent that has checked and not yet written
UnderWay(n, a) == \E c \in ChCalls : chCalls[c].pc # "idle" /\ chCalls[c].chan = n
                                     /\ chCalls[c].agent = a

-----------------------------------------------------------------------------
(* Creation: the row, then its owner.                                      *)

CreateChannel(c, n, a, private, system) ==
    /\ chCalls[c] = Done /\ ~GetChannelByName(n)
    /\ channels' = [channels EXCEPT ![n] = [NoChannel EXCEPT !.exists = TRUE,
                                              !.private = private, !.system = system]]
    /\ Step(c, [pc |-> "add", chan |-> n, agent |-> a, role |-> "owner"])
    /\ Admit(n, a)
    /\ UNCHANGED <<members, invites, chPosts, removed, cut, orphan>>

callCreateChannel(c, n, a, private) == CreateChannel(c, n, a, private, FALSE)
\* POST /api/channels: the user's first agent creates it
RestCreateChannel(c, n, a, private) == a \in ChOwned /\ CreateChannel(c, n, a, private, FALSE)
\* channels.create of the admin socket, in the name of an agent
handleChannelsCreate(c, n, a) == CreateChannel(c, n, a, FALSE, FALSE)

\* INSERT of the member a call has decided on; a broadcast that joined goes on
AddDecided(c) ==
    LET q == chCalls[c] IN
    /\ q.pc \in {"add", "autojoin"}
    /\ AddMember(q.chan, q.agent, q.role)
    /\ Step(c, IF q.pc = "add" THEN Done
               ELSE [pc |-> "members", chan |-> q.chan, agent |-> q.agent, mentions |-> q.mentions])
    /\ orphan' = [orphan EXCEPT ![q.chan] =
                     @ \/ (q.role = "owner" /\ IsMember(q.chan, q.agent))]
    /\ UNCHANGED <<channels, invites, chPosts, admitted, removed, cut>>

\* At login: the my-agents channel exists and the human agent owns it
EnsureMyAgentsChannel(c) ==
    \/ CreateChannel(c, MyAgents, ChHuman, TRUE, TRUE)
    \/ /\ chCalls[c] = Done /\ GetChannelByName(MyAgents) /\ ~IsMember(MyAgents, ChHuman)
       /\ Step(c, [pc |-> "add", chan |-> MyAgents, agent |-> ChHuman, role |-> "owner"])
       /\ Admit(MyAgents, ChHuman)
       /\ removed' = [removed EXCEPT ![MyAgents] = @ \ {ChHuman}]
       /\ UNCHANGED <<channels, members, invites, chPosts, cut, orphan>>

\* At registration of an agent
JoinMyAgentsChannel(c, a) ==
    /\ a # ChHuman /\ chCalls[c] = Done /\ GetChannelByName(MyAgents) /\ ~IsMember(MyAgents, a)
    /\ Step(c, [pc |-> "add", chan |-> MyAgents, agent |-> a, role |-> "member"])
    /\ Admit(MyAgents, a)
    /\ removed' = [removed EXCEPT ![MyAgents] = @ \ {a}]
    /\ UNCHANGED <<channels, members, invites, chPosts, cut, orphan>>

-----------------------------------------------------------------------------
(* Joining and leaving.                                                    *)

\* Mutant: nobody asks for the invitation.
JoinUninvited(c, n, a) ==
    /\ chCalls[c] = Done /\ GetChannelByName(n) /\ ~IsMember(n, a)
    /\ Step(c, [pc |-> "add", chan |-> n, agent |-> a, role |-> "member"])
    /\ UNCHANGED <<channels, members, invites, chPosts, admitted, removed, cut, orphan>>

\* A private channel takes the invitation first
JoinChannel(c, n, a) ==
    /\ chCalls[c] = Done /\ GetChannelByName(n) /\ ~IsMember(n, a)
    /\ channels[n].private => HasPendingInvite(n, a)
    /\ Step(c, [pc |-> IF channels[n].private THEN "accept" ELSE "add", chan |-> n,
                agent |-> a, role |-> "member"])
    /\ UNCHANGED <<channels, members, invites, chPosts, admitted, removed, cut, orphan>>

AcceptInvite(c) ==
    LET q == chCalls[c] IN
    /\ q.pc = "accept"
    /\ IF HasPendingInvite(q.chan, q.agent)
       THEN /\ invites' = [invites EXCEPT ![q.chan][q.agent] = "accepted"]
            /\ Step(c, [q EXCEPT !.pc = "add"])
       ELSE Step(c, Done) /\ UNCHANGED invites
    /\ UNCHANGED <<channels, members, chPosts, admitted, removed, cut, orphan>>

callJoinChannel(c, n, a) == JoinChannel(c, n, a)
RestJoinChannel(c, n, a) == a \in ChOwned /\ JoinChannel(c, n, a)
handleChannelsJoin(c, n, a) == JoinChannel(c, n, a)

\* Owners and system channels are refused
LeaveChannel(c, n, a) ==
    /\ chCalls[c] = Done /\ GetChannelByName(n) /\ ~channels[n].system
    /\ members[n][a] = "member"
    /\ Step(c, [pc |-> "remove", chan |-> n, agent |-> a])
    /\ UNCHANGED <<channels, members, invites, chPosts, admitted, removed, cut, orphan>>

callLeaveChannel(c, n, a) == LeaveChannel(c, n, a)
RestLeaveChannel(c, n, a) == a \in ChOwned /\ LeaveChannel(c, n, a)

InviteToChannel(c, n, a, by) ==
    /\ chCalls[c] = Done /\ GetChannelByName(n)
    /\ IsOwner(n, by) /\ ~IsMember(n, a)
    /\ Step(c, [pc |-> "invite", chan |-> n, agent |-> a])
    /\ UNCHANGED <<channels, members, invites, chPosts, admitted, removed, cut, orphan>>

\* ON CONFLICT: an old invitation is pending again
CreateInvite(c) ==
    LET q == chCalls[c] IN
    /\ q.pc = "invite"
    /\ invites' = [invites EXCEPT ![q.chan][q.agent] = "pending"]
    /\ removed' = [removed EXCEPT ![q.chan] = @ \ {q.agent}]
    /\ Admit(q.chan, q.agent)
    /\ Step(c, Done)
    /\ UNCHANGED <<channels, members, chPosts, cut, orphan>>

callInviteToChannel(c, n, a, by) == InviteToChannel(c, n, a, by)

KickFromChannel(c, n, a, by) ==
    /\ chCalls[c] = Done /\ GetChannelByName(n)
    /\ IsOwner(n, by) /\ a # by
    /\ Step(c, [pc |-> "kick", chan |-> n, agent |-> a, by |-> by])
    /\ UNCHANGED <<channels, members, invites, chPosts, admitted, removed, cut, orphan>>

callKickFromChannel(c, n, a, by) == KickFromChannel(c, n, a, by)

\* DELETE FROM channel_members, for a kick and for a leave
RemoveDecided(c) ==
    LET q == chCalls[c]  others == \E d \in ChCalls \ {c} : chCalls[d].pc # "idle"
                                        /\ chCalls[d].chan = q.chan /\ chCalls[d].agent = q.agent IN
    /\ q.pc \in {"remove", "kick"}
    /\ RemoveMember(q.chan, q.agent)
    /\ removed' = IF q.pc = "kick" /\ IsMember(q.chan, q.agent) /\ ~others
                     /\ ~HasPendingInvite(q.chan, q.agent)
                  THEN [removed EXCEPT ![q.chan] = @ \union {q.agent}] ELSE removed
    /\ Step(c, Done)
    /\ cut' = [cut EXCEPT ![q.chan] = @ \union {q.agent}]
    /\ orphan' = [orphan EXCEPT ![q.chan] =
                     \/ @ \/ (q.pc = "remove" /\ IsOwner(q.chan, q.agent))
                     \/ \E d \in ChCalls : chCalls[d].pc = "kick" /\ chCalls[d].chan = q.chan
                                           /\ chCalls[d].by = q.agent]
    /\ UNCHANGED <<channels, invites, chPosts, admitted>>

-----------------------------------------------------------------------------
(* Broadcast.                                                              *)

\* A member goes on, anyone else joins a public channel first
BroadcastMessage(c, n, a, mentions) ==
    /\ chCalls[c] = Done /\ GetChannelByName(n) /\ Len(chPosts) < MaxPosts
    /\ IsMember(n, a) \/ ~channels[n].private
    /\ Step(c, [pc |-> IF IsMember(n, a) THEN "members" ELSE "autojoin", chan |-> n,
                agent |-> a, role |-> "member", mentions |-> mentions])
    /\ UNCHANGED <<channels, members, invites, chPosts, admitted, removed, cut, orphan>>

callSendChannelMessage(c, n, a, mentions) == BroadcastMessage(c, n, a, mentions)
\* send_message of the MCP tools, with a channel
handleSendToChannel(c, n, a, mentions) == BroadcastMessage(c, n, a, mentions)

\* GetMembers, then the channel message
BroadcastStore(c) ==
    LET q == chCalls[c] IN
    /\ q.pc = "members" /\ Len(chPosts) < MaxPosts
    /\ chPosts' = Append(chPosts, [chan |-> q.chan, from |-> q.agent, to |-> NoAddressee, of |-> 0])
    /\ Step(c, [pc |-> "copies", chan |-> q.chan, agent |-> q.agent, of |-> Len(chPosts) + 1,
                left |-> (q.mentions \intersect GetMembers(q.chan)) \ {q.agent}])
    /\ UNCHANGED <<channels, members, invites, admitted, removed, cut, orphan>>

\* One direct copy per mentioned member; a failed one is skipped
BroadcastCopy(c, a) ==
    LET q == chCalls[c] IN
    /\ q.pc = "copies" /\ a \in q.left
    /\ \/ /\ Len(chPosts) < MaxPosts
          /\ chPosts' = Append(chPosts, [chan |-> q.chan, from |-> q.agent, to |-> a, of |-> q.of])
       \/ UNCHANGED chPosts
    /\ Step(c, [q EXCEPT !.left = @ \ {a}])
    /\ UNCHANGED <<channels, members, invites, admitted, removed, cut, orphan>>

BroadcastEnds(c) ==
    /\ chCalls[c].pc = "copies" /\ chCalls[c].left = {}
    /\ Step(c, Done)
    /\ UNCHANGED <<channels, members, invites, chPosts, admitted, removed, cut, orphan>>

-----------------------------------------------------------------------------
(* Description, topic and settings are data that nothing here reads: these  *)
(* statements leave every column the model keeps as it is.                  *)

UpdateChannel(n, a) ==
    GetChannelByName(n) /\ IsOwner(n, a) /\ UNCHANGED chVars

callUpdateChannel(n, a) == UpdateChannel(n, a)

StoreUpdateSettings(n) ==
    GetChannelByName(n) /\ UNCHANGED chVars

\* PUT /api/channels/{name}/settings and channels.update-settings
RestUpdateSettings(n) == StoreUpdateSettings(n)
handleChannelsUpdateSettings(n) == StoreUpdateSettings(n)

\* A statement fails or the process stops: the writes before it stay
CallFails(c) ==
    LET q == chCalls[c] IN
    /\ q.pc # "idle"
    /\ cut' = IF q.pc \in {"accept", "add"} THEN [cut EXCEPT ![q.chan] = @ \union {q.agent}] ELSE cut
    /\ orphan' = [orphan EXCEPT ![q.chan] = @ \/ (q.pc = "add" /\ q.role = "owner")]
    /\ Step(c, Done)
    /\ UNCHANGED <<channels, members, invites, chPosts, admitted, removed>>

ChannelsNext ==
    \/ \E c \in ChCalls :
         \/ AddDecided(c) \/ AcceptInvite(c) \/ CreateInvite(c) \/ RemoveDecided(c)
         \/ BroadcastStore(c) \/ BroadcastEnds(c) \/ CallFails(c) \/ EnsureMyAgentsChannel(c)
         \/ \E a \in ChAgents :
              \/ BroadcastCopy(c, a) \/ JoinMyAgentsChannel(c, a)
              \/ \E n \in ChNames :
                   \/ \E private \in BOOLEAN : \/ callCreateChannel(c, n, a, private)
                                              \/ RestCreateChannel(c, n, a, private)
                   \/ callJoinChannel(c, n, a) \/ RestJoinChannel(c, n, a) \/ handleChannelsJoin(c, n, a)
                   \/ handleChannelsCreate(c, n, a)
                   \/ callLeaveChannel(c, n, a) \/ RestLeaveChannel(c, n, a)
                   \/ \E by \in ChAgents : callInviteToChannel(c, n, a, by) \/ callKickFromChannel(c, n, a, by)
                   \/ \E mentions \in {{}, ChAgents} : \/ callSendChannelMessage(c, n, a, mentions)
                                                     \/ handleSendToChannel(c, n, a, mentions)
    \/ \E n \in ChNames : \/ RestUpdateSettings(n) \/ handleChannelsUpdateSettings(n)
                         \/ \E a \in ChAgents : callUpdateChannel(n, a)

ChannelsSpec == ChannelsInit /\ [][ChannelsNext]_chVars

-----------------------------------------------------------------------------
\* Memberships and invitations belong to channels that exist
ChannelsTypeOK ==
    \A n \in ChNames, a \in ChAgents :
        /\ members[n][a] \in {"none", "member", "owner"}
        /\ invites[n][a] \in {"none", "pending", "accepted"}
        /\ members[n][a] # "none" \/ invites[n][a] # "none" => GetChannelByName(n)

\* JoinChannel, BroadcastMessage: whoever is in a private channel created it,
\* was invited by its owner, or is an agent of its user
PrivateEntry == \A n \in ChNames : channels[n].private => GetMembers(n) \subseteq admitted[n]

\* KickFromChannel: who was kicked from a private channel, with no join of its
\* own under way and no invitation left, stays out until it is invited or
\* registered again
KickHolds == \A n \in ChNames : channels[n].private => removed[n] \intersect GetMembers(n) = {}

\* CreateChannel, LeaveChannel, KickFromChannel: a channel has an owner, unless
\* its creation failed half way, its creator had joined before it was made
\* the owner (UNIQUE keeps the first row), two owners kicked each other, or a
\* leave that saw a member deleted the row of one who is an owner by then
HasOwner ==
    \A n \in ChNames : GetChannelByName(n) =>
        \/ \E a \in ChAgents : IsOwner(n, a)
        \/ \E c \in ChCalls : chCalls[c].pc = "add" /\ chCalls[c].chan = n /\ chCalls[c].role = "owner"
        \/ orphan[n]

\* JoinChannel takes the invitation before it adds the member: an invitation
\* is used up without a membership only by a call that was cut or undone
AcceptedMeansJoined ==
    \A n \in ChNames, a \in ChAgents :
        invites[n][a] = "accepted" => IsMember(n, a) \/ UnderWay(n, a) \/ a \in cut[n]

\* BroadcastMessage: a mention copy follows its channel message, goes to
\* another agent than the sender, and no one gets two
CopiesFaithful ==
    \A i \in 1..Len(chPosts) : chPosts[i].to # NoAddressee =>
        LET o == chPosts[i].of IN
        /\ o \in 1..(i - 1) /\ chPosts[o].to = NoAddressee /\ chPosts[o].chan = chPosts[i].chan
        /\ chPosts[o].from = chPosts[i].from /\ chPosts[i].to # chPosts[i].from
        /\ \A j \in 1..Len(chPosts) : j # i => chPosts[j].to # chPosts[i].to \/ chPosts[j].of # o

\* ListChannelsPaginated: put together the pages are the list, whatever its
\* length and the page size: item p of page k is item limit * (k - 1) + p, and
\* a page is short only where the list ends
PagesAreTheList ==
    \A length \in 0..4, limit \in 1..3, k \in 1..5 :
        LET before == limit * (k - 1)
            page == ListChannelsPaginated([i \in 1..length |-> i], limit, before)
        IN /\ Len(page) <= limit
           /\ \A p \in 1..limit : /\ p <= Len(page) <=> before + p <= length
                                  /\ p <= Len(page) => page[p] = before + p

\* The lists agree with each other and with what may be read
ListsAgree ==
    \A a \in ChAgents :
        LET own == callListChannels(a)  all == handleChannelsList IN
        /\ \A n \in DOMAIN own : n \in DOMAIN all /\ own[n] = all[n]
        /\ \A n \in ChNames : callGetChannelMessages(n, a) # {} => n \in DOMAIN own
        /\ a \in ChOwned => DOMAIN own \subseteq RestListChannels
        /\ \A n \in DOMAIN all : all[n] = Cardinality(handleChannelsShow(n))

ChannelsSafe ==
    /\ ChannelsTypeOK /\ PrivateEntry /\ KickHolds /\ HasOwner
    /\ AcceptedMeansJoined /\ CopiesFaithful /\ ListsAgree /\ PagesAreTheList
=============================================================================
