--------------------------- MODULE AgentRegistry ---------------------------
(***************************************************************************)
(* The agents of the bus, their keys, the API keys of their owners and the *)
(* dead letters a removed agent leaves behind (internal/agents,            *)
(* internal/apikeys, messaging/deadletter_store.go and the REST handlers   *)
(* and admin commands above them).                                         *)
(*                                                                         *)
(* agents maps a name to its row; names are UNIQUE, rows are never         *)
(* deleted, only set inactive.  A key is a number: RevokeKey stores the    *)
(* next one.  UpdateAgent and RevokeKey read the row, change a field and   *)
(* write all of them back, the key among them (display name and            *)
(* capabilities are left out).                                              *)
(***************************************************************************)
EXTENDS Naturals, FiniteSets

CONSTANTS
    Owners,
    AgentNames,
    HumanName, HumanAltName,  \* per owner: username and username-human
    AgentCalls,               \* concurrent calls
    Letters,                  \* direct messages
    MaxKey,                   \* bound on the keys issued for an agent
    KeyAgents                 \* bound: agents an sb_ key is made for

ASSUME AgentsAssumption ==
    /\ MaxKey \in Nat \ {0}
    /\ HumanName \in [Owners -> AgentNames] /\ HumanAltName \in [Owners -> AgentNames]

VARIABLES
    agents,       \* name -> row
    calls,        \* what each call is about to do
    mail,         \* message -> [to, status, missed]
    deadLetters,  \* {[letter, owner, agent, by, ack]}
    apiKeys       \* per owner: the state of its sb_ key and the agent it is for

agVars == <<agents, calls, mail, deadLetters, apiKeys>>

NoAgent == [status |-> "none", owner |-> 0, type |-> "ai", key |-> 0, issued |-> 0]
NoLetter == [to |-> "", status |-> "none", missed |-> FALSE]
NoKey == [state |-> "none", agent |-> ""]
Free == [pc |-> "idle"]

AgentsInit ==
    /\ agents = [n \in AgentNames |-> NoAgent]
    /\ calls = [c \in AgentCalls |-> Free]
    /\ mail = [l \in Letters |-> NoLetter]
    /\ deadLetters = {}
    /\ apiKeys = [o \in Owners |-> NoKey]

-----------------------------------------------------------------------------
(* Look-ups see active rows only.                                          *)

Active(n) == agents[n].status = "active"

ListAgentsByOwner(o) == {n \in AgentNames : Active(n) /\ agents[n].owner = o}

HumanAgents(o) == {n \in ListAgentsByOwner(o) : agents[n].type = "human"}

\* AgentService.Authenticate compares the key with every active row
Authenticate(key) == {n \in AgentNames : Active(n) /\ agents[n].key = key[2] /\ n = key[1]}

\* The middleware binds an sb_ key to its agent while that agent is active
AgentOfAPIKey(o) ==
    IF apiKeys[o].state = "valid" /\ apiKeys[o].agent \in AgentNames /\ Active(apiKeys[o].agent)
    THEN {apiKeys[o].agent} ELSE {}

Then(c, rec) == calls' = [calls EXCEPT ![c] = rec]

-----------------------------------------------------------------------------
(* Registration.  The INSERT fails for a name that was ever used.          *)

CreateAgent(n, o, t) ==
    agents' = [agents EXCEPT ![n] = [status |-> "active", owner |-> o, type |-> t,
                                     key |-> 1, issued |-> 1]]

Register(n, o, t) ==
    /\ t \in {"ai", "human"}
    /\ agents[n].status = "none"
    /\ CreateAgent(n, o, t)
    /\ UNCHANGED <<calls, mail, deadLetters, apiKeys>>

\* agent.create of the admin socket, and POST /api/agents: the type is the
\* request's, "ai" when it names none
handleAgentCreate(n, o, t) == Register(n, o, t)
PostAgent(n, o, t) == Register(n, o, t)

\* EnsureHumanAgent runs at every login: look first ...
EnsureHumanAgent(c, o) ==
    /\ calls[c] = Free
    /\ HumanAgents(o) = {}
    /\ Then(c, [pc |-> "human", owner |-> o])
    /\ UNCHANGED <<agents, mail, deadLetters, apiKeys>>

\* ... then register the username, or username-human when it is taken
EnsureHumanAgentRegister(c) ==
    LET q == calls[c]  first == HumanName[q.owner]  second == HumanAltName[q.owner] IN
    /\ q.pc = "human"
    /\ IF agents[first].status = "none" THEN CreateAgent(first, q.owner, "human")
       ELSE IF agents[second].status = "none" THEN CreateAgent(second, q.owner, "human")
       ELSE UNCHANGED agents
    /\ Then(c, Free)
    /\ UNCHANGED <<mail, deadLetters, apiKeys>>

-----------------------------------------------------------------------------
(* Read-modify-write of a row.                                             *)

UpdateAgent(c, n) ==
    /\ calls[c] = Free /\ Active(n)
    /\ Then(c, [pc |-> "write", name |-> n, key |-> agents[n].key, issue |-> FALSE])
    /\ UNCHANGED <<agents, mail, deadLetters, apiKeys>>

RevokeKey(c, n, o) ==
    /\ calls[c] = Free /\ Active(n) /\ agents[n].owner = o
    /\ agents[n].issued < MaxKey
    /\ Then(c, [pc |-> "write", name |-> n, key |-> agents[n].issued + 1,
                issue |-> TRUE])
    /\ UNCHANGED <<agents, mail, deadLetters, apiKeys>>

\* PUT /api/agents/{name}: the handler compares the owner, then calls the service
PutAgent(c, n, o) == agents[n].owner = o /\ UpdateAgent(c, n)

\* POST /api/agents/{name}/revoke-key
PostRevokeKey(c, n, o) == RevokeKey(c, n, o)

\* Mutant: the UPDATE loses its AND status = 'active'.
StoreUpdateAnyAgent(c) ==
    LET q == calls[c] IN
    /\ q.pc = "write"
    /\ agents' = [agents EXCEPT ![q.name].key = q.key, ![q.name].issued = IF q.issue THEN q.key ELSE @]
    /\ Then(c, Free)
    /\ UNCHANGED <<mail, deadLetters, apiKeys>>

\* UPDATE agents SET ... WHERE name = ? AND status = 'active'
StoreUpdateAgent(c) ==
    LET q == calls[c] IN
    /\ q.pc = "write"
    /\ agents' = IF Active(q.name)
                 THEN [agents EXCEPT ![q.name].key = q.key,
                           ![q.name].issued = IF q.issue THEN q.key ELSE @]
                 ELSE agents
    /\ Then(c, Free)
    /\ UNCHANGED <<mail, deadLetters, apiKeys>>

-----------------------------------------------------------------------------
(* Removal: capture the waiting messages, then set the row inactive.       *)

\* A message that no removal still under way will select is marked missed: it
\* came after the selection, the administrator removed the agent, or what was
\* selected could not be inserted.

Capturing(n) == {c \in AgentCalls : calls[c].pc \in {"insert", "deactivate"} /\ calls[c].name = n}

\* SendMessage asks AgentExists before it stores a direct message
SendLetter(l, n) ==
    /\ mail[l].status = "none" /\ Active(n)
    /\ mail' = [mail EXCEPT ![l] = [to |-> n, status |-> "pending", missed |-> Capturing(n) # {}]]
    /\ UNCHANGED <<agents, calls, deadLetters, apiKeys>>

\* The recipient claims it ...
ClaimLetter(l) ==
    /\ mail[l].status = "pending" /\ Active(mail[l].to)
    /\ mail' = [mail EXCEPT ![l].status = "processing"]
    /\ UNCHANGED <<agents, calls, deadLetters, apiKeys>>

\* ... and finishes it
FinishLetter(l) ==
    /\ mail[l].status = "processing" /\ Active(mail[l].to)
    /\ mail' = [mail EXCEPT ![l].status = "done"]
    /\ UNCHANGED <<agents, calls, deadLetters, apiKeys>>

\* Mutant: claimed messages are left to their agent.
PendingOnly(n) == {l \in Letters : mail[l].to = n /\ mail[l].status = "pending"}

\* SELECT ... WHERE m.to_agent = ? AND m.status IN ('pending', 'processing')
Unfinished(n) == {l \in Letters : mail[l].to = n /\ mail[l].status \in {"pending", "processing"}}

Deregister(c, n, o) ==
    /\ calls[c] = Free /\ Active(n) /\ agents[n].owner = o
    /\ Then(c, [pc |-> "insert", name |-> n, owner |-> o, letters |-> Unfinished(n)])
    /\ UNCHANGED <<agents, mail, deadLetters, apiKeys>>

\* DELETE /api/agents/{name}
DeleteAgent(c, n, o) == Deregister(c, n, o)

\* One transaction inserts the letters that were selected
CaptureDeadLetters(c) ==
    LET q == calls[c] IN
    /\ q.pc = "insert"
    /\ deadLetters' = deadLetters \union
         {[letter |-> l, owner |-> q.owner, agent |-> q.name, by |-> c, ack |-> FALSE]
            : l \in q.letters}
    /\ Then(c, [pc |-> "deactivate", name |-> q.name])
    /\ UNCHANGED <<agents, mail, apiKeys>>

\* The query or the transaction fails: Deregister logs a warning and goes on
CaptureFails(c) ==
    LET q == calls[c] IN
    /\ q.pc = "insert"
    /\ mail' = [l \in Letters |-> IF l \in q.letters THEN [mail[l] EXCEPT !.missed = TRUE]
                                  ELSE mail[l]]
    /\ Then(c, [pc |-> "deactivate", name |-> q.name])
    /\ UNCHANGED <<agents, deadLetters, apiKeys>>

DeactivateAgent(c) ==
    LET q == calls[c] IN
    /\ q.pc = "deactivate"
    /\ agents' = [agents EXCEPT ![q.name].status = "inactive"]
    /\ Then(c, Free)
    /\ UNCHANGED <<mail, deadLetters, apiKeys>>

\* agent.delete of the admin socket captures nothing
handleAgentDelete(n) ==
    /\ Active(n)
    /\ agents' = [agents EXCEPT ![n].status = "inactive"]
    /\ mail' = [l \in Letters |-> IF mail[l].to = n THEN [mail[l] EXCEPT !.missed = TRUE]
                                  ELSE mail[l]]
    /\ UNCHANGED <<calls, deadLetters, apiKeys>>

\* UPDATE dead_letters SET acknowledged = 1 WHERE id = ? AND owner_id = ?
AcknowledgeDeadLetter(d, o) ==
    /\ d.owner = o
    /\ deadLetters' = (deadLetters \ {d}) \union {[d EXCEPT !.ack = TRUE]}
    /\ UNCHANGED <<agents, calls, mail, apiKeys>>

\* POST /api/dead-letters/{id}/acknowledge, for a letter of the list
Acknowledge(d, o) == AcknowledgeDeadLetter(d, o)

ListDeadLetters(o, acknowledged) == {d \in deadLetters : d.owner = o /\ (d.ack => acknowledged)}

-----------------------------------------------------------------------------
(* sb_ keys.                                                               *)

CreateKey(o, n) ==
    /\ apiKeys[o].state = "none"
    /\ apiKeys' = [apiKeys EXCEPT ![o] = [state |-> "valid", agent |-> n]]
    /\ UNCHANGED <<agents, calls, mail, deadLetters>>

\* POST /api/keys
PostKey(o, n) == CreateKey(o, n)

KeyExpires(o) ==
    /\ apiKeys[o].state = "valid"
    /\ apiKeys' = [apiKeys EXCEPT ![o].state = "expired"]
    /\ UNCHANGED <<agents, calls, mail, deadLetters>>

\* UPDATE api_keys SET revoked_at ... WHERE id = ? AND revoked_at IS NULL
RevokeAPIKey(o) ==
    /\ apiKeys[o].state \in {"valid", "expired"}
    /\ apiKeys' = [apiKeys EXCEPT ![o].state = "revoked"]
    /\ UNCHANGED <<agents, calls, mail, deadLetters>>

\* The list keeps expired keys
ListKeys(o) == IF apiKeys[o].state \in {"valid", "expired"} THEN {apiKeys[o]} ELSE {}

\* DELETE /api/keys/{id}: GetByID, the owner's check, RevokeKey
DeleteAPIKey(o, by) == by = o /\ RevokeAPIKey(o)

AgentsNext ==
    \/ \E n \in AgentNames : handleAgentDelete(n) \/ \E l \in Letters : SendLetter(l, n)
    \/ \E l \in Letters : ClaimLetter(l) \/ FinishLetter(l)
    \/ \E n \in AgentNames, o \in Owners :
         \/ \E t \in {"ai", "human"} : handleAgentCreate(n, o, t) \/ PostAgent(n, o, t)
         \/ (n \in KeyAgents /\ PostKey(o, n))
         \/ \E c \in AgentCalls : PutAgent(c, n, o) \/ PostRevokeKey(c, n, o) \/ DeleteAgent(c, n, o)
    \/ \E o \in Owners : \/ KeyExpires(o) \/ \E by \in Owners : DeleteAPIKey(o, by)
                         \/ \E c \in AgentCalls : EnsureHumanAgent(c, o)
                         \/ \E d \in deadLetters : Acknowledge(d, o)
    \/ \E c \in AgentCalls : \/ EnsureHumanAgentRegister(c) \/ StoreUpdateAgent(c)
                             \/ CaptureDeadLetters(c) \/ CaptureFails(c)
                             \/ DeactivateAgent(c)

AgentsSpec == AgentsInit /\ [][AgentsNext]_agVars

-----------------------------------------------------------------------------
\* The shape of the rows
AgentsTypeOK ==
    /\ \A n \in AgentNames : /\ agents[n].status \in {"none", "active", "inactive"}
                             /\ agents[n].key \in 0..MaxKey
    /\ \A l \in Letters : mail[l].status \in {"none", "pending", "processing", "done"}
    /\ \A o \in Owners : apiKeys[o].state \in {"none", "valid", "expired", "revoked"}

\* Deregister: a message its agent had not finished when it was removed is among
\* the owner's dead letters, whoever claims and finishes messages meanwhile,
\* unless it was missed
LettersCaptured ==
    \A l \in Letters :
        LET n == mail[l].to IN
        /\ mail[l].status \in {"pending", "processing"} /\ ~mail[l].missed
        /\ agents[n].status = "inactive"
        => \E d \in ListDeadLetters(agents[n].owner, TRUE) : d.letter = l

\* CaptureDeadLetters: a dead letter is a message to an agent of that owner
DeadLettersFaithful ==
    \A d \in deadLetters : mail[d.letter].to = d.agent /\ agents[d.agent].owner = d.owner

\* The middleware: no credential speaks for an agent that is not active, and a
\* key that speaks for one is on its owner's list, where it can be revoked
OnlyActiveAgentsSpeak ==
    /\ \A n \in AgentNames : ~Active(n) => Authenticate(<<n, agents[n].key>>) = {}
    /\ \A o \in Owners : \A n \in AgentOfAPIKey(o) : Active(n) /\ ListKeys(o) # {}

AgentsSafe ==
    AgentsTypeOK /\ LettersCaptured /\ DeadLettersFaithful /\ OnlyActiveAgentsSpeak

\* Deregister: an agent set inactive stays as it is, whatever UpdateAgent,
\* RevokeKey or a second removal read before
InactiveForever ==
    [][\A n \in AgentNames : agents[n].status = "inactive" => agents'[n] = agents[n]]_agVars

\* specs/002-agent-registry/spec.md:121, "The old key is immediately invalidated":
\* does not hold, an UpdateAgent that read the row before writes the old key back
OldKeyInvalid ==
    [][\A n \in AgentNames : agents'[n].key >= agents[n].key]_agVars
=============================================================================
