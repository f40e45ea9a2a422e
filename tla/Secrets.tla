------------------------------ MODULE Secrets ------------------------------
(***************************************************************************)
(* Scoped secrets (internal/secrets): the master key in a file, encrypted  *)
(* rows, the environment of a run, and the tools list_resources and        *)
(* request_resource.                                                       *)
(*                                                                         *)
(* The server opens the store when it starts, the command line opens it    *)
(* for every command, in a process of its own: both read the key file and, *)
(* when there is none, generate a key and write it.  A secret can be read  *)
(* by a process that holds the key it was encrypted with.  One user and    *)
(* one agent of that user; scopes are user, agent and one task.            *)
(***************************************************************************)
EXTENDS Naturals, Sequences, FiniteSets, FiniteSetsExt

CONSTANTS
    Processes,    \* that open the store
    Server,       \* the one that builds environments
    SecretNames,
    MaxSecrets

VARIABLES
    keyFile,      \* the key in secrets.key, NoMasterKey before there is one
    procs,        \* process -> [pc, key, row]
    secretRows,   \* sequence of [name, scope, key, revoked]
    requests,     \* resource_requests: names asked for
    split         \* history: two processes generated a key each

seVars == <<keyFile, procs, secretRows, requests, split>>

ScopeOrder == [user |-> 1, agent |-> 2, task |-> 3]
Scopes == DOMAIN ScopeOrder
NoMasterKey == "none"

ASSUME SecretsAssumption == NoMasterKey \notin Processes

Closed == [pc |-> "closed", key |-> NoMasterKey, row |-> 0]

SecretsInit ==
    /\ keyFile = NoMasterKey
    /\ procs = [p \in Processes |-> Closed]
    /\ secretRows = <<>>
    /\ requests = {}
    /\ split = FALSE

-----------------------------------------------------------------------------
\* loadOrCreateMasterKey: the file is read; without one a key is generated
loadOrCreateMasterKey(p) ==
    /\ procs[p].pc = "closed"
    /\ procs' = [procs EXCEPT ![p] = IF keyFile # NoMasterKey
                                     THEN [pc |-> "open", key |-> keyFile, row |-> 0]
                                     ELSE [pc |-> "write", key |-> NoMasterKey, row |-> 0]]
    /\ UNCHANGED <<keyFile, secretRows, requests, split>>

\* The generated key, named after its process, replaces what the file holds
WriteMasterKey(p) ==
    /\ procs[p].pc = "write"
    /\ keyFile' = p
    /\ procs' = [procs EXCEPT ![p] = [pc |-> "open", key |-> p, row |-> 0]]
    /\ split' = (split \/ keyFile # NoMasterKey)
    /\ UNCHANGED <<secretRows, requests>>

\* A command ends, the server stops, or either dies
CloseStore(p) ==
    /\ procs[p].pc # "closed"
    /\ procs' = [procs EXCEPT ![p] = Closed]
    /\ UNCHANGED <<keyFile, secretRows, requests, split>>

-----------------------------------------------------------------------------
LiveRow(i) == ~secretRows[i].revoked
RowsOf(scopes) == {i \in 1..Len(secretRows) : LiveRow(i) /\ secretRows[i].scope \in scopes}

encrypt(p) == procs[p].key
CanDecrypt(p, i) == secretRows[i].key = procs[p].key

\* Mutant: the old value is not revoked.
SetBesides(p, name, scope) ==
    /\ procs[p].pc = "open" /\ Len(secretRows) < MaxSecrets
    /\ secretRows' = Append(secretRows,
          [name |-> name, scope |-> scope, key |-> encrypt(p), revoked |-> FALSE])
    /\ UNCHANGED <<keyFile, procs, requests, split>>

\* One transaction: the old row is revoked, the new one inserted
SetSecret(p, name, scope) ==
    /\ procs[p].pc = "open" /\ Len(secretRows) < MaxSecrets
    /\ secretRows' = Append(
          [i \in 1..Len(secretRows) |->
              IF secretRows[i].name = name /\ secretRows[i].scope = scope
              THEN [secretRows[i] EXCEPT !.revoked = TRUE] ELSE secretRows[i]],
          [name |-> name, scope |-> scope, key |-> encrypt(p), revoked |-> FALSE])
    /\ UNCHANGED <<keyFile, procs, requests, split>>

\* secrets set
setCmd(p, name, scope) == p # Server /\ SetSecret(p, name, scope)

GetSecret(p, name, scope) ==
    LET rows == {i \in RowsOf({scope}) : secretRows[i].name = name}
    IN IF rows = {} \/ ~CanDecrypt(p, Max(rows)) THEN 0 ELSE Max(rows)

\* Revoke looks the row up, then writes
Revoke(p, i) ==
    /\ procs[p].pc = "open" /\ LiveRow(i)
    /\ procs' = [procs EXCEPT ![p].pc = "revoke", ![p].row = i]
    /\ UNCHANGED <<keyFile, secretRows, requests, split>>

RevokeRow(p) ==
    /\ procs[p].pc = "revoke"
    /\ secretRows' = [secretRows EXCEPT ![procs[p].row].revoked = TRUE]
    /\ procs' = [procs EXCEPT ![p].pc = "open", ![p].row = 0]
    /\ UNCHANGED <<keyFile, requests, split>>

\* request_resource: a pending request that only a person acts upon
handleRequestResource(name) ==
    /\ requests' = requests \union {name}
    /\ UNCHANGED <<keyFile, procs, secretRows, split>>

-----------------------------------------------------------------------------
(* Views.                                                                  *)

List(scopes) == {<<secretRows[i].name, secretRows[i].scope>> : i \in RowsOf(scopes)}

\* list_resources: names of the scopes user and agent
handleListResources == {e[1] : e \in List({"user", "agent"})}

\* The scopes a run has: the server passes no task
RunScopes(task) == IF task THEN Scopes ELSE {"user", "agent"}

\* A row that cannot be decrypted fails the whole, unless a narrower one was
\* met before it; rows come in the order of their ids
Narrower(i, j) == ScopeOrder[secretRows[i].scope] >= ScopeOrder[secretRows[j].scope]
Met(rows, i) == {j \in rows : j < i /\ secretRows[j].name = secretRows[i].name /\ Narrower(j, i)}
BuildFails(p, rows) == \E i \in rows : Met(rows, i) = {} /\ ~CanDecrypt(p, i)

BuildEnvMap(p, task) ==
    LET rows == RowsOf(RunScopes(task)) IN
    IF BuildFails(p, rows) THEN <<>>
    ELSE [n \in {secretRows[i].name : i \in rows} |->
             CHOOSE i \in rows : /\ secretRows[i].name = n
                                 /\ \A j \in rows : secretRows[j].name = n => Narrower(i, j)]

SecretsNext ==
    \/ \E p \in Processes :
          \/ loadOrCreateMasterKey(p) \/ WriteMasterKey(p) \/ CloseStore(p) \/ RevokeRow(p)
          \/ \E n \in SecretNames, s \in Scopes : setCmd(p, n, s)
          \/ \E i \in 1..Len(secretRows) : Revoke(p, i)
    \/ \E n \in SecretNames : handleRequestResource(n)

SecretsSpec == SecretsInit /\ [][SecretsNext]_seVars

-----------------------------------------------------------------------------
\* Rows were encrypted, and an open store has a key
SecretsTypeOK ==
    /\ keyFile \in Processes \union {NoMasterKey}
    /\ \A i \in 1..Len(secretRows) : secretRows[i].key # NoMasterKey
    /\ \A p \in Processes : procs[p].pc \in {"open", "revoke"} => procs[p].key # NoMasterKey

\* Set: of a name in a scope one value is live, whatever sets and revocations
\* of several processes overlap
OneLive ==
    \A i, j \in 1..Len(secretRows) :
        LiveRow(i) /\ LiveRow(j) /\ secretRows[i].name = secretRows[j].name
            /\ secretRows[i].scope = secretRows[j].scope => i = j

\* BuildEnvMap, Get, List: a run gets exactly the names that are listed for it,
\* each with the value Get returns for the narrowest scope that has one
EnvIsNarrowest ==
    \A p \in Processes, task \in BOOLEAN :
        LET env == BuildEnvMap(p, task) IN
        procs[p].pc = "open" /\ ~BuildFails(p, RowsOf(RunScopes(task))) =>
            /\ ~task => DOMAIN env = handleListResources
            /\ \A n \in DOMAIN env :
                  LET scopes == {s \in RunScopes(task) : <<n, s>> \in List({s})}
                      top == CHOOSE s \in scopes : \A r \in scopes : ScopeOrder[r] <= ScopeOrder[s]
                  IN env[n] = GetSecret(p, n, top)

\* loadOrCreateMasterKey: a secret that is listed as available can be read by
\* every process that opens the store, unless two processes once found no key
\* file at the same time
ListedIsReadable ==
    ~split => \A p \in Processes, i \in 1..Len(secretRows) :
        procs[p].pc = "open" /\ LiveRow(i) => CanDecrypt(p, i)

SecretsSafe == SecretsTypeOK /\ OneLive /\ EnvIsNarrowest /\ ListedIsReadable

\* Revoke, Set: a revoked value does not come back
RevokedForever ==
    [][\A i \in 1..Len(secretRows) : secretRows[i].revoked => secretRows'[i].revoked]_seVars
=============================================================================
