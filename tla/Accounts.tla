------------------------------ MODULE Accounts ------------------------------
(***************************************************************************)
(* Users, browser sessions, the login limiter and logins through external  *)
(* identity providers (internal/auth/{handlers,user_store,session_store,   *)
(* middleware}.go, internal/auth/idp, the user commands of the admin       *)
(* socket).  A request is a goroutine; every SQL statement and every use   *)
(* of the limiter's mutex is a step of its own.                            *)
(*                                                                         *)
(* users is the AUTOINCREMENT table: row i is user i, a deleted row keeps  *)
(* its place with gone = TRUE.  sessions is laid out the same way: random  *)
(* session ids never come back.  A password is a member of Passwords;      *)
(* RandomPW, the password of a provisioned user, is nobody's guess.        *)
(***************************************************************************)
EXTENDS Naturals, Sequences, FiniteSets

CONSTANTS
    Requests,           \* concurrent HTTP requests
    IPs, Names, Passwords,
    Externals,          \* accounts at an identity provider
    ExternalName,       \* sanitizeUsername of each of them
    ExternalEmail,      \* its e-mail address, NoEmail when it has none
    NoEmail,
    AllowedDomain,      \* the accounts whose domain the provider accepts
    maxLoginFailures,   \* handlers.go: 3
    MaxUsers, MaxSessions,
    MaxUnasked          \* bound on the wrong passwords counted in unasked

ASSUME AccountsAssumption ==
    /\ IsFiniteSet(Requests) /\ maxLoginFailures \in Nat \ {0}
    /\ MaxUsers \in Nat \ {0} /\ MaxSessions \in Nat
    /\ ExternalName \in [Externals -> Names]

VARIABLES
    users,       \* <<[name, role, pw, email, gone]>>
    sessions,    \* <<[user, state]>>
    attempts,    \* per IP: failures and whether loginBlockTime has passed
    unasked,     \* per IP: wrong passwords the limiter was neither asked nor told of
    identities,  \* user_identities: the user linked to an external account
    request      \* what each request is about to do

acVars == <<users, sessions, attempts, unasked, identities, request>>

RandomPW == "random"
Idle == [pc |-> "idle"]
NoAttempt == [failures |-> 0, stale |-> FALSE]

UserIDs == 1..Len(users)
Existing == {u \in UserIDs : ~users[u].gone}
SessionIDs == 1..Len(sessions)

AccountsInit ==
    \* main.go creates the user "admin" before it serves requests
    /\ \E n \in Names :
         users = <<[name |-> <<n, 0>>, role |-> "admin", pw |-> RandomPW,
                    email |-> NoEmail, gone |-> FALSE]>>
    /\ sessions = <<>>
    /\ attempts = [ip \in IPs |-> NoAttempt] /\ unasked = [ip \in IPs |-> 0]
    /\ identities = [x \in Externals |-> 0]
    /\ request = [r \in Requests |-> Idle]

-----------------------------------------------------------------------------
(* The user and session stores.                                            *)

CountUsers == Cardinality(Existing)

GetUserByUsername(n) == {u \in Existing : users[u].name = n}

GetUserByEmail(e) == IF e = NoEmail THEN {} ELSE {u \in Existing : users[u].email = e}

RoleOfNewUser == IF CountUsers = 0 THEN "admin" ELSE "user"

VerifyPassword(n, pw) == {u \in GetUserByUsername(n) : users[u].pw = pw}

\* The rows of sessions chosen by S are deleted
DeleteSessions(S) ==
    sessions' = [i \in SessionIDs |->
                   IF i \in S THEN [sessions[i] EXCEPT !.state = "deleted"]
                              ELSE sessions[i]]

DeleteSessionsByUser(u) == DeleteSessions({i \in SessionIDs : sessions[i].user = u})

DeleteSessionsByUserExcept(u, s) ==
    DeleteSessions({i \in SessionIDs : sessions[i].user = u /\ i # s})

\* GetSession accepts a row that is there and has not expired
LiveSession(s) == sessions[s].state = "live"

Goto(r, rec) == request' = [request EXCEPT ![r] = rec]

-----------------------------------------------------------------------------
(* The login limiter.                                                      *)

\* Mutant: one failure more than the limit blocks.
isBlockedLate(ip) == attempts[ip].failures > maxLoginFailures /\ ~attempts[ip].stale

isBlocked(ip) == attempts[ip].failures >= maxLoginFailures /\ ~attempts[ip].stale

\* isBlocked also deletes an entry whose block time has passed
forgetStale(ip) ==
    attempts' = IF attempts[ip].stale THEN [attempts EXCEPT ![ip] = NoAttempt] ELSE attempts

recordFailure(ip) ==
    attempts' = [attempts EXCEPT ![ip] = [failures |-> @.failures + 1, stale |-> FALSE]]

clearFailures(ip) == attempts' = [attempts EXCEPT ![ip] = NoAttempt]

\* loginBlockTime passes since the last failure from this address
BlockTimePasses(ip) ==
    /\ attempts[ip].failures > 0 /\ ~attempts[ip].stale
    /\ attempts' = [attempts EXCEPT ![ip].stale = TRUE]
    /\ unasked' = [unasked EXCEPT ![ip] = 0]
    /\ UNCHANGED <<users, sessions, identities, request>>

-----------------------------------------------------------------------------
(* Registration: CreateUser counts the users, then inserts.                *)

BeginCreateUser(r, n, pw, x) ==
    Goto(r, [pc |-> "insert", name |-> n, pw |-> pw, role |-> RoleOfNewUser, ext |-> x])

HandleRegister(r, n, pw) ==
    /\ request[r] = Idle
    /\ BeginCreateUser(r, <<n, 0>>, pw, NoEmail)
    /\ UNCHANGED <<users, sessions, attempts, unasked, identities>>

\* user.create on the admin socket
handleUserCreate(r, n, pw) == HandleRegister(r, n, pw)

\* INSERT INTO users; UNIQUE(username) refuses a second row of that name.
\* findOrCreateUser then tries once more under a random suffix.
CreateUser(r) ==
    LET q == request[r]  id == Len(users) + 1 IN
    /\ q.pc = "insert"
    /\ IF GetUserByUsername(q.name) = {}
       THEN /\ id <= MaxUsers
            /\ users' = Append(users, [name |-> q.name, role |-> q.role, pw |-> q.pw,
                                       email |-> NoEmail, gone |-> FALSE])
            /\ Goto(r, IF q.ext = NoEmail THEN Idle
                       ELSE [pc |-> "setemail", user |-> id, ext |-> q.ext])
       ELSE /\ IF q.ext # NoEmail /\ q.name[2] = 0
               THEN Goto(r, [q EXCEPT !.name = <<q.name[1], id>>, !.role = RoleOfNewUser])
               ELSE Goto(r, Idle)
            /\ UNCHANGED users
    /\ UNCHANGED <<sessions, attempts, unasked, identities>>

-----------------------------------------------------------------------------
(* Login with a password.                                                  *)

HandleLogin(r, ip, n, pw) ==
    /\ request[r] = Idle
    /\ ~isBlocked(ip)
    /\ forgetStale(ip)
    /\ Goto(r, [pc |-> "verify", ip |-> ip, name |-> <<n, 0>>, pw |-> pw])
    /\ UNCHANGED <<users, sessions, identities, unasked>>

HandleLoginVerify(r) ==
    LET q == request[r]  U == VerifyPassword(q.name, q.pw) IN
    /\ q.pc = "verify"
    /\ IF U = {} THEN recordFailure(q.ip) /\ Goto(r, Idle)
       ELSE /\ clearFailures(q.ip)
            /\ \E u \in U : Goto(r, [pc |-> "session", user |-> u])
    /\ UNCHANGED <<users, sessions, identities, unasked>>

\* INSERT INTO sessions; the foreign key refuses a user who is gone
CreateSession(r) ==
    LET q == request[r] IN
    /\ q.pc = "session"
    /\ IF q.user \in Existing
       THEN /\ Len(sessions) < MaxSessions
            /\ sessions' = Append(sessions, [user |-> q.user, state |-> "live"])
       ELSE UNCHANGED sessions
    /\ Goto(r, Idle)
    /\ UNCHANGED <<users, attempts, unasked, identities>>

\* The login form of the OAuth authorization page asks the limiter nothing and
\* tells it nothing: a wrong password gets the form again
handleAuthorizeLogin(r, ip, n, pw) ==
    LET U == VerifyPassword(<<n, 0>>, pw) IN
    /\ request[r] = Idle
    /\ IF U = {}
       THEN /\ unasked[ip] < MaxUnasked
            /\ unasked' = [unasked EXCEPT ![ip] = @ + 1]
            /\ UNCHANGED request
       ELSE /\ \E u \in U : Goto(r, [pc |-> "session", user |-> u])
            /\ UNCHANGED unasked
    /\ UNCHANGED <<users, sessions, attempts, identities>>

HandleLogout(s) ==
    /\ sessions[s].state # "deleted"
    /\ DeleteSessions({s})
    /\ UNCHANGED <<users, attempts, unasked, identities, request>>

\* The session's lifetime ends; GetSession deletes an expired row it meets
SessionExpires(s) ==
    /\ LiveSession(s)
    /\ sessions' = [sessions EXCEPT ![s].state = "expired"]
    /\ UNCHANGED <<users, attempts, unasked, identities, request>>

GetSession(s) ==
    /\ sessions[s].state = "expired"
    /\ DeleteSessions({s})
    /\ UNCHANGED <<users, attempts, unasked, identities, request>>

-----------------------------------------------------------------------------
(* Changing a password: RequireSession and VerifyPassword, UpdatePassword, *)
(* DeleteSessionsByUserExcept.                                             *)

HandleChangePassword(r, s, cur, new) ==
    LET u == sessions[s].user IN
    /\ request[r] = Idle /\ LiveSession(s)
    /\ u \in Existing /\ users[u].pw = cur
    /\ Goto(r, [pc |-> "update", user |-> u, session |-> s, pw |-> new])
    /\ UNCHANGED <<users, sessions, attempts, unasked, identities>>

UpdatePassword(r) ==
    LET q == request[r] IN
    /\ q.pc = "update"
    /\ IF q.user \in Existing
       THEN /\ users' = [users EXCEPT ![q.user].pw = q.pw]
            /\ Goto(r, [q EXCEPT !.pc = "purge"])
       ELSE Goto(r, Idle) /\ UNCHANGED users
    /\ UNCHANGED <<sessions, attempts, unasked, identities>>

PurgeOtherSessions(r) ==
    LET q == request[r] IN
    /\ q.pc = "purge"
    /\ DeleteSessionsByUserExcept(q.user, q.session)
    /\ Goto(r, Idle)
    /\ UNCHANGED <<users, attempts, unasked, identities>>

\* user.passwd on the admin socket leaves the sessions alone
handleUserPasswd(u, pw) ==
    /\ users[u].pw # pw
    /\ users' = [users EXCEPT ![u].pw = pw]
    /\ UNCHANGED <<sessions, attempts, unasked, identities, request>>

\* user.delete: the sessions first ...
handleUserDelete(r, u) ==
    /\ request[r] = Idle
    /\ DeleteSessionsByUser(u)
    /\ Goto(r, [pc |-> "delete", user |-> u])
    /\ UNCHANGED <<users, attempts, unasked, identities>>

\* ... then the row, which a session created meanwhile protects; the links
\* of the user go with it (ON DELETE CASCADE)
handleUserDeleteRow(r) ==
    LET q == request[r] IN
    /\ q.pc = "delete"
    /\ IF \E s \in SessionIDs : sessions[s].user = q.user /\ sessions[s].state # "deleted"
       THEN UNCHANGED <<users, identities>>
       ELSE /\ users' = [users EXCEPT ![q.user].gone = TRUE]
            /\ identities' = [x \in Externals |-> IF identities[x] = q.user THEN 0
                                                  ELSE identities[x]]
    /\ Goto(r, Idle)
    /\ UNCHANGED <<sessions, attempts, unasked>>

-----------------------------------------------------------------------------
(* Login through an identity provider: HandleCallback after Exchange, with *)
(* findOrCreateUser spelled out statement by statement.                    *)

\* OIDCProvider.Exchange refuses an account outside the allowed domains
validateDomain(x) == x \in AllowedDomain

HandleCallback(r, x) ==
    /\ request[r] = Idle /\ validateDomain(x)
    /\ Goto(r, IF identities[x] # 0 THEN [pc |-> "session", user |-> identities[x]]
               ELSE [pc |-> "byemail", ext |-> x])
    /\ UNCHANGED <<users, sessions, attempts, unasked, identities>>

\* An account with the same address is linked, else a new one is made
findOrCreateUser(r) ==
    LET q == request[r]  U == GetUserByEmail(ExternalEmail[q.ext]) IN
    /\ q.pc = "byemail"
    /\ IF U # {} THEN \E u \in U : Goto(r, [pc |-> "link", user |-> u, ext |-> q.ext])
                 ELSE BeginCreateUser(r, <<ExternalName[q.ext], 0>>, RandomPW, q.ext)
    /\ UNCHANGED <<users, sessions, attempts, unasked, identities>>

SetEmail(r) ==
    LET q == request[r] IN
    /\ q.pc = "setemail"
    /\ users' = IF ExternalEmail[q.ext] = NoEmail THEN users
                ELSE [users EXCEPT ![q.user].email = ExternalEmail[q.ext]]
    /\ Goto(r, [q EXCEPT !.pc = "link"])
    /\ UNCHANGED <<sessions, attempts, unasked, identities>>

\* idStore.Create: UNIQUE(provider, external_id) keeps the first link, a
\* foreign key refuses a user who is gone, and the error is only logged
LinkIdentity(r) ==
    LET q == request[r] IN
    /\ q.pc = "link"
    /\ identities' = IF identities[q.ext] = 0 /\ q.user \in Existing
                     THEN [identities EXCEPT ![q.ext] = q.user] ELSE identities
    /\ Goto(r, [pc |-> "session", user |-> q.user])
    /\ UNCHANGED <<users, sessions, attempts, unasked>>

-----------------------------------------------------------------------------
AccountsNext ==
    \/ \E ip \in IPs : BlockTimePasses(ip)
    \/ \E s \in SessionIDs : HandleLogout(s) \/ SessionExpires(s) \/ GetSession(s)
    \/ \E u \in Existing, pw \in Passwords : handleUserPasswd(u, pw)
    \/ \E r \in Requests :
         \/ \E n \in Names, pw \in Passwords :
              \/ handleUserCreate(r, n, pw)
              \/ \E ip \in IPs : HandleLogin(r, ip, n, pw) \/ handleAuthorizeLogin(r, ip, n, pw)
         \/ CreateUser(r) \/ HandleLoginVerify(r) \/ CreateSession(r)
         \/ \E s \in SessionIDs, cur, new \in Passwords :
              HandleChangePassword(r, s, cur, new)
         \/ UpdatePassword(r) \/ PurgeOtherSessions(r)
         \/ \E u \in Existing : handleUserDelete(r, u)
         \/ handleUserDeleteRow(r)
         \/ \E x \in Externals : HandleCallback(r, x)
         \/ findOrCreateUser(r) \/ SetEmail(r) \/ LinkIdentity(r)

AccountsSpec == AccountsInit /\ [][AccountsNext]_acVars

-----------------------------------------------------------------------------
(* What the code is to guarantee.                                          *)

\* The shape of the tables
AccountsTypeOK ==
    /\ Len(users) \in 1..MaxUsers /\ Len(sessions) \in 0..MaxSessions
    /\ \A u \in UserIDs : users[u].role \in {"admin", "user"}
    /\ \A s \in SessionIDs : /\ sessions[s].user \in UserIDs
                             /\ sessions[s].state \in {"live", "expired", "deleted"}
    /\ \A ip \in IPs : attempts[ip].failures \in Nat
    /\ \A x \in Externals : identities[x] \in {0} \union UserIDs

Checking(ip) == {r \in Requests : request[r].pc = "verify" /\ request[r].ip = ip}

\* handlers.go isBlocked/recordFailure: however the requests of HandleLogin
\* interleave, an address gets at most maxLoginFailures - 1 wrong passwords there
\* plus one for each request that was already past the limiter
GuessesBounded ==
    \A ip \in IPs :
        attempts[ip].failures + Cardinality(Checking(ip))
            <= maxLoginFailures - 1 + Cardinality(Requests)

\* handleUserDelete: no session and no link outlives its user, although the
\* sessions are deleted before the user and a login may come in between
NothingOutlivesUser ==
    /\ \A s \in SessionIDs : sessions[s].state # "deleted" => sessions[s].user \in Existing
    /\ \A x \in Externals : identities[x] # 0 => identities[x] \in Existing

\* user_store.go CreateUser, findOrCreateUser: usernames stay unique, though
\* registrations and first logins with one name overlap
NamesUnique ==
    \A u, v \in Existing : users[u].name = users[v].name => u = v

\* handlers.go:178, "Brute-force protection: block IP after 3 failed attempts for
\* 1 minute", said of an address and not of one of the two forms it can log in
\* with: does not hold, handleAuthorizeLogin goes past the limiter
AddressBlocked ==
    \A ip \in IPs :
        attempts[ip].failures + unasked[ip] <= maxLoginFailures - 1 + Cardinality(Requests)

AccountsSafe == AccountsTypeOK /\ GuessesBounded /\ NothingOutlivesUser /\ NamesUnique
=============================================================================
