----------------------------- MODULE OAuthTokens -----------------------------
(***************************************************************************)
(* The OAuth 2.1 authorization server: clients, authorization codes,       *)
(* access and refresh tokens (internal/auth/{fosite_store,client_store,    *)
(* provider}.go and the OAuth handlers of handlers.go).  The protocol is   *)
(* driven by the fosite library, which is external: TokenEndpoint and its  *)
(* steps call the store in the order fosite calls it, and every call is a  *)
(* statement of its own, so two token requests interleave between them.    *)
(*                                                                         *)
(* codes and tokens are append-only tables; the index is the signature.    *)
(* Scopes, redirect URIs and PKCE challenges are left out: the library     *)
(* compares them and no step of the store depends on them.                 *)
(***************************************************************************)
EXTENDS Naturals, Sequences

CONSTANTS
    TokenRequests,      \* concurrent requests of the token endpoint
    OAuthClients, OAuthUsers,
    NoUser,             \* oauth_tokens.user_id IS NULL
    MaxCodes, MaxTokens

ASSUME OAuthAssumption == OAuthClients # {} /\ NoUser \notin OAuthUsers

VARIABLES
    clients,   \* registered clients
    confidential, \* those with a secret and grant_types = ["client_credentials", ...]
    codes,     \* <<[client, user, used, expired]>>
    tokens,    \* <<[kind, client, user, code, consumed, expired]>>
    endpoint   \* what each token request is about to do

oaVars == <<clients, confidential, codes, tokens, endpoint>>

NoCall == [pc |-> "idle"]
NoCode == 0    \* of a token that no user approved
Codes == 1..Len(codes)
Tokens == 1..Len(tokens)

OAuthInit ==
    \* ensureDefaultMCPClient registers one client before the server starts
    /\ clients = {CHOOSE c \in OAuthClients : TRUE} /\ confidential = {}
    /\ codes = <<>> /\ tokens = <<>>
    /\ endpoint = [r \in TokenRequests |-> NoCall]

-----------------------------------------------------------------------------
(* The store (fosite_store.go, client_store.go).                           *)

CreatePublicClient(c) ==
    clients' = clients \union {c} /\ UNCHANGED confidential

\* A client with a secret; its default grant is client_credentials
CreateClient(c) ==
    clients' = clients \union {c} /\ confidential' = confidential \union {c}

CreateAuthorizeCodeSession(c, u) ==
    /\ Len(codes) < MaxCodes
    /\ codes' = Append(codes, [client |-> c, user |-> u, used |-> FALSE, expired |-> FALSE])

\* GetAuthorizeCodeSession answers ErrInvalidatedAuthorizeCode for a used code
GetAuthorizeCodeSession(k) == ~codes[k].used

\* Mutant: the code is not marked used.
InvalidateNothing(k) == k \in Codes /\ UNCHANGED codes

InvalidateAuthorizeCodeSession(k) == codes' = [codes EXCEPT ![k].used = TRUE]

\* createTokenSession and CreateRefreshTokenSession insert a row each; user_id
\* is NULL when the session has none
CreateTokenSession(kind, c, u, k) ==
    /\ Len(tokens) < MaxTokens
    /\ tokens' = Append(tokens, [kind |-> kind, client |-> c, user |-> u, code |-> k,
                                 consumed |-> FALSE, expired |-> FALSE])

CreateTokenOfCode(kind, k) == CreateTokenSession(kind, codes[k].client, codes[k].user, k)

RotateRefreshToken(t) == tokens' = [tokens EXCEPT ![t].consumed = TRUE]

\* The "family" of a token is every token of the same client
revokeTokenFamily(t) ==
    tokens' = [i \in Tokens |-> IF tokens[i].client = tokens[t].client
                                THEN [tokens[i] EXCEPT !.consumed = TRUE] ELSE tokens[i]]

Call(r, rec) == endpoint' = [endpoint EXCEPT ![r] = rec]

-----------------------------------------------------------------------------
(* Registration and approval.                                              *)

HandleDynamicRegistration(c) ==
    /\ c \notin clients
    /\ CreatePublicClient(c)
    /\ UNCHANGED <<codes, tokens, endpoint>>

\* Whoever provisions a client with a secret (no handler of the program does)
ClientProvisioned(c) ==
    /\ c \notin clients
    /\ CreateClient(c)
    /\ UNCHANGED <<codes, tokens, endpoint>>

\* A signed-in user approves an agent: NewAuthorizeResponse stores a code
handleAuthorizeApprove(c, u) ==
    /\ c \in clients
    /\ CreateAuthorizeCodeSession(c, u)
    /\ UNCHANGED <<clients, confidential, tokens, endpoint>>

\* Ten minutes for a code, AccessTokenTTL and RefreshTokenLifetime for tokens
CodeExpires(k) ==
    /\ ~codes[k].expired
    /\ codes' = [codes EXCEPT ![k].expired = TRUE]
    /\ UNCHANGED <<clients, confidential, tokens, endpoint>>

TokenExpires(t) ==
    /\ ~tokens[t].expired
    /\ tokens' = [tokens EXCEPT ![t].expired = TRUE]
    /\ UNCHANGED <<clients, confidential, codes, endpoint>>

-----------------------------------------------------------------------------
(* grant_type=authorization_code: look the code up, mark it used, insert   *)
(* the access token, insert the refresh token.                             *)

HandleTokenCode(r, k) ==
    /\ endpoint[r] = NoCall
    /\ GetAuthorizeCodeSession(k) /\ ~codes[k].expired
    /\ Call(r, [pc |-> "invalidate", code |-> k])
    /\ UNCHANGED <<clients, confidential, codes, tokens>>

TokenInvalidateCode(r) ==
    LET q == endpoint[r] IN
    /\ q.pc = "invalidate"
    /\ InvalidateAuthorizeCodeSession(q.code)
    /\ Call(r, [pc |-> "access", code |-> q.code])
    /\ UNCHANGED <<clients, confidential, tokens>>

TokenCreateAccess(r) ==
    LET q == endpoint[r] IN
    /\ q.pc = "access"
    /\ CreateTokenOfCode("access", q.code)
    /\ Call(r, [pc |-> "refresh", code |-> q.code])
    /\ UNCHANGED <<clients, confidential, codes>>

TokenCreateRefresh(r) ==
    LET q == endpoint[r] IN
    /\ q.pc = "refresh"
    /\ CreateTokenOfCode("refresh", q.code)
    /\ Call(r, NoCall)
    /\ UNCHANGED <<clients, confidential, codes>>

\* The server stops between two statements: the request is gone
TokenRequestDies(r) ==
    /\ endpoint[r] # NoCall
    /\ Call(r, NoCall)
    /\ UNCHANGED <<clients, confidential, codes, tokens>>

-----------------------------------------------------------------------------
(* grant_type=client_credentials: the client signs in with its secret and  *)
(* gets an access token, in one statement and with nobody's approval.      *)

HandleTokenCredentials(r, c) ==
    /\ endpoint[r] = NoCall /\ c \in confidential
    /\ CreateTokenSession("access", c, NoUser, NoCode)
    /\ UNCHANGED <<clients, confidential, codes, endpoint>>

-----------------------------------------------------------------------------
(* grant_type=refresh_token.  getTokenSession meets a consumed token: it   *)
(* was used before, so the family is revoked and the request refused.      *)

HandleTokenRefresh(r, t) ==
    /\ endpoint[r] = NoCall /\ tokens[t].kind = "refresh"
    /\ IF tokens[t].consumed
       THEN revokeTokenFamily(t) /\ UNCHANGED endpoint
       ELSE /\ ~tokens[t].expired
            /\ Call(r, [pc |-> "rotate", token |-> t])
            /\ UNCHANGED tokens
    /\ UNCHANGED <<clients, confidential, codes>>

TokenRotate(r) ==
    LET q == endpoint[r] IN
    /\ q.pc = "rotate"
    /\ RotateRefreshToken(q.token)
    /\ Call(r, [pc |-> "access", code |-> tokens[q.token].code])
    /\ UNCHANGED <<clients, confidential, codes>>

\* RequireBearer, resolveOAuthToken and HandleIntrospect ask for an access
\* token; presenting a consumed one revokes the family as well
IntrospectToken(t) ==
    /\ tokens[t].kind = "access" /\ tokens[t].consumed
    /\ revokeTokenFamily(t)
    /\ UNCHANGED <<clients, confidential, codes, endpoint>>

OAuthNext ==
    \/ \E c \in OAuthClients : \/ HandleDynamicRegistration(c) \/ ClientProvisioned(c)
                               \/ \E r \in TokenRequests : HandleTokenCredentials(r, c)
                               \/ \E u \in OAuthUsers : handleAuthorizeApprove(c, u)
    \/ \E k \in Codes : CodeExpires(k) \/ \E r \in TokenRequests : HandleTokenCode(r, k)
    \/ \E r \in TokenRequests :
         \/ TokenInvalidateCode(r) \/ TokenCreateAccess(r) \/ TokenCreateRefresh(r)
         \/ TokenRotate(r) \/ TokenRequestDies(r)
    \/ \E t \in Tokens : \/ TokenExpires(t) \/ IntrospectToken(t)
                         \/ \E r \in TokenRequests : HandleTokenRefresh(r, t)

OAuthSpec == OAuthInit /\ [][OAuthNext]_oaVars

-----------------------------------------------------------------------------
\* A token the middleware accepts
AcceptedToken(t) == tokens[t].kind = "access" /\ ~tokens[t].consumed /\ ~tokens[t].expired

\* The shape of the tables
OAuthTypeOK ==
    /\ confidential \subseteq clients /\ clients \subseteq OAuthClients
    /\ \A k \in Codes : codes[k].client \in OAuthClients /\ codes[k].used \in BOOLEAN
    /\ \A t \in Tokens : /\ tokens[t].kind \in {"access", "refresh"}
                         /\ tokens[t].code \in Codes \union {NoCode}

\* HandleToken: every token that speaks for a user goes back to a code that this
\* user approved for that client and that was marked used before the token was
\* stored, so a crash between the two statements can lose a grant but never
\* leave a code that still works next to its tokens
TokensFromUsedCodes ==
    \A t \in Tokens : LET k == tokens[t].code IN
        tokens[t].user # NoUser =>
            /\ k \in Codes /\ codes[k].used /\ codes[k].client \in clients
            /\ tokens[t].client = codes[k].client /\ tokens[t].user = codes[k].user

\* provider.go: the other tokens are those of the client_credentials grant. They
\* belong to a client that has a secret, and no refresh token, and so no rotation,
\* turns them into the token of a user
TokensOfNobody ==
    \A t \in Tokens : tokens[t].user = NoUser =>
        /\ tokens[t].client \in confidential
        /\ tokens[t].kind = "access" /\ tokens[t].code = NoCode

OAuthSafe == OAuthTypeOK /\ TokensFromUsedCodes /\ TokensOfNobody

\* fosite_store.go getTokenSession/revokeTokenFamily: what was taken back stays
\* taken back, whatever the requests in flight still write
ConsumedForever ==
    [][/\ \A t \in Tokens : tokens[t].consumed => tokens'[t].consumed
       /\ \A k \in Codes : codes[k].used => codes'[k].used]_oaVars
=============================================================================
