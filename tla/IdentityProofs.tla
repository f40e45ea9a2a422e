--------------------------- MODULE IdentityProofs ---------------------------
(***************************************************************************)
(* Proofs about the identity components, for any clients, users, agents,   *)
(* requests and bounds: the token endpoint (OAuthTokens), agents and their *)
(* keys (AgentRegistry), users and sessions (Accounts), channels           *)
(* (Channels), and the composition of the four that TLC checks.  Each part *)
(* has its inductive invariant, one lemma per kind of statement, and the   *)
(* theorem that the component's Spec implies []Safe.                       *)
(***************************************************************************)
EXTENDS MCIdentity, SequenceTheorems, FiniteSetTheorems, TLAPS

-----------------------------------------------------------------------------
(* The token endpoint.                                                     *)

\* The tables, and what a token request remembers between two statements.
CodeRow == [client : OAuthClients, user : OAuthUsers, used : BOOLEAN, expired : BOOLEAN]

TokenRow == [kind : {"access", "refresh"}, client : OAuthClients,
             user : OAuthUsers \union {NoUser}, code : Nat, consumed : BOOLEAN, expired : BOOLEAN]

EndpointState == [pc : {"idle"}] \union [pc : {"invalidate", "access", "refresh"}, code : Nat]
                 \union [pc : {"rotate"}, token : Nat]

OAuthRows ==
  /\ confidential \subseteq clients /\ clients \subseteq OAuthClients
  /\ codes \in Seq(CodeRow)
  /\ tokens \in Seq(TokenRow)
  /\ endpoint \in [TokenRequests -> EndpointState]
  /\ \A k \in Codes : codes[k].client \in clients

\* A request that writes tokens has marked its code used: no statement of
\* another request takes that back.
RequestsHoldUsedCodes ==
  \A r \in TokenRequests :
    /\ endpoint[r].pc = "invalidate" => endpoint[r].code \in Codes
    /\ endpoint[r].pc \in {"access", "refresh"} =>
         endpoint[r].code \in Codes /\ codes[endpoint[r].code].used
    /\ endpoint[r].pc = "rotate" => /\ endpoint[r].token \in Tokens
                                    /\ tokens[endpoint[r].token].kind = "refresh"

\* A token of a user has its code; one of a client's own credentials has none.
OfCode(t) ==
  /\ tokens[t].code \in Codes
  /\ codes[tokens[t].code].used
  /\ tokens[t].client = codes[tokens[t].code].client
  /\ tokens[t].user = codes[tokens[t].code].user

OfCredentials(t) ==
  /\ tokens[t].kind = "access" /\ tokens[t].code = NoCode /\ tokens[t].user = NoUser
  /\ tokens[t].client \in confidential

TokensHoldUsedCodes == \A t \in Tokens : OfCode(t) \/ OfCredentials(t)

OAuthInv == OAuthRows /\ RequestsHoldUsedCodes /\ TokensHoldUsedCodes

LEMMA OAuthInitInv == OAuthInit => OAuthInv
<1> SUFFICES ASSUME OAuthInit PROVE OAuthInv
  OBVIOUS
<1>1. clients \subseteq OAuthClients
  BY OAuthAssumption DEF OAuthInit
<1>2. QED
  BY <1>1 DEF OAuthInit, OAuthInv, OAuthRows, RequestsHoldUsedCodes, TokensHoldUsedCodes, NoCall,
      EndpointState, Codes, Tokens

\* Rows appended to, or changed in, a table that is a sequence.
LEMMA AppendRow ==
  ASSUME NEW S, NEW s \in Seq(S), NEW e \in S
  PROVE  /\ Append(s, e) \in Seq(S) /\ Len(Append(s, e)) = Len(s) + 1
         /\ \A j \in 1..Len(s) : j \in 1..Len(Append(s, e)) /\ Append(s, e)[j] = s[j]
         /\ Append(s, e)[Len(s) + 1] = e
OBVIOUS

LEMMA ChangeRow ==
  ASSUME NEW S, NEW s \in Seq(S), NEW i \in 1..Len(s), NEW e \in S
  PROVE  /\ [s EXCEPT ![i] = e] \in Seq(S) /\ Len([s EXCEPT ![i] = e]) = Len(s)
         /\ \A j \in 1..Len(s) : [s EXCEPT ![i] = e][j] = IF j = i THEN e ELSE s[j]
BY ExceptSeq

\* No step takes a row away, moves it to another client, user or code, or makes
\* a used code or a consumed token good again, and no client loses its secret.
CodesKept ==
  /\ confidential \subseteq confidential'
  /\ \A k \in Codes : /\ k \in Codes'
                      /\ codes'[k].client = codes[k].client /\ codes'[k].user = codes[k].user
                      /\ codes[k].used => codes'[k].used

TokensKept ==
  \A t \in Tokens : /\ t \in Tokens'
                    /\ tokens'[t].client = tokens[t].client /\ tokens'[t].user = tokens[t].user
                    /\ tokens'[t].code = tokens[t].code /\ tokens'[t].kind = tokens[t].kind
                    /\ tokens[t].consumed => tokens'[t].consumed

LEMMA RowsTyped ==
  ASSUME OAuthRows
  PROVE  /\ \A k \in Codes : codes[k] \in CodeRow
         /\ \A t \in Tokens : tokens[t] \in TokenRow
BY DEF OAuthRows, Codes, Tokens

LEMMA RowFields ==
  /\ \A row \in CodeRow : /\ [row EXCEPT !.expired = TRUE] \in CodeRow
                          /\ [row EXCEPT !.used = TRUE] \in CodeRow
  /\ \A row \in TokenRow : /\ [row EXCEPT !.expired = TRUE] \in TokenRow
                           /\ [row EXCEPT !.consumed = TRUE] \in TokenRow
BY DEF CodeRow, TokenRow

LEMMA RevokeFamilyKeeps ==
  ASSUME OAuthRows, NEW t \in Tokens, revokeTokenFamily(t)
  PROVE  tokens' \in Seq(TokenRow) /\ Len(tokens') = Len(tokens) /\ TokensKept
<1> DEFINE Row(i) == IF tokens[i].client = tokens[t].client
                     THEN [tokens[i] EXCEPT !.consumed = TRUE] ELSE tokens[i]
<1>1. \A i \in Tokens : Row(i) \in TokenRow
  BY RowsTyped, RowFields
<1>2. tokens' = [i \in Tokens |-> Row(i)]
  BY DEF revokeTokenFamily
<1>3. tokens' \in Seq(TokenRow) /\ Len(tokens') = Len(tokens)
  <2> HIDE DEF Row
  <2> QED BY <1>1, <1>2 DEF OAuthRows, Tokens
<1>4. TokensKept
  BY <1>2, <1>3 DEF TokensKept, Tokens, OAuthRows, TokenRow
<1> QED
  BY <1>3, <1>4

LEMMA CreateTokenKeeps ==
  ASSUME OAuthRows, NEW kind \in {"access", "refresh"}, NEW c \in OAuthClients,
         NEW u \in OAuthUsers \union {NoUser}, NEW k \in Nat,
         CreateTokenSession(kind, c, u, k), TokensHoldUsedCodes, UNCHANGED <<codes, confidential>>,
         \/ k \in Codes /\ codes[k].used /\ c = codes[k].client /\ u = codes[k].user
         \/ kind = "access" /\ k = NoCode /\ u = NoUser /\ c \in confidential
  PROVE  tokens' \in Seq(TokenRow) /\ TokensKept /\ TokensHoldUsedCodes'
<1> DEFINE row == [kind |-> kind, client |-> c, user |-> u, code |-> k,
                   consumed |-> FALSE, expired |-> FALSE]
<1>1. row \in TokenRow
  BY DEF TokenRow
<1>2. tokens' = Append(tokens, row)
  BY DEF CreateTokenSession
<1>3. row.kind = kind /\ row.code = k /\ row.client = c /\ row.user = u
  OBVIOUS
<1> HIDE DEF row
<1>4. /\ tokens' \in Seq(TokenRow) /\ Len(tokens') = Len(tokens) + 1
      /\ \A j \in 1..Len(tokens) : j \in 1..Len(tokens') /\ tokens'[j] = tokens[j]
      /\ tokens'[Len(tokens) + 1] = row
  BY <1>1, <1>2, AppendRow DEF OAuthRows
<1>5. TokensKept
  BY <1>4 DEF TokensKept, Tokens
<1>6. TokensHoldUsedCodes'
  <2> SUFFICES ASSUME NEW t \in Tokens' PROVE OfCode(t)' \/ OfCredentials(t)'
    BY DEF TokensHoldUsedCodes
  <2>1. CASE t \in Tokens
    BY <2>1, <1>4 DEF TokensHoldUsedCodes, Tokens, Codes, OfCode, OfCredentials
  <2>2. CASE t = Len(tokens) + 1
    BY <2>2, <1>3, <1>4 DEF OfCode, OfCredentials, Codes
  <2> QED
    BY <2>1, <2>2, <1>4 DEF Tokens, OAuthRows
<1> QED
  BY <1>4, <1>5, <1>6

LEMMA CreateTokenOfCodeKeeps ==
  ASSUME OAuthRows, NEW kind \in {"access", "refresh"}, NEW k \in Codes, codes[k].used,
         CreateTokenOfCode(kind, k), TokensHoldUsedCodes, UNCHANGED <<codes, confidential>>
  PROVE  tokens' \in Seq(TokenRow) /\ TokensKept /\ TokensHoldUsedCodes'
<1>1. codes[k].client \in OAuthClients /\ codes[k].user \in OAuthUsers /\ k \in Nat
  BY RowsTyped DEF CodeRow, Codes
<1> QED
  BY <1>1, CreateTokenKeeps DEF CreateTokenOfCode

\* A step that leaves the rows of both tables in place keeps what tokens and
\* requests hold.
LEMMA KeptHolds ==
  ASSUME OAuthInv, CodesKept, TokensKept, Len(tokens') = Len(tokens)
  PROVE  TokensHoldUsedCodes'
<1> SUFFICES ASSUME NEW t \in Tokens' PROVE OfCode(t)' \/ OfCredentials(t)'
  BY DEF TokensHoldUsedCodes
<1>1. t \in Tokens
  BY DEF Tokens
<1>2. CASE OfCode(t)
  BY <1>1, <1>2 DEF OfCode, CodesKept, TokensKept
<1>3. CASE OfCredentials(t)
  BY <1>1, <1>3 DEF OfCredentials, CodesKept, TokensKept
<1> QED
  BY <1>1, <1>2, <1>3 DEF OAuthInv, TokensHoldUsedCodes

LEMMA OthersHold ==
  ASSUME OAuthInv, CodesKept, TokensKept, NEW r \in TokenRequests, endpoint'[r] = endpoint[r]
  PROVE  /\ endpoint'[r].pc = "invalidate" => endpoint'[r].code \in Codes'
         /\ endpoint'[r].pc \in {"access", "refresh"} =>
              endpoint'[r].code \in Codes' /\ codes'[endpoint'[r].code].used
         /\ endpoint'[r].pc = "rotate" => /\ endpoint'[r].token \in Tokens'
                                          /\ tokens'[endpoint'[r].token].kind = "refresh"
BY DEF OAuthInv, RequestsHoldUsedCodes, CodesKept, TokensKept

LEMMA CallHolds ==
  ASSUME OAuthInv, CodesKept, TokensKept, NEW r \in TokenRequests, NEW rec, Call(r, rec),
         rec \in EndpointState,
         rec.pc = "invalidate" => rec.code \in Codes',
         rec.pc \in {"access", "refresh"} => rec.code \in Codes' /\ codes'[rec.code].used,
         rec.pc = "rotate" => rec.token \in Tokens' /\ tokens'[rec.token].kind = "refresh"
  PROVE  endpoint' \in [TokenRequests -> EndpointState] /\ RequestsHoldUsedCodes'
<1>1. endpoint' \in [TokenRequests -> EndpointState]
  BY DEF Call, OAuthInv, OAuthRows
<1>2. endpoint'[r] = rec /\ \A o \in TokenRequests : o # r => endpoint'[o] = endpoint[o]
  BY DEF Call, OAuthInv, OAuthRows
<1>3. RequestsHoldUsedCodes'
  BY <1>2, OthersHold DEF RequestsHoldUsedCodes
<1> QED
  BY <1>1, <1>3

LEMMA OAuthStep == OAuthInv /\ OAuthNext => OAuthInv' /\ CodesKept /\ TokensKept
<1> SUFFICES ASSUME OAuthInv, OAuthNext PROVE OAuthInv' /\ CodesKept /\ TokensKept
  OBVIOUS
<1> DEFINE Goal == OAuthInv' /\ CodesKept /\ TokensKept
<1>a. UNCHANGED <<confidential, codes>> => CodesKept /\ Codes' = Codes
  BY DEF CodesKept, Codes
<1>b. UNCHANGED tokens => TokensKept /\ Tokens' = Tokens
  BY DEF TokensKept, Tokens
<1>c. \A r \in TokenRequests : endpoint[r] \in EndpointState
  BY DEF OAuthInv, OAuthRows
<1>d. CodesKept /\ TokensKept /\ UNCHANGED endpoint => RequestsHoldUsedCodes'
  BY OthersHold DEF RequestsHoldUsedCodes
<1>n. NoCall \in EndpointState /\ NoCall.pc = "idle"
  BY DEF NoCall, EndpointState
<1>1. ASSUME NEW c \in OAuthClients, HandleDynamicRegistration(c) PROVE Goal
  BY <1>1, <1>a, <1>b, <1>d, KeptHolds DEF HandleDynamicRegistration, CreatePublicClient, OAuthInv, OAuthRows
<1>13. ASSUME NEW c \in OAuthClients, ClientProvisioned(c) PROVE Goal
  <2>1. CodesKept
    BY <1>13 DEF ClientProvisioned, CreateClient, CodesKept, Codes
  <2> QED
    BY <1>13, <2>1, <1>b, <1>d, KeptHolds DEF ClientProvisioned, CreateClient, Codes, OAuthInv, OAuthRows
<1>14. ASSUME NEW c \in OAuthClients, NEW r \in TokenRequests, HandleTokenCredentials(r, c) PROVE Goal
  <2>1. /\ CreateTokenSession("access", c, NoUser, NoCode) /\ c \in confidential
        /\ UNCHANGED <<clients, confidential, codes, endpoint>>
    BY <1>14 DEF HandleTokenCredentials
  <2>2. tokens' \in Seq(TokenRow) /\ TokensKept /\ TokensHoldUsedCodes'
    BY <2>1, CreateTokenKeeps DEF OAuthInv, NoCode
  <2> QED
    BY <1>a, <1>d, <2>1, <2>2 DEF OAuthInv, OAuthRows
<1>2. ASSUME NEW c \in OAuthClients, NEW u \in OAuthUsers, handleAuthorizeApprove(c, u) PROVE Goal
  <2> DEFINE row == [client |-> c, user |-> u, used |-> FALSE, expired |-> FALSE]
  <2>1. row \in CodeRow /\ row.client = c
    BY DEF CodeRow
  <2>2. codes' = Append(codes, row) /\ c \in clients /\ UNCHANGED <<clients, confidential, tokens, endpoint>>
    BY <1>2 DEF handleAuthorizeApprove, CreateAuthorizeCodeSession
  <2> HIDE DEF row
  <2>3. /\ codes' \in Seq(CodeRow) /\ Len(codes') = Len(codes) + 1
        /\ \A j \in 1..Len(codes) : j \in 1..Len(codes') /\ codes'[j] = codes[j]
        /\ codes'[Len(codes) + 1] = row
    BY <2>1, <2>2, AppendRow DEF OAuthInv, OAuthRows
  <2>4. CodesKept
    BY <2>2, <2>3 DEF CodesKept, Codes
  <2>5. \A k \in Codes' : codes'[k].client \in clients'
    BY <2>1, <2>2, <2>3 DEF Codes, OAuthInv, OAuthRows
  <2> QED
    BY <1>b, <1>d, <2>2, <2>3, <2>4, <2>5, KeptHolds DEF OAuthInv, OAuthRows
<1>k. ASSUME NEW k \in Codes, NEW row \in CodeRow, codes' = [codes EXCEPT ![k] = row],
             row.client = codes[k].client, row.user = codes[k].user, codes[k].used => row.used,
             UNCHANGED <<clients, confidential>>
      PROVE  /\ codes' \in Seq(CodeRow) /\ CodesKept /\ Codes' = Codes /\ codes'[k] = row
             /\ \A i \in Codes' : codes'[i].client \in clients'
  <2>1. /\ codes' \in Seq(CodeRow) /\ Len(codes') = Len(codes)
        /\ \A j \in 1..Len(codes) : codes'[j] = IF j = k THEN row ELSE codes[j]
    BY <1>k, ChangeRow DEF OAuthInv, OAuthRows, Codes
  <2> QED
    BY <1>k, <2>1 DEF CodesKept, Codes, OAuthInv, OAuthRows
<1>t. ASSUME NEW t \in Tokens, NEW row \in TokenRow, tokens' = [tokens EXCEPT ![t] = row],
             row.client = tokens[t].client, row.user = tokens[t].user, row.code = tokens[t].code,
             row.kind = tokens[t].kind, tokens[t].consumed => row.consumed
      PROVE  tokens' \in Seq(TokenRow) /\ TokensKept /\ Len(tokens') = Len(tokens)
  <2>1. /\ tokens' \in Seq(TokenRow) /\ Len(tokens') = Len(tokens)
        /\ \A j \in 1..Len(tokens) : tokens'[j] = IF j = t THEN row ELSE tokens[j]
    BY <1>t, ChangeRow DEF OAuthInv, OAuthRows, Tokens
  <2> QED
    BY <1>t, <2>1 DEF TokensKept, Tokens
<1>3. ASSUME NEW k \in Codes, CodeExpires(k) PROVE Goal
  <2>1. [codes[k] EXCEPT !.expired = TRUE] \in CodeRow
    BY RowsTyped, RowFields DEF OAuthInv
  <2>2. codes' = [codes EXCEPT ![k] = [codes[k] EXCEPT !.expired = TRUE]] /\ UNCHANGED <<clients, confidential, tokens, endpoint>>
    BY <1>3 DEF CodeExpires
  <2>3. codes[k] \in CodeRow
    BY DEF OAuthInv, OAuthRows, Codes
  <2>4. /\ codes' \in Seq(CodeRow) /\ CodesKept /\ Codes' = Codes
        /\ \A i \in Codes' : codes'[i].client \in clients'
    BY <1>k, <2>1, <2>2, <2>3 DEF CodeRow
  <2> QED
    BY <1>b, <1>d, <2>2, <2>4, KeptHolds DEF OAuthInv, OAuthRows
<1>4. ASSUME NEW k \in Codes, NEW r \in TokenRequests, HandleTokenCode(r, k) PROVE Goal
  <2> DEFINE rec == [pc |-> "invalidate", code |-> k]
  <2>1. rec \in EndpointState /\ rec.pc = "invalidate" /\ rec.code = k
    BY DEF EndpointState, Codes
  <2>2. Call(r, rec) /\ UNCHANGED <<clients, confidential, codes, tokens>>
    BY <1>4 DEF HandleTokenCode
  <2> HIDE DEF rec
  <2>3. endpoint' \in [TokenRequests -> EndpointState] /\ RequestsHoldUsedCodes'
    BY <1>a, <1>b, <2>1, <2>2, CallHolds
  <2> QED
    BY <1>a, <1>b, <2>2, <2>3, KeptHolds DEF OAuthInv, OAuthRows
<1>5. ASSUME NEW r \in TokenRequests, TokenInvalidateCode(r) PROVE Goal
  <2> DEFINE k == endpoint[r].code
             rec == [pc |-> "access", code |-> k]
  <2>1. k \in Codes
    BY <1>5 DEF TokenInvalidateCode, OAuthInv, RequestsHoldUsedCodes
  <2>2. rec \in EndpointState /\ rec.pc = "access" /\ rec.code = k
    BY <2>1 DEF EndpointState, Codes
  <2>3. codes[k] \in CodeRow /\ [codes[k] EXCEPT !.used = TRUE] \in CodeRow
    BY <2>1, RowsTyped, RowFields DEF OAuthInv
  <2>4. /\ codes' = [codes EXCEPT ![k] = [codes[k] EXCEPT !.used = TRUE]]
        /\ Call(r, rec) /\ UNCHANGED <<clients, confidential, tokens>>
    BY <1>5 DEF TokenInvalidateCode, InvalidateAuthorizeCodeSession
  <2> HIDE DEF rec, k
  <2>5. /\ codes' \in Seq(CodeRow) /\ CodesKept /\ Codes' = Codes
        /\ \A i \in Codes' : codes'[i].client \in clients'
        /\ codes'[k].used
    BY <1>k, <2>1, <2>3, <2>4 DEF CodeRow
  <2>6. endpoint' \in [TokenRequests -> EndpointState] /\ RequestsHoldUsedCodes'
    BY <1>b, <2>1, <2>2, <2>4, <2>5, CallHolds
  <2> QED
    BY <1>b, <2>4, <2>5, <2>6, KeptHolds DEF OAuthInv, OAuthRows
<1>6. ASSUME NEW r \in TokenRequests, TokenCreateAccess(r) PROVE Goal
  <2> DEFINE k == endpoint[r].code
             rec == [pc |-> "refresh", code |-> k]
  <2>1. k \in Codes /\ codes[k].used
    BY <1>6 DEF TokenCreateAccess, OAuthInv, RequestsHoldUsedCodes
  <2>2. rec \in EndpointState /\ rec.pc = "refresh" /\ rec.code = k
    BY <2>1 DEF EndpointState, Codes
  <2>3. CreateTokenOfCode("access", k) /\ Call(r, rec) /\ UNCHANGED <<clients, confidential, codes>>
    BY <1>6 DEF TokenCreateAccess
  <2> HIDE DEF rec, k
  <2>4. tokens' \in Seq(TokenRow) /\ TokensKept /\ TokensHoldUsedCodes'
    BY <2>1, <2>3, CreateTokenOfCodeKeeps DEF OAuthInv
  <2>5. endpoint' \in [TokenRequests -> EndpointState] /\ RequestsHoldUsedCodes'
    BY <1>a, <2>1, <2>2, <2>3, <2>4, CallHolds
  <2> QED
    BY <1>a, <2>3, <2>4, <2>5 DEF OAuthInv, OAuthRows
<1>7. ASSUME NEW r \in TokenRequests, TokenCreateRefresh(r) PROVE Goal
  <2> DEFINE k == endpoint[r].code
  <2>1. k \in Codes /\ codes[k].used
    BY <1>7 DEF TokenCreateRefresh, OAuthInv, RequestsHoldUsedCodes
  <2>2. CreateTokenOfCode("refresh", k) /\ Call(r, NoCall) /\ UNCHANGED <<clients, confidential, codes>>
    BY <1>7 DEF TokenCreateRefresh
  <2> HIDE DEF k
  <2>3. tokens' \in Seq(TokenRow) /\ TokensKept /\ TokensHoldUsedCodes'
    BY <2>1, <2>2, CreateTokenOfCodeKeeps DEF OAuthInv
  <2>4. endpoint' \in [TokenRequests -> EndpointState] /\ RequestsHoldUsedCodes'
    BY <1>a, <1>n, <2>2, <2>3, CallHolds
  <2> QED
    BY <1>a, <2>2, <2>3, <2>4 DEF OAuthInv, OAuthRows
<1>8. ASSUME NEW r \in TokenRequests, TokenRotate(r) PROVE Goal
  <2> DEFINE t == endpoint[r].token
             k == tokens[t].code
             rec == [pc |-> "access", code |-> k]
  <2>1. t \in Tokens /\ tokens[t].kind = "refresh"
    BY <1>8 DEF TokenRotate, OAuthInv, RequestsHoldUsedCodes
  <2>2. k \in Codes /\ codes[k].used
    BY <2>1 DEF OAuthInv, TokensHoldUsedCodes, OfCode, OfCredentials
  <2>3. rec \in EndpointState /\ rec.pc = "access" /\ rec.code = k
    BY <2>2 DEF EndpointState, Codes
  <2>4. tokens[t] \in TokenRow /\ [tokens[t] EXCEPT !.consumed = TRUE] \in TokenRow
    BY <2>1, RowsTyped, RowFields DEF OAuthInv
  <2>5. /\ tokens' = [tokens EXCEPT ![t] = [tokens[t] EXCEPT !.consumed = TRUE]]
        /\ Call(r, rec) /\ UNCHANGED <<clients, confidential, codes>>
    BY <1>8 DEF TokenRotate, RotateRefreshToken
  <2> HIDE DEF rec, k, t
  <2>6. tokens' \in Seq(TokenRow) /\ TokensKept /\ Len(tokens') = Len(tokens)
    BY <1>t, <2>1, <2>4, <2>5 DEF TokenRow
  <2>7. endpoint' \in [TokenRequests -> EndpointState] /\ RequestsHoldUsedCodes'
    BY <1>a, <2>2, <2>3, <2>5, <2>6, CallHolds
  <2> QED
    BY <1>a, <2>5, <2>6, <2>7, KeptHolds DEF OAuthInv, OAuthRows
<1>9. ASSUME NEW r \in TokenRequests, TokenRequestDies(r) PROVE Goal
  <2>1. Call(r, NoCall) /\ UNCHANGED <<clients, confidential, codes, tokens>>
    BY <1>9 DEF TokenRequestDies
  <2>2. endpoint' \in [TokenRequests -> EndpointState] /\ RequestsHoldUsedCodes'
    BY <1>a, <1>b, <1>n, <2>1, CallHolds
  <2> QED
    BY <1>a, <1>b, <2>1, <2>2, KeptHolds DEF OAuthInv, OAuthRows
<1>10. ASSUME NEW t \in Tokens, TokenExpires(t) PROVE Goal
  <2>1. tokens[t] \in TokenRow /\ [tokens[t] EXCEPT !.expired = TRUE] \in TokenRow
    BY RowsTyped, RowFields DEF OAuthInv
  <2>2. /\ tokens' = [tokens EXCEPT ![t] = [tokens[t] EXCEPT !.expired = TRUE]]
        /\ UNCHANGED <<clients, confidential, codes, endpoint>>
    BY <1>10 DEF TokenExpires
  <2>3. tokens' \in Seq(TokenRow) /\ TokensKept /\ Len(tokens') = Len(tokens)
    BY <1>t, <2>1, <2>2 DEF TokenRow
  <2> QED
    BY <1>a, <1>d, <2>2, <2>3, KeptHolds DEF OAuthInv, OAuthRows
<1>11. ASSUME NEW t \in Tokens, IntrospectToken(t) PROVE Goal
  <2>1. tokens' \in Seq(TokenRow) /\ TokensKept /\ Len(tokens') = Len(tokens)
    BY <1>11, RevokeFamilyKeeps DEF IntrospectToken, OAuthInv
  <2> QED
    BY <1>11, <1>a, <1>d, <2>1, KeptHolds DEF IntrospectToken, OAuthInv, OAuthRows
<1>12. ASSUME NEW t \in Tokens, NEW r \in TokenRequests, HandleTokenRefresh(r, t) PROVE Goal
  <2> DEFINE rec == [pc |-> "rotate", token |-> t]
  <2>1. CASE tokens[t].consumed
    <3>1. revokeTokenFamily(t) /\ UNCHANGED <<clients, confidential, codes, endpoint>>
      BY <1>12, <2>1 DEF HandleTokenRefresh
    <3>2. tokens' \in Seq(TokenRow) /\ TokensKept /\ Len(tokens') = Len(tokens)
      BY <3>1, RevokeFamilyKeeps DEF OAuthInv
    <3> QED
      BY <3>1, <3>2, <1>a, <1>d, KeptHolds DEF OAuthInv, OAuthRows
  <2>2. CASE ~tokens[t].consumed
    <3>1. rec \in EndpointState /\ rec.pc = "rotate" /\ rec.token = t
      BY DEF EndpointState, Tokens
    <3>k. tokens[t].kind = "refresh"
      BY <1>12 DEF HandleTokenRefresh
    <3>2. Call(r, rec) /\ UNCHANGED <<clients, confidential, codes, tokens>>
      BY <1>12, <2>2 DEF HandleTokenRefresh
    <3> HIDE DEF rec
    <3>3. endpoint' \in [TokenRequests -> EndpointState] /\ RequestsHoldUsedCodes'
      BY <1>a, <1>b, <3>1, <3>2, <3>k, CallHolds
    <3> QED
      BY <1>a, <1>b, <3>2, <3>3, KeptHolds DEF OAuthInv, OAuthRows
  <2> QED
    BY <2>1, <2>2
<1> QED
  BY <1>1, <1>2, <1>3, <1>4, <1>5, <1>6, <1>7, <1>8, <1>9, <1>10, <1>11, <1>12, <1>13, <1>14
     DEF OAuthNext

LEMMA OAuthInvariance == OAuthSpec => []OAuthInv
<1>1. OAuthInv /\ UNCHANGED oaVars => OAuthInv'
  BY DEF OAuthInv, OAuthRows, RequestsHoldUsedCodes, TokensHoldUsedCodes, OfCode, OfCredentials, Codes,
         Tokens, oaVars
<1> QED
  BY <1>1, OAuthInitInv, OAuthStep, PTL DEF OAuthSpec

\* However requests race at the token endpoint, every token of a user goes back
\* to a used code of the same client and user, and a token of nobody is an access
\* token of a client with a secret.
THEOREM OAuthCorrect == OAuthSpec => []OAuthSafe
<1>1. OAuthInv => OAuthSafe
  <2> SUFFICES ASSUME OAuthInv PROVE OAuthSafe
    OBVIOUS
  <2>1. \A k \in Codes : codes[k] \in CodeRow
    BY DEF OAuthInv, OAuthRows, Codes
  <2>2. \A t \in Tokens : tokens[t] \in TokenRow
    BY DEF OAuthInv, OAuthRows, Tokens
  <2>3. OAuthTypeOK
    BY <2>1, <2>2 DEF OAuthInv, OAuthRows, TokensHoldUsedCodes, OfCode, OfCredentials, OAuthTypeOK,
        CodeRow, TokenRow
  <2>4. TokensFromUsedCodes
    BY DEF OAuthInv, OAuthRows, TokensHoldUsedCodes, OfCode, OfCredentials, TokensFromUsedCodes
  <2>5. TokensOfNobody
    <3> SUFFICES ASSUME NEW t \in Tokens, tokens[t].user = NoUser PROVE OfCredentials(t)
      BY DEF TokensOfNobody, OfCredentials
    <3>1. OfCode(t) => tokens[t].user \in OAuthUsers
      BY <2>1 DEF OfCode, CodeRow
    <3> QED
      BY <3>1, OAuthAssumption DEF OAuthInv, TokensHoldUsedCodes
  <2> QED
    BY <2>3, <2>4, <2>5 DEF OAuthSafe
<1> QED
  BY <1>1, OAuthInvariance, PTL

\* getTokenSession, revokeTokenFamily: a used code and a consumed token stay
\* used and consumed, whatever the requests in flight still write.
THEOREM ConsumedStays == OAuthSpec => ConsumedForever
<1>1. OAuthInv /\ [OAuthNext]_oaVars =>
        [/\ \A t \in Tokens : tokens[t].consumed => tokens'[t].consumed
         /\ \A k \in Codes : codes[k].used => codes'[k].used]_oaVars
  BY OAuthStep DEF CodesKept, TokensKept
<1> QED
  BY <1>1, OAuthInvariance, PTL DEF OAuthSpec, ConsumedForever

-----------------------------------------------------------------------------
(* Agents, their keys and their dead letters.                              *)

AgentRow == [status : {"none", "active", "inactive"}, owner : Owners \union {0},
             type : {"ai", "human"}, key : 0..MaxKey, issued : 0..MaxKey]

Letter == [to : AgentNames \union {""}, status : {"none", "pending", "processing", "done"},
           missed : BOOLEAN]

DeadLetter == [letter : Letters, owner : Owners, agent : AgentNames, by : AgentCalls, ack : BOOLEAN]

APIKey == [state : {"none", "valid", "expired", "revoked"}, agent : AgentNames \union {""}]

CallState ==
  [pc : {"idle"}] \union [pc : {"human"}, owner : Owners]
  \union [pc : {"write"}, name : AgentNames, key : 0..MaxKey, issue : BOOLEAN]
  \union [pc : {"insert"}, name : AgentNames, owner : Owners, letters : SUBSET Letters]
  \union [pc : {"deactivate"}, name : AgentNames]

AgentsRows ==
  /\ agents \in [AgentNames -> AgentRow]
  /\ calls \in [AgentCalls -> CallState]
  /\ mail \in [Letters -> Letter]
  /\ deadLetters \subseteq DeadLetter
  /\ apiKeys \in [Owners -> APIKey]

\* A letter whose removal has been recorded.
Recorded(l, o) == \E d \in deadLetters : d.letter = l /\ d.owner = o

\* A letter that was there when a removal selected the waiting ones.
Waiting(l, n) ==
  mail[l].to = n /\ mail[l].status \in {"pending", "processing"} /\ ~mail[l].missed

\* What a removal selected is what it has to capture, and a removal that is
\* about to set the row inactive has captured it.
RemovalCaptures(c) ==
  /\ calls[c].pc = "insert" =>
       /\ agents[calls[c].name].status # "none" /\ agents[calls[c].name].owner = calls[c].owner
       /\ \A l \in Letters : Waiting(l, calls[c].name) => l \in calls[c].letters
       /\ \A l \in calls[c].letters : mail[l].to = calls[c].name /\ mail[l].status # "none"
  /\ calls[c].pc = "deactivate" =>
       /\ agents[calls[c].name].status # "none"
       /\ \A l \in Letters : Waiting(l, calls[c].name) => Recorded(l, agents[calls[c].name].owner)

RemovalsCapture == \A c \in AgentCalls : RemovalCaptures(c)

InactiveCaptured ==
  \A l \in Letters, n \in AgentNames :
    Waiting(l, n) /\ agents[n].status = "inactive" => Recorded(l, agents[n].owner)

DeadLettersKept ==
  \A d \in deadLetters : /\ mail[d.letter].status # "none" /\ mail[d.letter].to = d.agent
                         /\ agents[d.agent].status # "none" /\ agents[d.agent].owner = d.owner

\* A waiting letter has a recipient.
Addressed == \A l \in Letters : mail[l].status # "none" => mail[l].to \in AgentNames

\* A row that exists has an owner.
Owned == \A n \in AgentNames : agents[n].status # "none" => agents[n].owner \in Owners

AgentsInv == AgentsRows /\ RemovalsCapture /\ InactiveCaptured /\ DeadLettersKept
             /\ Addressed /\ Owned

LEMMA KeyRange == 0 \in 0..MaxKey /\ 1 \in 0..MaxKey
BY AgentsAssumption

LEMMA AgentsInitInv == AgentsInit => AgentsInv
<1> SUFFICES ASSUME AgentsInit PROVE AgentsInv
  OBVIOUS
<1> USE AgentsAssumption DEF AgentsInit, NoAgent, NoLetter, NoKey, Free
<1>1. AgentsRows
  <2>1. NoAgent \in AgentRow
    BY KeyRange, Zenon DEF AgentRow
  <2>2. NoLetter \in Letter
    BY DEF Letter
  <2>3. NoKey \in APIKey
    BY DEF APIKey
  <2>4. Free \in CallState
    BY DEF CallState
  <2> QED
    BY <2>1, <2>2, <2>3, <2>4 DEF AgentsRows
<1>2. RemovalsCapture /\ InactiveCaptured /\ DeadLettersKept /\ Addressed /\ Owned
  BY DEF RemovalsCapture, RemovalCaptures, InactiveCaptured, DeadLettersKept, Waiting, Addressed, Owned
<1> QED
  BY <1>1, <1>2 DEF AgentsInv

\* What no step does to the rows: give a row away, send a letter to somebody
\* else or a second time, drop a dead letter, or touch an inactive row.
AgentsKept ==
  /\ \A n \in AgentNames :
       /\ agents[n].status # "none" =>
            /\ agents'[n].status # "none" /\ agents'[n].owner = agents[n].owner
            /\ agents'[n].type = agents[n].type
       /\ agents[n].status = "inactive" => agents'[n] = agents[n]

\* A letter that begins to wait was sent to an active agent nobody removes.
LettersKept ==
  \A l \in Letters :
    /\ mail[l].status # "none" => mail'[l].status # "none" /\ mail'[l].to = mail[l].to
    /\ \A n \in AgentNames :
         Waiting(l, n)' /\ ~Waiting(l, n) =>
           /\ agents'[n].status = "active"
           /\ \A c \in AgentCalls : calls'[c].pc \in {"insert", "deactivate"} => calls'[c].name # n

DeadKept == \A l \in Letters, o \in Owners : Recorded(l, o) => Recorded(l, o)'

\* What a call remembers, by what it is about to do.
LEMMA CallKinds ==
  ASSUME NEW q \in CallState
  PROVE  /\ q.pc = "human" => q.owner \in Owners
         /\ q.pc = "write" => q.name \in AgentNames /\ q.key \in 0..MaxKey /\ q.issue \in BOOLEAN
         /\ q.pc = "insert" => q.name \in AgentNames /\ q.owner \in Owners /\ q.letters \subseteq Letters
         /\ q.pc = "deactivate" => q.name \in AgentNames
BY DEF CallState

LEMMA AgentRowFields ==
  ASSUME NEW row \in AgentRow
  PROVE  /\ [row EXCEPT !.status = "inactive"] \in AgentRow
         /\ [row EXCEPT !.status = "inactive"].owner = row.owner
         /\ [row EXCEPT !.status = "inactive"].type = row.type
         /\ [row EXCEPT !.status = "inactive"].status = "inactive"
         /\ row.status = "inactive" => [row EXCEPT !.status = "inactive"] = row
BY DEF AgentRow

LEMMA AgentRowKeys ==
  ASSUME NEW row \in AgentRow, NEW k \in 0..MaxKey, NEW i \in 0..MaxKey, NEW new,
         new = [row EXCEPT !.key = k, !.issued = i]
  PROVE  new \in AgentRow /\ new.owner = row.owner /\ new.type = row.type /\ new.status = row.status
BY DEF AgentRow

LEMMA FreeCall == Free \in CallState
BY DEF Free, CallState

LEMMA AgentsTypes ==
  AgentsInv /\ AgentsNext => AgentsRows' /\ AgentsKept
<1> SUFFICES ASSUME AgentsInv, AgentsNext PROVE AgentsRows' /\ AgentsKept
  OBVIOUS
<1> DEFINE Goal == AgentsRows' /\ AgentsKept
<1> USE AgentsAssumption DEF AgentsInv, AgentsRows, AgentsKept
<1>c. ASSUME NEW c \in AgentCalls PROVE calls[c] \in CallState
  BY <1>c
<1>m. ASSUME NEW l \in Letters PROVE mail[l] \in Letter
  BY <1>m
<1>1. ASSUME NEW n \in AgentNames, handleAgentDelete(n) PROVE Goal
  <2> DEFINE row == [agents[n] EXCEPT !.status = "inactive"]
  <2>1. row \in AgentRow /\ row.owner = agents[n].owner /\ row.type = agents[n].type /\ row.status = "inactive"
    BY AgentRowFields
  <2>2. agents' = [agents EXCEPT ![n] = row] /\ agents[n].status = "active"
    BY <1>1 DEF handleAgentDelete, Active
  <2> HIDE DEF row
  <2>3. \A l \in Letters : [mail[l] EXCEPT !.missed = TRUE] \in Letter
    BY DEF Letter
  <2>4. mail' \in [Letters -> Letter]
    BY <1>1, <2>3 DEF handleAgentDelete
  <2> QED
    BY <1>1, <2>1, <2>2, <2>4 DEF handleAgentDelete
<1>2. ASSUME NEW n \in AgentNames, NEW l \in Letters, SendLetter(l, n) PROVE Goal
  BY <1>2 DEF SendLetter, Letter
<1>3. ASSUME NEW l \in Letters, FinishLetter(l) PROVE Goal
  BY <1>3 DEF FinishLetter, Letter
<1>17. ASSUME NEW l \in Letters, ClaimLetter(l) PROVE Goal
  BY <1>17 DEF ClaimLetter, Letter
<1>18. ASSUME NEW c \in AgentCalls, CaptureFails(c) PROVE Goal
  <2>1. calls[c].name \in AgentNames
    BY <1>18, <1>c, CallKinds DEF CaptureFails
  <2>2. [pc |-> "deactivate", name |-> calls[c].name] \in CallState
    BY <2>1 DEF CallState
  <2>3. \A l \in Letters : [mail[l] EXCEPT !.missed = TRUE] \in Letter
    BY DEF Letter
  <2> QED
    BY <1>18, <2>2, <2>3 DEF CaptureFails, Then
<1>4. ASSUME NEW n \in AgentNames, NEW o \in Owners, NEW t, Register(n, o, t) PROVE Goal
  BY <1>4 DEF Register, CreateAgent, AgentRow
<1>5. ASSUME NEW n \in AgentNames, NEW o \in Owners, PostKey(o, n) PROVE Goal
  BY <1>5 DEF PostKey, CreateKey, APIKey
<1>6. ASSUME NEW n \in AgentNames, NEW o \in Owners, NEW c \in AgentCalls, PutAgent(c, n, o) PROVE Goal
  BY <1>6 DEF PutAgent, UpdateAgent, Then, CallState, AgentRow
<1>7. ASSUME NEW n \in AgentNames, NEW o \in Owners, NEW c \in AgentCalls, PostRevokeKey(c, n, o) PROVE Goal
  BY <1>7 DEF PostRevokeKey, RevokeKey, Then, CallState, AgentRow
<1>8. ASSUME NEW n \in AgentNames, NEW o \in Owners, NEW c \in AgentCalls, DeleteAgent(c, n, o) PROVE Goal
  BY <1>8 DEF DeleteAgent, Deregister, Unfinished, Then, CallState
<1>9. ASSUME NEW o \in Owners, KeyExpires(o) PROVE Goal
  BY <1>9 DEF KeyExpires, APIKey
<1>10. ASSUME NEW o \in Owners, NEW by \in Owners, DeleteAPIKey(o, by) PROVE Goal
  BY <1>10 DEF DeleteAPIKey, RevokeAPIKey, APIKey
<1>11. ASSUME NEW o \in Owners, NEW c \in AgentCalls, EnsureHumanAgent(c, o) PROVE Goal
  BY <1>11 DEF EnsureHumanAgent, Then, CallState
<1>12. ASSUME NEW o \in Owners, NEW d \in deadLetters, Acknowledge(d, o) PROVE Goal
  BY <1>12 DEF Acknowledge, AcknowledgeDeadLetter, DeadLetter
<1>13. ASSUME NEW c \in AgentCalls, EnsureHumanAgentRegister(c) PROVE Goal
  <2> DEFINE o == calls[c].owner
             row == [status |-> "active", owner |-> o, type |-> "human", key |-> 1, issued |-> 1]
  <2>1. o \in Owners /\ HumanName[o] \in AgentNames /\ HumanAltName[o] \in AgentNames
    BY <1>13, <1>c, CallKinds DEF EnsureHumanAgentRegister
  <2>2. row \in AgentRow
    BY <2>1 DEF AgentRow
  <2>3. /\ \/ agents[HumanName[o]].status = "none" /\ agents' = [agents EXCEPT ![HumanName[o]] = row]
           \/ agents[HumanAltName[o]].status = "none" /\ agents' = [agents EXCEPT ![HumanAltName[o]] = row]
           \/ agents' = agents
        /\ calls' = [calls EXCEPT ![c] = Free]
        /\ UNCHANGED <<mail, deadLetters, apiKeys>>
    BY <1>13 DEF EnsureHumanAgentRegister, CreateAgent, Then
  <2> HIDE DEF row, o
  <2> QED
    BY <2>1, <2>2, <2>3, FreeCall
<1>14. ASSUME NEW c \in AgentCalls, StoreUpdateAgent(c) PROVE Goal
  <2> DEFINE q == calls[c]
             n == q.name
             issued == IF q.issue THEN q.key ELSE agents[n].issued
             row == [agents[n] EXCEPT !.key = q.key, !.issued = issued]
  <2>1. n \in AgentNames /\ q.key \in 0..MaxKey
    BY <1>14, <1>c, CallKinds DEF StoreUpdateAgent
  <2>2. issued \in 0..MaxKey
    BY <2>1 DEF AgentRow
  <2>3. /\ agents' = IF agents[n].status = "active" THEN [agents EXCEPT ![n] = row] ELSE agents
        /\ calls' = [calls EXCEPT ![c] = Free]
        /\ UNCHANGED <<mail, deadLetters, apiKeys>>
    BY <1>14, <2>1 DEF StoreUpdateAgent, Active, Then
  <2> HIDE DEF issued, n, q
  <2>r. agents[n] \in AgentRow
    BY <2>1
  <2>4. row \in AgentRow /\ row.owner = agents[n].owner /\ row.type = agents[n].type /\ row.status = agents[n].status
    <3>1. q.key \in 0..MaxKey
      BY <2>1
    <3>2. row = [agents[n] EXCEPT !.key = q.key, !.issued = issued]
      OBVIOUS
    <3> HIDE DEF row
    <3> QED
      BY <2>2, <2>r, <3>1, <3>2, AgentRowKeys DEF AgentRow
  <2> HIDE DEF row
  <2> QED
    BY <2>1, <2>3, <2>4, FreeCall
<1>15. ASSUME NEW c \in AgentCalls, CaptureDeadLetters(c) PROVE Goal
  <2> DEFINE q == calls[c]
  <2>1. q.name \in AgentNames /\ q.owner \in Owners /\ q.letters \subseteq Letters
    BY <1>15, <1>c, CallKinds DEF CaptureDeadLetters
  <2>2. [pc |-> "deactivate", name |-> q.name] \in CallState
    BY <2>1 DEF CallState
  <2>3. \A l \in q.letters : [letter |-> l, owner |-> q.owner, agent |-> q.name, by |-> c, ack |-> FALSE] \in DeadLetter
    BY <2>1 DEF DeadLetter
  <2> QED
    BY <1>15, <2>2, <2>3 DEF CaptureDeadLetters, Then
<1>16. ASSUME NEW c \in AgentCalls, DeactivateAgent(c) PROVE Goal
  <2> DEFINE n == calls[c].name
             row == [agents[n] EXCEPT !.status = "inactive"]
  <2>1. n \in AgentNames /\ agents[n].status # "none"
    BY <1>16, <1>c, CallKinds DEF DeactivateAgent, RemovalsCapture, RemovalCaptures
  <2>2. /\ row \in AgentRow /\ row.owner = agents[n].owner /\ row.type = agents[n].type
        /\ row.status = "inactive" /\ (agents[n].status = "inactive" => row = agents[n])
    BY <2>1, AgentRowFields
  <2>3. /\ agents' = [agents EXCEPT ![n] = row] /\ calls' = [calls EXCEPT ![c] = Free]
        /\ UNCHANGED <<mail, deadLetters, apiKeys>>
    BY <1>16 DEF DeactivateAgent, Then
  <2> HIDE DEF row, n
  <2> QED
    BY <2>1, <2>2, <2>3, FreeCall
<1> QED
  BY <1>1, <1>2, <1>3, <1>4, <1>5, <1>6, <1>7, <1>8, <1>9, <1>10, <1>11, <1>12, <1>13, <1>14, <1>15, <1>16,
     <1>17, <1>18 DEF AgentsNext, handleAgentCreate, PostAgent

LEMMA AgentsWrites ==
  AgentsInv /\ AgentsNext => LettersKept /\ DeadKept
<1> SUFFICES ASSUME AgentsInv, AgentsNext PROVE LettersKept /\ DeadKept
  OBVIOUS
<1> DEFINE Goal == LettersKept /\ DeadKept
<1> USE DEF AgentsInv, AgentsRows
<1>a. UNCHANGED mail => LettersKept
  BY DEF LettersKept, Waiting
<1>b. UNCHANGED deadLetters => DeadKept
  BY DEF DeadKept, Recorded
<1>1. ASSUME NEW n \in AgentNames, handleAgentDelete(n) PROVE Goal
  <2>1. LettersKept
    BY <1>1 DEF handleAgentDelete, LettersKept, Waiting, Letter
  <2> QED BY <1>1, <1>b, <2>1 DEF handleAgentDelete
<1>2. ASSUME NEW n \in AgentNames, NEW l \in Letters, SendLetter(l, n) PROVE Goal
  <2> DEFINE missed == Capturing(n) # {}
             row == [to |-> n, status |-> "pending", missed |-> missed]
  <2>1. mail' = [mail EXCEPT ![l] = row] /\ UNCHANGED <<agents, calls, deadLetters>> /\ agents[n].status = "active"
    BY <1>2 DEF SendLetter, Active
  <2>2. row.to = n /\ row.missed = missed
    OBVIOUS
  <2>3. mail'[l] = row /\ mail[l].status = "none" /\ \A k \in Letters : k # l => mail'[k] = mail[k]
    BY <1>2, <2>1 DEF SendLetter
  <2> HIDE DEF row
  <2>4. LettersKept
    BY <2>1, <2>2, <2>3, ZenonT(40) DEF LettersKept, Waiting, Capturing
  <2> QED BY <1>b, <2>1, <2>4
<1>3. ASSUME NEW l \in Letters, FinishLetter(l) PROVE Goal
  <2>1. LettersKept
    BY <1>3 DEF FinishLetter, LettersKept, Waiting, Letter
  <2> QED BY <1>3, <1>b, <2>1 DEF FinishLetter
<1>15. ASSUME NEW l \in Letters, ClaimLetter(l) PROVE Goal
  <2>1. LettersKept
    BY <1>15 DEF ClaimLetter, LettersKept, Waiting, Letter
  <2> QED BY <1>15, <1>b, <2>1 DEF ClaimLetter
<1>16. ASSUME NEW c \in AgentCalls, CaptureFails(c) PROVE Goal
  <2>1. LettersKept
    BY <1>16 DEF CaptureFails, LettersKept, Waiting, Letter
  <2> QED BY <1>16, <1>b, <2>1 DEF CaptureFails
<1>4. ASSUME NEW n \in AgentNames, NEW o \in Owners, NEW t, Register(n, o, t) PROVE Goal
  BY <1>4, <1>a, <1>b DEF Register
<1>5. ASSUME NEW n \in AgentNames, NEW o \in Owners, PostKey(o, n) PROVE Goal
  BY <1>5, <1>a, <1>b DEF PostKey, CreateKey
<1>6. ASSUME NEW n \in AgentNames, NEW o \in Owners, NEW c \in AgentCalls,
             PutAgent(c, n, o) \/ PostRevokeKey(c, n, o) \/ DeleteAgent(c, n, o)
      PROVE  Goal
  BY <1>6, <1>a, <1>b DEF PutAgent, UpdateAgent, PostRevokeKey, RevokeKey, DeleteAgent, Deregister
<1>7. ASSUME NEW o \in Owners, KeyExpires(o) PROVE Goal
  BY <1>7, <1>a, <1>b DEF KeyExpires
<1>8. ASSUME NEW o \in Owners, NEW by \in Owners, DeleteAPIKey(o, by) PROVE Goal
  BY <1>8, <1>a, <1>b DEF DeleteAPIKey, RevokeAPIKey
<1>9. ASSUME NEW o \in Owners, NEW c \in AgentCalls, EnsureHumanAgent(c, o) PROVE Goal
  BY <1>9, <1>a, <1>b DEF EnsureHumanAgent
<1>10. ASSUME NEW o \in Owners, NEW d \in deadLetters, Acknowledge(d, o) PROVE Goal
  <2>1. DeadKept
    <3>1. d \in DeadLetter
      OBVIOUS
    <3>2. [d EXCEPT !.ack = TRUE].letter = d.letter /\ [d EXCEPT !.ack = TRUE].owner = d.owner
      BY <3>1 DEF DeadLetter
    <3> QED BY <1>10, <3>2 DEF Acknowledge, AcknowledgeDeadLetter, DeadKept, Recorded
  <2> QED BY <1>10, <1>a, <2>1 DEF Acknowledge, AcknowledgeDeadLetter
<1>11. ASSUME NEW c \in AgentCalls, EnsureHumanAgentRegister(c) PROVE Goal
  BY <1>11, <1>a, <1>b DEF EnsureHumanAgentRegister
<1>12. ASSUME NEW c \in AgentCalls, StoreUpdateAgent(c) PROVE Goal
  BY <1>12, <1>a, <1>b DEF StoreUpdateAgent
<1>13. ASSUME NEW c \in AgentCalls, CaptureDeadLetters(c) PROVE Goal
  BY <1>13, <1>a DEF CaptureDeadLetters, DeadKept, Recorded
<1>14. ASSUME NEW c \in AgentCalls, DeactivateAgent(c) PROVE Goal
  BY <1>14, <1>a, <1>b DEF DeactivateAgent
<1> QED
  BY <1>1, <1>2, <1>3, <1>4, <1>5, <1>6, <1>7, <1>8, <1>9, <1>10, <1>11, <1>12, <1>13, <1>14, <1>15, <1>16
     DEF AgentsNext, handleAgentCreate, PostAgent

\* A removal that does not move keeps what it has selected or captured.
LEMMA RemovalKept ==
  ASSUME AgentsInv, AgentsKept, LettersKept, DeadKept, NEW c \in AgentCalls, calls'[c] = calls[c]
  PROVE  RemovalCaptures(c)'
<1>1. calls[c] \in CallState /\ RemovalCaptures(c)
  BY DEF AgentsInv, AgentsRows, RemovalsCapture
<1>2. CASE calls[c].pc = "insert"
  <2> DEFINE n == calls[c].name
  <2>1. n \in AgentNames /\ calls[c].letters \subseteq Letters
    BY <1>1, <1>2, CallKinds
  <2>2. \A l \in Letters : Waiting(l, n)' => Waiting(l, n)
    BY <1>2, <2>1 DEF LettersKept
  <2>3. agents'[n].status # "none" /\ agents'[n].owner = agents[n].owner
    BY <1>1, <1>2, <2>1 DEF RemovalCaptures, AgentsKept
  <2>4. \A l \in calls[c].letters : mail'[l].to = n /\ mail'[l].status # "none"
    BY <1>1, <1>2, <2>1 DEF RemovalCaptures, LettersKept
  <2> QED
    BY <1>1, <1>2, <2>1, <2>2, <2>3, <2>4 DEF RemovalCaptures
<1>3. CASE calls[c].pc = "deactivate"
  <2> DEFINE n == calls[c].name
  <2>1. n \in AgentNames
    BY <1>1, <1>3, CallKinds
  <2>2. \A l \in Letters : Waiting(l, n)' => Waiting(l, n)
    BY <1>3, <2>1 DEF LettersKept
  <2>3. agents'[n].status # "none" /\ agents'[n].owner = agents[n].owner /\ agents[n].owner \in Owners
    BY <1>1, <1>3, <2>1 DEF RemovalCaptures, AgentsKept, AgentsInv, Owned
  <2> QED
    BY <1>1, <1>3, <2>1, <2>2, <2>3 DEF RemovalCaptures, DeadKept
<1> QED
  BY <1>2, <1>3 DEF RemovalCaptures

\* A step that leaves the captured letters alone keeps them faithful.
LEMMA DeadLettersFollow ==
  ASSUME AgentsInv, AgentsKept, LettersKept, NEW d \in deadLetters
  PROVE  /\ mail'[d.letter].status # "none" /\ mail'[d.letter].to = d.agent
         /\ agents'[d.agent].status # "none" /\ agents'[d.agent].owner = d.owner
<1>1. d.letter \in Letters /\ d.agent \in AgentNames
  BY DEF AgentsInv, AgentsRows, DeadLetter
<1> QED
  BY <1>1 DEF AgentsInv, DeadLettersKept, LettersKept, AgentsKept

\* Only a removal sets a row inactive.
LEMMA InactiveFollows ==
  ASSUME AgentsInv, AgentsKept, LettersKept, DeadKept, NEW n \in AgentNames, NEW l \in Letters,
         agents'[n].status = "inactive" => agents[n].status = "inactive",
         Waiting(l, n)', agents'[n].status = "inactive"
  PROVE  Recorded(l, agents[n].owner)'
<1>1. agents'[n] = agents[n] /\ agents[n].owner \in Owners
  BY DEF AgentsKept, AgentsInv, Owned
<1>2. Waiting(l, n)
  BY DEF LettersKept
<1> QED
  BY <1>1, <1>2 DEF AgentsInv, InactiveCaptured, DeadKept

LEMMA AgentsStep == AgentsInv /\ AgentsNext => AgentsInv'
<1> SUFFICES ASSUME AgentsInv, AgentsNext PROVE AgentsInv'
  OBVIOUS
<1>k. AgentsRows' /\ AgentsKept /\ LettersKept /\ DeadKept
  BY AgentsTypes, AgentsWrites
<1>r. AgentsRows
  BY DEF AgentsInv
<1>d. UNCHANGED deadLetters => DeadLettersKept'
  BY <1>k, DeadLettersFollow DEF DeadLettersKept
<1>o. ASSUME NEW c \in AgentCalls, NEW rec, Then(c, rec)
      PROVE  /\ calls'[c] = rec
             /\ \A x \in AgentCalls : x # c => RemovalCaptures(x)'
             /\ rec.pc \notin {"insert", "deactivate"} => RemovalsCapture'
  <2>1. calls'[c] = rec /\ \A x \in AgentCalls : x # c => calls'[x] = calls[x]
    BY <1>o, <1>r DEF Then, AgentsRows
  <2>2. \A x \in AgentCalls : x # c => RemovalCaptures(x)'
    BY <2>1, <1>k, RemovalKept
  <2>3. rec.pc \notin {"insert", "deactivate"} => RemovalCaptures(c)'
    BY <2>1 DEF RemovalCaptures
  <2> QED
    BY <2>1, <2>2, <2>3 DEF RemovalsCapture
<1>c. UNCHANGED calls => RemovalsCapture'
  BY <1>k, RemovalKept DEF RemovalsCapture
<1>i. (\A n \in AgentNames : agents'[n].status = "inactive" => agents[n].status = "inactive")
        => InactiveCaptured'
  BY <1>k, InactiveFollows DEF InactiveCaptured
<1>a. UNCHANGED agents => Owned' /\ InactiveCaptured'
  BY <1>i DEF Owned, AgentsInv
<1>m. UNCHANGED mail => Addressed'
  BY DEF AgentsInv, Addressed
<1>f. Free.pc \notin {"insert", "deactivate"}
  BY DEF Free
<1>1. ASSUME NEW n \in AgentNames, handleAgentDelete(n) PROVE AgentsInv'
  <2>1. /\ agents' = [agents EXCEPT ![n].status = "inactive"]
        /\ mail' = [l \in Letters |-> IF mail[l].to = n THEN [mail[l] EXCEPT !.missed = TRUE] ELSE mail[l]]
        /\ UNCHANGED <<calls, deadLetters>> /\ agents[n].status = "active"
    BY <1>1 DEF handleAgentDelete, Active
  <2>2. /\ \A x \in AgentNames : agents'[x].owner = agents[x].owner /\ agents'[x].type = agents[x].type
        /\ \A x \in AgentNames : agents'[x].status # "none" => agents[x].status # "none"
        /\ \A x \in AgentNames \ {n} : agents'[x] = agents[x]
    BY <2>1, <1>r DEF AgentsRows, AgentRow
  <2>3. Owned'
    BY <2>2 DEF Owned, AgentsInv
  <2>4. \A l \in Letters : /\ ~Waiting(l, n)' /\ mail'[l].to = mail[l].to /\ mail'[l].status = mail[l].status
    BY <2>1, <1>r DEF AgentsRows, Letter, Waiting
  <2>5. Addressed'
    BY <2>4 DEF Addressed, AgentsInv
  <2>6. InactiveCaptured'
    BY <2>2, <2>4, <1>k, InactiveFollows DEF InactiveCaptured
  <2> QED
    BY <2>1, <2>3, <2>5, <2>6, <1>k, <1>d, <1>c DEF AgentsInv
<1>2. ASSUME NEW n \in AgentNames, NEW l \in Letters, SendLetter(l, n) PROVE AgentsInv'
  <2>1. Addressed'
    BY <1>2, <1>r DEF SendLetter, AgentsRows, Addressed, AgentsInv
  <2> QED
    BY <1>2, <2>1, <1>k, <1>a, <1>d, <1>c DEF SendLetter, AgentsInv
<1>3. ASSUME NEW l \in Letters, FinishLetter(l) PROVE AgentsInv'
  <2>1. Addressed'
    BY <1>3, <1>r DEF FinishLetter, AgentsRows, Letter, Addressed, AgentsInv
  <2> QED
    BY <1>3, <2>1, <1>k, <1>a, <1>d, <1>c DEF FinishLetter, AgentsInv
<1>17. ASSUME NEW l \in Letters, ClaimLetter(l) PROVE AgentsInv'
  <2>1. Addressed'
    BY <1>17, <1>r DEF ClaimLetter, AgentsRows, Letter, Addressed, AgentsInv
  <2> QED
    BY <1>17, <2>1, <1>k, <1>a, <1>d, <1>c DEF ClaimLetter, AgentsInv
<1>g. ASSUME NEW n \in AgentNames, NEW o \in Owners, NEW t \in {"ai", "human"}, CreateAgent(n, o, t)
      PROVE  Owned' /\ InactiveCaptured'
  <2> DEFINE row == [status |-> "active", owner |-> o, type |-> t, key |-> 1, issued |-> 1]
  <2>1. row.status = "active" /\ row.owner = o /\ row.type = t
    OBVIOUS
  <2>2. agents'[n] = row /\ \A x \in AgentNames \ {n} : agents'[x] = agents[x]
    BY <1>g, <1>r DEF CreateAgent, AgentsRows
  <2> HIDE DEF row
  <2>3. Owned'
    BY <2>1, <2>2, <1>g DEF Owned, AgentsInv
  <2>4. InactiveCaptured'
    BY <2>1, <2>2, <1>i
  <2> QED
    BY <2>3, <2>4
<1>4. ASSUME NEW n \in AgentNames, NEW o \in Owners, NEW t, Register(n, o, t) PROVE AgentsInv'
  BY <1>4, <1>g, <1>k, <1>d, <1>c, <1>m DEF Register, AgentsInv
<1>5. ASSUME NEW n \in AgentNames, NEW o \in Owners, PostKey(o, n) PROVE AgentsInv'
  BY <1>5, <1>a, <1>k, <1>d, <1>c, <1>m DEF PostKey, CreateKey, AgentsInv
<1>6. ASSUME NEW n \in AgentNames, NEW o \in Owners, NEW c \in AgentCalls, PutAgent(c, n, o)
      PROVE  AgentsInv'
  <2>1. PICK rec : Then(c, rec) /\ rec.pc = "write"
    BY <1>6 DEF PutAgent, UpdateAgent
  <2>2. RemovalsCapture'
    BY <2>1, <1>o
  <2> QED
    BY <1>6, <2>2, <1>a, <1>k, <1>d, <1>m DEF PutAgent, UpdateAgent, AgentsInv
<1>7. ASSUME NEW n \in AgentNames, NEW o \in Owners, NEW c \in AgentCalls, PostRevokeKey(c, n, o)
      PROVE  AgentsInv'
  <2>1. PICK rec : Then(c, rec) /\ rec.pc = "write"
    BY <1>7 DEF PostRevokeKey, RevokeKey
  <2>2. RemovalsCapture'
    BY <2>1, <1>o
  <2> QED
    BY <1>7, <2>2, <1>a, <1>k, <1>d, <1>m DEF PostRevokeKey, RevokeKey, AgentsInv
<1>8. ASSUME NEW n \in AgentNames, NEW o \in Owners, NEW c \in AgentCalls, DeleteAgent(c, n, o)
      PROVE  AgentsInv'
  <2> DEFINE picked == Unfinished(n)
             rec == [pc |-> "insert", name |-> n, owner |-> o, letters |-> picked]
  <2>1. /\ Then(c, rec) /\ agents[n].status = "active" /\ agents[n].owner = o
        /\ UNCHANGED <<agents, mail, deadLetters, apiKeys>>
    BY <1>8 DEF DeleteAgent, Deregister, Active
  <2>2. rec.pc = "insert" /\ rec.name = n /\ rec.owner = o /\ rec.letters = picked
    OBVIOUS
  <2>3. \A l \in Letters : Waiting(l, n)' => l \in picked
    BY <2>1 DEF Waiting, Unfinished
  <2>4. \A l \in picked : mail'[l].to = n /\ mail'[l].status # "none"
    BY <2>1 DEF Unfinished
  <2> HIDE DEF rec, picked
  <2>5. RemovalCaptures(c)'
    BY <2>1, <2>2, <2>3, <2>4, <1>o DEF RemovalCaptures
  <2>6. RemovalsCapture'
    BY <2>1, <2>5, <1>o DEF RemovalsCapture
  <2> QED
    BY <2>1, <2>6, <1>a, <1>k, <1>d, <1>m DEF AgentsInv
<1>9. ASSUME NEW o \in Owners, KeyExpires(o) PROVE AgentsInv'
  BY <1>9, <1>a, <1>k, <1>d, <1>c, <1>m DEF KeyExpires, AgentsInv
<1>10. ASSUME NEW o \in Owners, NEW by \in Owners, DeleteAPIKey(o, by) PROVE AgentsInv'
  BY <1>10, <1>a, <1>k, <1>d, <1>c, <1>m DEF DeleteAPIKey, RevokeAPIKey, AgentsInv
<1>11. ASSUME NEW o \in Owners, NEW c \in AgentCalls, EnsureHumanAgent(c, o) PROVE AgentsInv'
  <2>1. PICK rec : Then(c, rec) /\ rec.pc = "human"
    BY <1>11 DEF EnsureHumanAgent
  <2>2. RemovalsCapture'
    BY <2>1, <1>o
  <2> QED
    BY <1>11, <2>2, <1>a, <1>k, <1>d, <1>m DEF EnsureHumanAgent, AgentsInv
<1>12. ASSUME NEW o \in Owners, NEW d \in deadLetters, Acknowledge(d, o) PROVE AgentsInv'
  <2> DEFINE new == [d EXCEPT !.ack = TRUE]
  <2>1. d \in DeadLetter
    BY <1>r DEF AgentsRows
  <2>2. new.letter = d.letter /\ new.owner = d.owner /\ new.agent = d.agent
    BY <2>1 DEF DeadLetter
  <2>3. deadLetters' = (deadLetters \ {d}) \union {new} /\ UNCHANGED <<agents, calls, mail, apiKeys>>
    BY <1>12 DEF Acknowledge, AcknowledgeDeadLetter
  <2> HIDE DEF new
  <2>4. DeadLettersKept'
    BY <2>2, <2>3 DEF DeadLettersKept, AgentsInv
  <2> QED
    BY <2>3, <2>4, <1>a, <1>k, <1>c, <1>m DEF AgentsInv
<1>13. ASSUME NEW c \in AgentCalls, EnsureHumanAgentRegister(c) PROVE AgentsInv'
  <2> DEFINE o == calls[c].owner
  <2>1. o \in Owners /\ HumanName[o] \in AgentNames /\ HumanAltName[o] \in AgentNames
    BY <1>13, <1>r, CallKinds, AgentsAssumption DEF EnsureHumanAgentRegister, AgentsRows
  <2>2. /\ \/ CreateAgent(HumanName[o], o, "human")
           \/ CreateAgent(HumanAltName[o], o, "human")
           \/ UNCHANGED agents
        /\ Then(c, Free) /\ UNCHANGED <<mail, deadLetters, apiKeys>>
    BY <1>13 DEF EnsureHumanAgentRegister
  <2> HIDE DEF o
  <2>3. Owned' /\ InactiveCaptured'
    BY <2>1, <2>2, <1>g, <1>a
  <2>4. RemovalsCapture'
    BY <2>2, <1>o, <1>f
  <2> QED
    BY <2>2, <2>3, <2>4, <1>k, <1>d, <1>m DEF AgentsInv
<1>14. ASSUME NEW c \in AgentCalls, StoreUpdateAgent(c) PROVE AgentsInv'
  <2>1. calls[c].name \in AgentNames
    BY <1>14, <1>r, CallKinds DEF StoreUpdateAgent, AgentsRows
  <2>2. \A x \in AgentNames : /\ agents'[x].owner = agents[x].owner /\ agents'[x].type = agents[x].type
                              /\ agents'[x].status = agents[x].status
    BY <1>14, <1>r, <2>1 DEF StoreUpdateAgent, AgentsRows, AgentRow
  <2>3. Owned' /\ InactiveCaptured'
    BY <2>2, <1>i DEF Owned, AgentsInv
  <2>4. RemovalsCapture'
    BY <1>14, <1>o, <1>f DEF StoreUpdateAgent
  <2> QED
    BY <1>14, <2>3, <2>4, <1>k, <1>d, <1>m DEF StoreUpdateAgent, AgentsInv
<1>15. ASSUME NEW c \in AgentCalls, CaptureDeadLetters(c) PROVE AgentsInv'
  <2> DEFINE q == calls[c]
             rec == [pc |-> "deactivate", name |-> q.name]
             Row(l) == [letter |-> l, owner |-> q.owner, agent |-> q.name, by |-> c, ack |-> FALSE]
  <2>1. /\ q.pc = "insert" /\ deadLetters' = deadLetters \union {Row(l) : l \in q.letters}
        /\ Then(c, rec) /\ UNCHANGED <<agents, mail, apiKeys>>
    BY <1>15 DEF CaptureDeadLetters
  <2>2. q.name \in AgentNames /\ q.letters \subseteq Letters /\ RemovalCaptures(c)
    BY <2>1, <1>r, CallKinds DEF AgentsRows, AgentsInv, RemovalsCapture
  <2>3. \A l : Row(l).letter = l /\ Row(l).owner = q.owner /\ Row(l).agent = q.name
    OBVIOUS
  <2>4. rec.pc = "deactivate" /\ rec.name = q.name
    OBVIOUS
  <2> HIDE DEF rec, Row
  <2>5. DeadLettersKept'
    BY <2>1, <2>2, <2>3 DEF DeadLettersKept, AgentsInv, RemovalCaptures
  <2>6. \A l \in q.letters : \E d \in deadLetters' : d.letter = l /\ d.owner = q.owner
    BY <2>1, <2>3
  <2>7. RemovalCaptures(c)'
    BY <2>1, <2>2, <2>4, <2>6, <1>o DEF RemovalCaptures, Waiting, Recorded
  <2>8. RemovalsCapture'
    BY <2>1, <2>7, <1>o DEF RemovalsCapture
  <2> QED
    BY <2>1, <2>5, <2>8, <1>a, <1>k, <1>m DEF AgentsInv
<1>18. ASSUME NEW c \in AgentCalls, CaptureFails(c) PROVE AgentsInv'
  <2>n. PICK n, picked : n = calls[c].name /\ picked = calls[c].letters
    OBVIOUS
  <2> DEFINE rec == [pc |-> "deactivate", name |-> n]
  <2>1. /\ calls[c].pc = "insert" /\ Then(c, rec) /\ UNCHANGED <<agents, deadLetters, apiKeys>>
        /\ mail' = [l \in Letters |-> IF l \in picked THEN [mail[l] EXCEPT !.missed = TRUE] ELSE mail[l]]
    BY <1>18, <2>n DEF CaptureFails
  <2>2. n \in AgentNames /\ RemovalCaptures(c)
    BY <2>n, <2>1, <1>r, CallKinds DEF AgentsRows, AgentsInv, RemovalsCapture
  <2>3. rec.pc = "deactivate" /\ rec.name = n
    OBVIOUS
  <2> HIDE DEF rec
  <2>4. \A l \in Letters : /\ mail'[l].to = mail[l].to /\ mail'[l].status = mail[l].status
                           /\ l \in picked => mail'[l].missed
                           /\ l \notin picked => mail'[l] = mail[l]
    BY <2>1, <1>r DEF AgentsRows, Letter
  <2>5. \A l \in Letters : ~Waiting(l, n)'
    BY <2>n, <2>1, <2>2, <2>4 DEF RemovalCaptures, Waiting
  <2>6. RemovalCaptures(c)'
    <3>1. agents'[n].status # "none"
      BY <2>n, <2>1, <2>2 DEF RemovalCaptures
    <3> QED
      BY <2>1, <2>3, <2>5, <3>1, <1>o DEF RemovalCaptures
  <2>7. RemovalsCapture'
    BY <2>1, <2>6, <1>o DEF RemovalsCapture
  <2>8. Addressed'
    BY <2>4 DEF Addressed, AgentsInv
  <2> QED
    BY <2>1, <2>7, <2>8, <1>a, <1>k, <1>d DEF AgentsInv
<1>16. ASSUME NEW c \in AgentCalls, DeactivateAgent(c) PROVE AgentsInv'
  <2>n. PICK n : n = calls[c].name
    OBVIOUS
  <2>1. /\ calls[c].pc = "deactivate" /\ agents' = [agents EXCEPT ![n].status = "inactive"]
        /\ Then(c, Free) /\ UNCHANGED <<mail, deadLetters, apiKeys>>
    BY <1>16, <2>n DEF DeactivateAgent
  <2>2. n \in AgentNames /\ RemovalCaptures(c)
    BY <2>n, <2>1, <1>r, CallKinds DEF AgentsRows, AgentsInv, RemovalsCapture
  <2>3. /\ \A x \in AgentNames : agents'[x].owner = agents[x].owner /\ agents'[x].type = agents[x].type
        /\ \A x \in AgentNames \ {n} : agents'[x] = agents[x]
        /\ agents[n].status # "none"
    BY <2>n, <2>1, <2>2, <1>r DEF AgentsRows, AgentRow, RemovalCaptures
  <2>4. Owned'
    BY <2>3 DEF Owned, AgentsInv
  <2>5. \A l \in Letters : Waiting(l, n)' => Recorded(l, agents[n].owner)'
    BY <2>n, <2>1, <2>2, <2>3 DEF RemovalCaptures, Waiting, Recorded
  <2>6. InactiveCaptured'
    BY <2>3, <2>5, <1>k, InactiveFollows DEF InactiveCaptured
  <2>7. RemovalsCapture'
    BY <2>1, <1>o, <1>f
  <2> QED
    BY <2>1, <2>4, <2>6, <2>7, <1>k, <1>d, <1>m DEF AgentsInv
<1> QED
  BY <1>1, <1>2, <1>3, <1>4, <1>5, <1>6, <1>7, <1>8, <1>9, <1>10, <1>11, <1>12, <1>13, <1>14, <1>15, <1>16,
     <1>17, <1>18 DEF AgentsNext, handleAgentCreate, PostAgent

LEMMA AgentsInvariance == AgentsSpec => []AgentsInv
<1>1. AgentsInv /\ UNCHANGED agVars => AgentsInv'
  BY DEF AgentsInv, AgentsRows, RemovalsCapture, RemovalCaptures, InactiveCaptured,
         DeadLettersKept, Addressed, Owned, Waiting, Recorded, agVars
<1> QED
  BY <1>1, AgentsInitInv, AgentsStep, PTL DEF AgentsSpec

\* Deregister, UpdateAgent, RevokeKey, EnsureHumanAgent in any interleaving:
\* what waited for a removed agent is a dead letter of its owner, dead letters
\* are faithful, and nobody speaks for an agent that is not active.
THEOREM AgentsCorrect == AgentsSpec => []AgentsSafe
<1>1. AgentsInv => AgentsSafe
  <2> SUFFICES ASSUME AgentsInv PROVE AgentsSafe
    OBVIOUS
  <2>1. AgentsTypeOK
    BY DEF AgentsInv, AgentsRows, AgentRow, Letter, APIKey, AgentsTypeOK
  <2>3. LettersCaptured
    BY DEF AgentsInv, Addressed, InactiveCaptured, LettersCaptured, Waiting, Recorded, ListDeadLetters
  <2>4. DeadLettersFaithful
    BY DEF AgentsInv, DeadLettersKept, DeadLettersFaithful
  <2>5. OnlyActiveAgentsSpeak
    BY DEF OnlyActiveAgentsSpeak, Authenticate, AgentOfAPIKey, ListKeys
  <2> QED
    BY <2>1, <2>3, <2>4, <2>5 DEF AgentsSafe
<1> QED
  BY <1>1, AgentsInvariance, PTL

\* Deregister: whatever an update, a key change or a second removal read
\* before, an agent set inactive stays as it is.
THEOREM InactiveStays == AgentsSpec => InactiveForever
<1>1. AgentsInv /\ [AgentsNext]_agVars =>
        [\A n \in AgentNames : agents[n].status = "inactive" => agents'[n] = agents[n]]_agVars
  BY AgentsTypes DEF AgentsKept
<1> QED
  BY <1>1, AgentsInvariance, PTL DEF AgentsSpec, InactiveForever

-----------------------------------------------------------------------------
(* Users, sessions and the login limiter.                                  *)

Secret == Passwords \union {RandomPW}

UserRow == [name : Names \X Nat, role : {"admin", "user"}, pw : Secret,
            email : {NoEmail} \union {ExternalEmail[x] : x \in Externals}, gone : BOOLEAN]

SessionRow == [user : Nat, state : {"live", "expired", "deleted"}]

Attempt == [failures : Nat, stale : BOOLEAN]

RequestState ==
  [pc : {"idle"}]
  \union [pc : {"insert"}, name : Names \X Nat, pw : Secret, role : {"admin", "user"},
          ext : Externals \union {NoEmail}]
  \union [pc : {"verify"}, ip : IPs, name : Names \X Nat, pw : Secret]
  \union [pc : {"session", "delete"}, user : Nat]
  \union [pc : {"update", "purge"}, user : Nat, session : Nat, pw : Secret]
  \union [pc : {"byemail"}, ext : Externals]
  \union [pc : {"setemail", "link"}, user : Nat, ext : Externals]

AccountsRows ==
  /\ users \in Seq(UserRow) /\ Len(users) \in 1..MaxUsers
  /\ sessions \in Seq(SessionRow) /\ Len(sessions) \in 0..MaxSessions
  /\ attempts \in [IPs -> Attempt]
  /\ identities \in [Externals -> Nat]
  /\ request \in [Requests -> RequestState]

\* The states of a request that names a user.
OfUser == {"session", "delete", "update", "purge", "setemail", "link"}

UsersKnown ==
  /\ \A s \in SessionIDs : sessions[s].user \in UserIDs
  /\ \A x \in Externals : identities[x] \in {0} \union UserIDs
  /\ \A r \in Requests : request[r].pc \in OfUser => request[r].user \in UserIDs

\* The bound for one address.
Guesses(ip) ==
  attempts[ip].failures + Cardinality(Checking(ip)) <= maxLoginFailures - 1 + Cardinality(Requests)

AccountsInv == AccountsRows /\ UsersKnown /\ GuessesBounded /\ NothingOutlivesUser /\ NamesUnique

LEMMA AccountsInitInv == AccountsInit => AccountsInv
<1> SUFFICES ASSUME AccountsInit PROVE AccountsInv
  OBVIOUS
<1>1. PICK n \in Names : users = <<[name |-> <<n, 0>>, role |-> "admin", pw |-> RandomPW,
                                   email |-> NoEmail, gone |-> FALSE]>>
  BY DEF AccountsInit
<1>2. /\ sessions = <<>> /\ attempts = [ip \in IPs |-> NoAttempt]
      /\ identities = [x \in Externals |-> 0] /\ request = [r \in Requests |-> Idle]
  BY DEF AccountsInit
<1>3. /\ users \in Seq(UserRow) /\ Len(users) = 1
  <2>1. [name |-> <<n, 0>>, role |-> "admin", pw |-> RandomPW, email |-> NoEmail, gone |-> FALSE] \in UserRow
    BY DEF UserRow, Secret
  <2> QED BY <1>1, <2>1
<1>4. Idle \in RequestState /\ Idle.pc = "idle"
  BY DEF Idle, RequestState
<1>5. NoAttempt \in Attempt /\ NoAttempt.failures = 0
  BY DEF NoAttempt, Attempt
<1>6. AccountsRows
  BY <1>2, <1>3, <1>4, <1>5, AccountsAssumption DEF AccountsRows
<1>7. UsersKnown
  BY <1>2, <1>4 DEF UsersKnown, SessionIDs, OfUser
<1>8. GuessesBounded
  <2>1. \A ip \in IPs : Checking(ip) = {}
    BY <1>2, <1>4 DEF Checking
  <2>2. Cardinality({}) = 0 /\ Cardinality(Requests) \in Nat
    BY FS_EmptySet, FS_CardinalityType, AccountsAssumption
  <2>3. \A ip \in IPs : attempts[ip].failures = 0 /\ Cardinality(Checking(ip)) = 0
    BY <1>2, <1>5, <2>1, <2>2
  <2>4. maxLoginFailures - 1 + Cardinality(Requests) >= 0
    BY <2>2, AccountsAssumption
  <2> QED
    BY <2>3, <2>4 DEF GuessesBounded
<1>9. NothingOutlivesUser
  BY <1>2 DEF NothingOutlivesUser, SessionIDs
<1>10. NamesUnique
  BY <1>3 DEF NamesUnique, Existing, UserIDs
<1> QED
  BY <1>6, <1>7, <1>8, <1>9, <1>10 DEF AccountsInv

\* The request moves on to rec: nobody else's request does.
LEMMA GotoRequests ==
  ASSUME AccountsRows, NEW r \in Requests, NEW rec \in RequestState, Goto(r, rec)
  PROVE  /\ request' \in [Requests -> RequestState] /\ request'[r] = rec
         /\ \A x \in Requests : x # r => request'[x] = request[x]
         /\ rec.pc # "verify" => \A ip \in IPs : Checking(ip)' = Checking(ip) \ {r}
         /\ rec.pc = "verify" => \A ip \in IPs : ip # rec.ip => Checking(ip)' \subseteq Checking(ip)
<1>1. /\ request' \in [Requests -> RequestState] /\ request'[r] = rec
      /\ \A x \in Requests : x # r => request'[x] = request[x]
  BY DEF AccountsRows, Goto
<1>2. ASSUME rec.pc # "verify", NEW ip \in IPs PROVE Checking(ip)' = Checking(ip) \ {r}
  BY <1>1, <1>2 DEF Checking
<1>3. ASSUME rec.pc = "verify", NEW ip \in IPs, ip # rec.ip PROVE Checking(ip)' \subseteq Checking(ip)
  BY <1>1, <1>3 DEF Checking
<1> QED
  BY <1>1, <1>2, <1>3

\* The bound survives when nobody new compares a password and the address has
\* no new failure.
LEMMA GuessesKept ==
  ASSUME AccountsInv, NEW ip \in IPs, attempts'[ip].failures \in Nat,
         attempts'[ip].failures <= attempts[ip].failures, Checking(ip)' \subseteq Checking(ip)
  PROVE  Guesses(ip)'
<1>1. IsFiniteSet(Checking(ip)) /\ Checking(ip) \subseteq Requests
  <2>1. Checking(ip) \in SUBSET Requests
    BY DEF Checking
  <2> QED BY <2>1, FS_Subset, AccountsAssumption
<1>2. Cardinality(Checking(ip)') <= Cardinality(Checking(ip)) /\ Cardinality(Checking(ip)') \in Nat
      /\ Cardinality(Checking(ip)) \in Nat /\ Cardinality(Requests) \in Nat
  BY <1>1, FS_Subset, FS_CardinalityType, AccountsAssumption
<1>3. attempts[ip].failures + Cardinality(Checking(ip)) <= maxLoginFailures - 1 + Cardinality(Requests)
  BY DEF AccountsInv, GuessesBounded
<1>4. attempts[ip].failures \in Nat
  BY DEF AccountsInv, AccountsRows, Attempt
<1> QED
  BY <1>2, <1>3, <1>4, AccountsAssumption DEF Guesses

\* Rows of users that stay keep NamesUnique and everything that points at them.
UsersKept ==
  /\ users' \in Seq(UserRow) /\ Len(users') \in 1..MaxUsers /\ UserIDs \subseteq UserIDs'
  /\ Existing \subseteq Existing' /\ NamesUnique'

LEMMA UsersStay == ASSUME AccountsInv, UNCHANGED users PROVE UsersKept
BY DEF AccountsInv, AccountsRows, UsersKept, UserIDs, Existing, NamesUnique

LEMMA UserChanges ==
  ASSUME AccountsInv, NEW u \in UserIDs, NEW row \in UserRow, users' = [users EXCEPT ![u] = row],
         row.name = users[u].name, row.gone = users[u].gone
  PROVE  UsersKept
<1>1. /\ users' \in Seq(UserRow) /\ Len(users') = Len(users)
      /\ \A j \in 1..Len(users) : users'[j] = IF j = u THEN row ELSE users[j]
  BY ChangeRow DEF AccountsInv, AccountsRows, UserIDs
<1>2. UserIDs' = UserIDs /\ \A j \in UserIDs : users'[j].name = users[j].name /\ users'[j].gone = users[j].gone
  BY <1>1 DEF UserIDs
<1>3. Existing' = Existing
  BY <1>2 DEF Existing
<1>4. NamesUnique'
  BY <1>2, <1>3 DEF AccountsInv, NamesUnique, Existing
<1> QED
  BY <1>1, <1>2, <1>3, <1>4 DEF UsersKept, AccountsInv, AccountsRows

LEMMA UserTyped == ASSUME AccountsInv, NEW u \in UserIDs PROVE users[u] \in UserRow /\ u \in Nat
BY DEF AccountsInv, AccountsRows, UserIDs

LEMMA SessionTyped ==
  ASSUME AccountsInv, NEW s \in SessionIDs PROVE sessions[s] \in SessionRow /\ sessions[s].user \in UserIDs
BY DEF AccountsInv, AccountsRows, SessionIDs, UsersKnown

\* Sessions that stay, expire or are deleted.
SameSessions ==
  /\ sessions' \in Seq(SessionRow) /\ Len(sessions') = Len(sessions) /\ SessionIDs' = SessionIDs
  /\ \A s \in SessionIDs : /\ sessions'[s].user = sessions[s].user
                           /\ sessions[s].state = "deleted" => sessions'[s].state = "deleted"

LEMMA SessionsStay == ASSUME AccountsInv, UNCHANGED sessions PROVE SameSessions
BY DEF AccountsInv, AccountsRows, SameSessions, SessionIDs

LEMMA SessionRowFields ==
  ASSUME NEW row \in SessionRow
  PROVE  /\ [row EXCEPT !.state = "deleted"] \in SessionRow /\ [row EXCEPT !.state = "deleted"].user = row.user
         /\ [row EXCEPT !.state = "expired"] \in SessionRow /\ [row EXCEPT !.state = "expired"].user = row.user
         /\ [row EXCEPT !.state = "deleted"].state = "deleted"
BY DEF SessionRow

LEMMA SessionsDeleted ==
  ASSUME AccountsInv, NEW S, DeleteSessions(S)
  PROVE  SameSessions /\ \A s \in SessionIDs : s \in S => sessions'[s].state = "deleted"
<1> DEFINE Row(i) == IF i \in S THEN [sessions[i] EXCEPT !.state = "deleted"] ELSE sessions[i]
<1>1. \A i \in SessionIDs : /\ Row(i) \in SessionRow /\ Row(i).user = sessions[i].user
                            /\ (sessions[i].state = "deleted" \/ i \in S) => Row(i).state = "deleted"
  <2> SUFFICES ASSUME NEW i \in SessionIDs
               PROVE  /\ Row(i) \in SessionRow /\ Row(i).user = sessions[i].user
                      /\ (sessions[i].state = "deleted" \/ i \in S) => Row(i).state = "deleted"
    OBVIOUS
  <2>1. sessions[i] \in SessionRow
    BY SessionTyped
  <2> QED
    BY <2>1, SessionRowFields
<1>2. sessions' = [i \in SessionIDs |-> Row(i)]
  BY DEF DeleteSessions
<1> HIDE DEF Row
<1>3. sessions' \in Seq(SessionRow) /\ Len(sessions') = Len(sessions)
  <2>1. Len(sessions) \in Nat
    BY DEF AccountsInv, AccountsRows
  <2>2. \A i \in 1..Len(sessions) : Row(i) \in SessionRow
    BY <1>1 DEF SessionIDs
  <2>3. sessions' = [i \in 1..Len(sessions) |-> Row(i)]
    BY <1>2 DEF SessionIDs
  <2> QED
    BY <2>1, <2>2, <2>3
<1>4. SessionIDs' = SessionIDs
  BY <1>3 DEF SessionIDs
<1>5. \A i \in SessionIDs : sessions'[i] = Row(i)
  BY <1>2
<1>6. \A i \in SessionIDs : /\ sessions'[i].user = sessions[i].user
                            /\ (sessions[i].state = "deleted" \/ i \in S) => sessions'[i].state = "deleted"
  BY <1>1, <1>5
<1> QED
  BY <1>3, <1>4, <1>6 DEF SameSessions

LEMMA SessionChanges ==
  ASSUME AccountsInv, NEW s \in SessionIDs, sessions[s].state # "deleted",
         sessions' = [sessions EXCEPT ![s].state = "expired"]
  PROVE  SameSessions
<1> DEFINE row == [sessions[s] EXCEPT !.state = "expired"]
<1>1. row \in SessionRow /\ row.user = sessions[s].user
  BY SessionTyped, SessionRowFields
<1>2. sessions' = [sessions EXCEPT ![s] = row]
  OBVIOUS
<1> HIDE DEF row
<1>3. /\ sessions' \in Seq(SessionRow) /\ Len(sessions') = Len(sessions)
      /\ \A j \in 1..Len(sessions) : sessions'[j] = IF j = s THEN row ELSE sessions[j]
  BY <1>1, <1>2, ChangeRow DEF AccountsInv, AccountsRows, SessionIDs
<1> QED
  BY <1>1, <1>3 DEF SameSessions, SessionIDs

\* The steps of a request that neither compare a password nor remove a user.
LEMMA RequestMoves ==
  ASSUME AccountsInv, NEW r \in Requests, NEW rec \in RequestState, Goto(r, rec), rec.pc # "verify",
         UsersKept, SameSessions, UNCHANGED <<attempts, identities>>,
         rec.pc \in OfUser => rec.user \in UserIDs'
  PROVE  AccountsInv'
<1>r. AccountsRows
  BY DEF AccountsInv
<1>1. /\ request' \in [Requests -> RequestState] /\ request'[r] = rec
      /\ \A x \in Requests : x # r => request'[x] = request[x]
      /\ \A ip \in IPs : Checking(ip)' = Checking(ip) \ {r}
  BY <1>r, GotoRequests
<1>2. AccountsRows'
  BY <1>r, <1>1 DEF AccountsRows, UsersKept, SameSessions
<1>3. UsersKnown'
  <2>1. \A x \in Requests : request'[x].pc \in OfUser => request'[x].user \in UserIDs'
    BY <1>1 DEF AccountsInv, UsersKnown, UsersKept
  <2> QED
    BY <2>1 DEF UsersKept, SameSessions, AccountsInv, UsersKnown
<1>4. GuessesBounded'
  <2>1. \A ip \in IPs : Guesses(ip)'
    <3> SUFFICES ASSUME NEW ip \in IPs PROVE Guesses(ip)'
      OBVIOUS
    <3>1. attempts'[ip].failures \in Nat /\ attempts'[ip].failures <= attempts[ip].failures
      BY <1>r DEF AccountsRows, Attempt
    <3>2. Checking(ip)' \subseteq Checking(ip)
      BY <1>1
    <3> QED BY <3>1, <3>2, GuessesKept
  <2> QED BY <2>1 DEF Guesses, GuessesBounded
<1>5. NothingOutlivesUser'
  BY DEF UsersKept, SameSessions, AccountsInv, NothingOutlivesUser
<1> QED
  BY <1>2, <1>3, <1>4, <1>5 DEF AccountsInv, UsersKept

\* The steps of the environment and the administrator that move no request.
LEMMA NobodyMoves ==
  ASSUME AccountsInv, UsersKept, SameSessions, UNCHANGED <<identities, request>>,
         attempts' \in [IPs -> Attempt], \A ip \in IPs : attempts'[ip].failures = attempts[ip].failures
  PROVE  AccountsInv'
<1>r. AccountsRows
  BY DEF AccountsInv
<1>2. AccountsRows'
  BY <1>r DEF AccountsRows, UsersKept, SameSessions
<1>3. UsersKnown'
  BY DEF UsersKept, SameSessions, AccountsInv, UsersKnown
<1>4. GuessesBounded'
  BY DEF AccountsInv, GuessesBounded, Checking
<1>5. NothingOutlivesUser'
  BY DEF UsersKept, SameSessions, AccountsInv, NothingOutlivesUser
<1> QED
  BY <1>2, <1>3, <1>4, <1>5 DEF AccountsInv, UsersKept

LEMMA RequestKinds ==
  ASSUME NEW q \in RequestState
  PROVE  /\ q.pc = "insert" => /\ q.name \in Names \X Nat /\ q.pw \in Secret /\ q.role \in {"admin", "user"}
                               /\ q.ext \in Externals \union {NoEmail}
         /\ q.pc = "verify" => q.ip \in IPs
         /\ q.pc \in {"byemail", "setemail", "link"} => q.ext \in Externals
         /\ q.pc \in {"update", "purge"} => q.user \in Nat /\ q.session \in Nat /\ q.pw \in Secret
BY DEF RequestState

LEMMA IdleRequest == Idle \in RequestState /\ Idle.pc = "idle"
BY DEF Idle, RequestState

LEMMA AccountsStep == AccountsInv /\ AccountsNext => AccountsInv'
<1> SUFFICES ASSUME AccountsInv, AccountsNext PROVE AccountsInv'
  OBVIOUS
<1>r. AccountsRows
  BY DEF AccountsInv
<1>q. \A r \in Requests : /\ request[r] \in RequestState
                          /\ request[r].pc \in OfUser => request[r].user \in UserIDs
  BY DEF AccountsInv, AccountsRows, UsersKnown
<1>w. Passwords \subseteq Secret /\ RandomPW \in Secret /\ RoleOfNewUser \in {"admin", "user"}
  BY DEF Secret, RoleOfNewUser
<1>i. Idle \in RequestState /\ Idle.pc = "idle" /\ "idle" \notin OfUser
  BY IdleRequest DEF OfUser
<1>b. ASSUME NEW r \in Requests, NEW n \in Names, NEW pw \in Secret,
             NEW x \in Externals \union {NoEmail}, BeginCreateUser(r, <<n, 0>>, pw, x),
             UNCHANGED <<users, sessions, attempts, identities>>
      PROVE  AccountsInv'
  <2> DEFINE rec == [pc |-> "insert", name |-> <<n, 0>>, pw |-> pw, role |-> RoleOfNewUser, ext |-> x]
  <2>1. rec \in RequestState /\ rec.pc = "insert"
    BY <1>w DEF RequestState
  <2>2. Goto(r, rec)
    BY <1>b DEF BeginCreateUser
  <2> HIDE DEF rec
  <2> QED
    BY <1>b, <2>1, <2>2, UsersStay, SessionsStay, RequestMoves DEF OfUser, UsersKept
<1>s. ASSUME NEW r \in Requests, NEW u \in UserIDs, Goto(r, [pc |-> "session", user |-> u]),
             UNCHANGED <<users, sessions, attempts, identities>>
      PROVE  AccountsInv'
  <2> DEFINE rec == [pc |-> "session", user |-> u]
  <2>1. rec \in RequestState /\ rec.pc = "session" /\ rec.user = u
    BY UserTyped DEF RequestState
  <2> HIDE DEF rec
  <2>2. Goto(r, rec)
    BY <1>s DEF rec
  <2> QED
    BY <1>s, <2>1, <2>2, UsersStay, SessionsStay, RequestMoves DEF OfUser, UsersKept
<1>1. ASSUME NEW ip \in IPs, BlockTimePasses(ip) PROVE AccountsInv'
  <2>1. attempts' \in [IPs -> Attempt] /\ \A i \in IPs : attempts'[i].failures = attempts[i].failures
    BY <1>1, <1>r DEF BlockTimePasses, AccountsRows, Attempt
  <2> QED
    BY <1>1, <2>1, UsersStay, SessionsStay, NobodyMoves DEF BlockTimePasses
<1>2. ASSUME NEW s \in SessionIDs, HandleLogout(s) \/ SessionExpires(s) \/ GetSession(s) PROVE AccountsInv'
  <2>1. SameSessions
    BY <1>2, SessionsDeleted, SessionChanges DEF HandleLogout, SessionExpires, GetSession, LiveSession
  <2>2. UNCHANGED <<users, attempts, identities, request>>
    BY <1>2 DEF HandleLogout, SessionExpires, GetSession
  <2>3. attempts' \in [IPs -> Attempt] /\ \A i \in IPs : attempts'[i].failures = attempts[i].failures
    BY <2>2, <1>r DEF AccountsRows
  <2> QED
    BY <2>1, <2>2, <2>3, UsersStay, NobodyMoves
<1>3. ASSUME NEW u \in Existing, NEW pw \in Passwords, handleUserPasswd(u, pw) PROVE AccountsInv'
  <2> DEFINE row == [users[u] EXCEPT !.pw = pw]
  <2>0. u \in UserIDs
    BY DEF Existing
  <2>1. row \in UserRow /\ row.name = users[u].name /\ row.gone = users[u].gone
    BY <1>w, <2>0, UserTyped DEF UserRow
  <2>2. users' = [users EXCEPT ![u] = row] /\ UNCHANGED <<sessions, attempts, identities, request>>
    BY <1>3 DEF handleUserPasswd
  <2> HIDE DEF row
  <2>3. attempts' \in [IPs -> Attempt] /\ \A i \in IPs : attempts'[i].failures = attempts[i].failures
    BY <2>2, <1>r DEF AccountsRows
  <2> QED
    BY <2>0, <2>1, <2>2, <2>3, UserChanges, SessionsStay, NobodyMoves
<1>4. ASSUME NEW r \in Requests, NEW n \in Names, NEW pw \in Passwords, handleUserCreate(r, n, pw)
      PROVE  AccountsInv'
  BY <1>4, <1>b, <1>w DEF handleUserCreate, HandleRegister
<1>5. ASSUME NEW r \in Requests, NEW n \in Names, NEW pw \in Passwords, NEW ip \in IPs,
             handleAuthorizeLogin(r, ip, n, pw)
      PROVE  AccountsInv'
  <2>1. CASE VerifyPassword(<<n, 0>>, pw) = {}
    <3>1. UNCHANGED <<users, sessions, attempts, identities, request>>
      BY <1>5, <2>1 DEF handleAuthorizeLogin
    <3> QED
      BY <3>1, <1>r, UsersStay, SessionsStay, NobodyMoves DEF AccountsRows
  <2>2. CASE VerifyPassword(<<n, 0>>, pw) # {}
    <3>1. PICK u \in VerifyPassword(<<n, 0>>, pw) : Goto(r, [pc |-> "session", user |-> u])
      BY <1>5, <2>2 DEF handleAuthorizeLogin
    <3>2. u \in UserIDs
      BY DEF VerifyPassword, GetUserByUsername, Existing
    <3> QED
      BY <1>5, <1>s, <3>1, <3>2 DEF handleAuthorizeLogin
  <2> QED
    BY <2>1, <2>2
<1>6. ASSUME NEW r \in Requests, NEW n \in Names, NEW pw \in Passwords, NEW ip \in IPs, HandleLogin(r, ip, n, pw)
      PROVE  AccountsInv'
  <2> DEFINE rec == [pc |-> "verify", ip |-> ip, name |-> <<n, 0>>, pw |-> pw]
  <2>1. rec \in RequestState /\ rec.pc = "verify" /\ rec.ip = ip
    BY <1>w DEF RequestState
  <2>2. Goto(r, rec) /\ forgetStale(ip) /\ ~isBlocked(ip) /\ UNCHANGED <<users, sessions, identities>>
    BY <1>6 DEF HandleLogin
  <2> HIDE DEF rec
  <2>3. /\ request' \in [Requests -> RequestState] /\ request'[r] = rec
        /\ \A x \in Requests : x # r => request'[x] = request[x]
        /\ \A i \in IPs : i # ip => Checking(i)' \subseteq Checking(i)
    BY <1>r, <2>1, <2>2, GotoRequests
  <2>4. /\ attempts' \in [IPs -> Attempt] /\ attempts'[ip].failures <= maxLoginFailures - 1
        /\ \A i \in IPs : i # ip => attempts'[i] = attempts[i]
    <3>1. NoAttempt \in Attempt /\ NoAttempt.failures = 0
      BY DEF NoAttempt, Attempt
    <3>2. attempts[ip].failures \in Nat /\ attempts[ip].stale \in BOOLEAN
      BY <1>r DEF AccountsRows, Attempt
    <3> QED
      BY <1>r, <2>2, <3>1, <3>2, AccountsAssumption DEF forgetStale, isBlocked, AccountsRows
  <2>5. AccountsRows'
    BY <1>r, <2>2, <2>3, <2>4 DEF AccountsRows
  <2>6. UsersKnown'
    BY <2>1, <2>2, <2>3 DEF AccountsInv, UsersKnown, OfUser, SessionIDs, UserIDs
  <2>7. GuessesBounded'
    <3> SUFFICES ASSUME NEW i \in IPs PROVE Guesses(i)'
      BY DEF Guesses, GuessesBounded
    <3>1. CASE i = ip
      <4>1. Checking(ip)' \in SUBSET Requests
        BY DEF Checking
      <4>2. /\ Cardinality(Checking(ip)') <= Cardinality(Requests) /\ Cardinality(Requests) \in Nat
            /\ Cardinality(Checking(ip)') \in Nat
        BY <4>1, FS_Subset, FS_CardinalityType, AccountsAssumption
      <4>3. attempts'[ip].failures \in Nat
        BY <2>4 DEF Attempt
      <4> QED
        BY <3>1, <4>2, <4>3, <2>4, AccountsAssumption DEF Guesses
    <3>2. CASE i # ip
      <4>1. attempts'[i].failures \in Nat /\ attempts'[i].failures <= attempts[i].failures
        BY <2>4, <3>2, <1>r DEF AccountsRows, Attempt
      <4> QED BY <2>3, <3>2, <4>1, GuessesKept
    <3> QED BY <3>1, <3>2
  <2>8. NothingOutlivesUser' /\ NamesUnique'
    BY <2>2 DEF AccountsInv, NothingOutlivesUser, NamesUnique, SessionIDs, Existing, UserIDs
  <2> QED
    BY <2>5, <2>6, <2>7, <2>8 DEF AccountsInv
<1>7. ASSUME NEW r \in Requests, CreateUser(r) PROVE AccountsInv'
  <2> DEFINE q == request[r]
             id == Len(users) + 1
  <2>0. /\ q.pc = "insert" /\ q.name \in Names \X Nat /\ q.pw \in Secret /\ q.role \in {"admin", "user"}
        /\ q.ext \in Externals \union {NoEmail} /\ UNCHANGED <<sessions, attempts, identities>>
    BY <1>7, <1>q, RequestKinds DEF CreateUser
  <2>l. Len(users) \in Nat
    BY <1>r DEF AccountsRows
  <2>1. CASE GetUserByUsername(q.name) = {}
    <3> DEFINE row == [name |-> q.name, role |-> q.role, pw |-> q.pw, email |-> NoEmail, gone |-> FALSE]
               rec == IF q.ext = NoEmail THEN Idle ELSE [pc |-> "setemail", user |-> id, ext |-> q.ext]
    <3>1. row \in UserRow /\ row.name = q.name
      BY <2>0 DEF UserRow
    <3>2. id <= MaxUsers /\ users' = Append(users, row) /\ Goto(r, rec)
      BY <1>7, <2>1 DEF CreateUser
    <3>3. rec \in RequestState /\ rec.pc # "verify" /\ (rec.pc \in OfUser => rec.user = id)
      <4>1. CASE q.ext = NoEmail
        BY <4>1, <1>i
      <4>2. CASE q.ext # NoEmail
        <5>1. rec = [pc |-> "setemail", user |-> id, ext |-> q.ext] /\ q.ext \in Externals /\ id \in Nat
          BY <4>2, <2>0, <2>l
        <5> QED BY <5>1 DEF RequestState
      <4> QED BY <4>1, <4>2
    <3> HIDE DEF row, rec
    <3>4. /\ users' \in Seq(UserRow) /\ Len(users') = Len(users) + 1
          /\ \A j \in 1..Len(users) : j \in 1..Len(users') /\ users'[j] = users[j]
          /\ users'[Len(users) + 1] = row
      BY <1>r, <3>1, <3>2, AppendRow DEF AccountsRows
    <3>5. UserIDs' = UserIDs \union {id} /\ id \in UserIDs' /\ Len(users') \in 1..MaxUsers
      BY <2>l, <3>2, <3>4, AccountsAssumption DEF UserIDs
    <3>6. Existing \subseteq Existing' /\ Existing' \subseteq Existing \union {id}
      BY <3>4, <3>5 DEF Existing, UserIDs
    <3>7. NamesUnique'
      <4> SUFFICES ASSUME NEW u \in Existing', NEW v \in Existing', users'[u].name = users'[v].name
                   PROVE  u = v
        BY DEF NamesUnique
      <4>1. \A j \in Existing : users'[j] = users[j] /\ users[j].name # q.name
        BY <2>1, <3>4 DEF Existing, UserIDs, GetUserByUsername
      <4>2. users'[id].name = q.name
        BY <3>1, <3>4
      <4> QED
        BY <3>6, <4>1, <4>2 DEF AccountsInv, NamesUnique
    <3>8. UsersKept
      BY <3>4, <3>5, <3>6, <3>7 DEF UsersKept
    <3>9. rec.pc \in OfUser => rec.user \in UserIDs'
      BY <3>3, <3>5
    <3> QED
      BY <2>0, <3>2, <3>3, <3>8, <3>9, SessionsStay, RequestMoves
  <2>2. CASE GetUserByUsername(q.name) # {} /\ q.ext # NoEmail /\ q.name[2] = 0
    <3> DEFINE rec == [q EXCEPT !.name = <<q.name[1], id>>, !.role = RoleOfNewUser]
    <3>1. UNCHANGED users /\ Goto(r, rec)
      BY <1>7, <2>2 DEF CreateUser
    <3>2. <<q.name[1], id>> \in Names \X Nat
      BY <2>0, <2>l
    <3>3. rec \in RequestState /\ rec.pc = "insert"
      <4> HIDE DEF id
      <4> QED BY <1>q, <1>w, <2>0, <3>2, ZenonT(40) DEF RequestState
    <3> HIDE DEF rec
    <3> QED
      BY <2>0, <3>1, <3>3, UsersStay, SessionsStay, RequestMoves DEF OfUser
  <2>3. CASE GetUserByUsername(q.name) # {} /\ ~(q.ext # NoEmail /\ q.name[2] = 0)
    <3>1. UNCHANGED users /\ Goto(r, Idle)
      BY <1>7, <2>3 DEF CreateUser
    <3> QED
      BY <1>i, <2>0, <3>1, UsersStay, SessionsStay, RequestMoves
  <2> QED
    BY <2>1, <2>2, <2>3
<1>8. ASSUME NEW r \in Requests, HandleLoginVerify(r) PROVE AccountsInv'
  <2> DEFINE U == VerifyPassword(request[r].name, request[r].pw)
  <2>n. PICK ip \in IPs : ip = request[r].ip
    BY <1>8, <1>q, RequestKinds DEF HandleLoginVerify
  <2>0. request[r].pc = "verify" /\ UNCHANGED <<users, sessions, identities>>
    BY <1>8 DEF HandleLoginVerify
  <2>1. PICK rec \in RequestState : Goto(r, rec) /\ rec.pc # "verify" /\ (rec.pc \in OfUser => rec.user \in UserIDs)
    <3>1. CASE U = {}
      BY <1>8, <1>i, <3>1 DEF HandleLoginVerify
    <3>2. CASE U # {}
      <4>1. PICK u \in U : Goto(r, [pc |-> "session", user |-> u])
        BY <1>8, <3>2 DEF HandleLoginVerify
      <4>2. u \in UserIDs
        BY DEF VerifyPassword, GetUserByUsername, Existing
      <4>3. [pc |-> "session", user |-> u] \in RequestState
        BY <4>2, UserTyped DEF RequestState
      <4> QED BY <4>1, <4>2, <4>3
    <3> QED BY <3>1, <3>2
  <2>2. recordFailure(ip) \/ clearFailures(ip)
    BY <1>8, <2>n DEF HandleLoginVerify
  <2>3. /\ request' \in [Requests -> RequestState] /\ request'[r] = rec
        /\ \A x \in Requests : x # r => request'[x] = request[x]
        /\ \A i \in IPs : Checking(i)' = Checking(i) \ {r}
    BY <1>r, <2>1, GotoRequests
  <2>4. /\ attempts' \in [IPs -> Attempt] /\ attempts'[ip].failures <= attempts[ip].failures + 1
        /\ \A i \in IPs : i # ip => attempts'[i] = attempts[i]
    <3>1. attempts[ip] \in Attempt
      BY <1>r DEF AccountsRows
    <3>2. PICK row \in Attempt : attempts' = [attempts EXCEPT ![ip] = row] /\ row.failures <= attempts[ip].failures + 1
      <4>1. CASE recordFailure(ip)
        <5> DEFINE row == [failures |-> attempts[ip].failures + 1, stale |-> FALSE]
        <5>1. row \in Attempt /\ row.failures <= attempts[ip].failures + 1
          BY <3>1 DEF Attempt
        <5>2. attempts' = [attempts EXCEPT ![ip] = row]
          BY <4>1 DEF recordFailure
        <5> QED BY <5>1, <5>2
      <4>2. CASE clearFailures(ip)
        <5>1. NoAttempt \in Attempt /\ NoAttempt.failures <= attempts[ip].failures + 1
          BY <3>1 DEF NoAttempt, Attempt
        <5> QED BY <4>2, <5>1 DEF clearFailures
      <4> QED BY <2>2, <4>1, <4>2
    <3> QED BY <1>r, <3>2 DEF AccountsRows
  <2>5. AccountsRows'
    BY <1>r, <2>0, <2>3, <2>4 DEF AccountsRows
  <2>6. UsersKnown'
    BY <2>0, <2>1, <2>3 DEF AccountsInv, UsersKnown, SessionIDs, UserIDs
  <2>7. GuessesBounded'
    <3> SUFFICES ASSUME NEW i \in IPs PROVE Guesses(i)'
      BY DEF Guesses, GuessesBounded
    <3>1. CASE i = ip
      <4>1. Checking(ip) \in SUBSET Requests /\ r \in Checking(ip)
        BY <2>0, <2>n DEF Checking
      <4>2. IsFiniteSet(Checking(ip)) /\ Cardinality(Requests) \in Nat
        BY <4>1, FS_Subset, FS_CardinalityType, AccountsAssumption
      <4>3. Cardinality(Checking(ip)') = Cardinality(Checking(ip)) - 1 /\ Cardinality(Checking(ip)) \in Nat
        BY <4>1, <4>2, <2>3, FS_RemoveElement, FS_CardinalityType
      <4>4. attempts'[ip].failures \in Nat /\ attempts[ip].failures \in Nat
        BY <1>r, <2>4 DEF AccountsRows, Attempt
      <4>5. attempts[ip].failures + Cardinality(Checking(ip)) <= maxLoginFailures - 1 + Cardinality(Requests)
        BY DEF AccountsInv, GuessesBounded
      <4> QED
        BY <3>1, <4>2, <4>3, <4>4, <4>5, <2>4, AccountsAssumption DEF Guesses
    <3>2. CASE i # ip
      <4>1. attempts'[i].failures \in Nat /\ attempts'[i].failures <= attempts[i].failures
        BY <2>4, <3>2, <1>r DEF AccountsRows, Attempt
      <4> QED BY <2>3, <3>2, <4>1, GuessesKept
    <3> QED BY <3>1, <3>2
  <2>8. NothingOutlivesUser' /\ NamesUnique'
    BY <2>0 DEF AccountsInv, NothingOutlivesUser, NamesUnique, SessionIDs, Existing, UserIDs
  <2> QED
    BY <2>5, <2>6, <2>7, <2>8 DEF AccountsInv
<1>g. ASSUME NEW r \in Requests, NEW rec \in RequestState, Goto(r, rec), rec.pc # "verify", UNCHANGED attempts
      PROVE  /\ request' \in [Requests -> RequestState] /\ request'[r] = rec
             /\ \A x \in Requests : x # r => request'[x] = request[x]
             /\ GuessesBounded'
  <2>1. /\ request' \in [Requests -> RequestState] /\ request'[r] = rec
        /\ \A x \in Requests : x # r => request'[x] = request[x]
        /\ \A ip \in IPs : Checking(ip)' = Checking(ip) \ {r}
    BY <1>g, <1>r, GotoRequests
  <2>2. \A ip \in IPs : attempts'[ip].failures \in Nat /\ attempts'[ip].failures <= attempts[ip].failures
    BY <1>g, <1>r DEF AccountsRows, Attempt
  <2>3. \A ip \in IPs : Guesses(ip)'
    BY <2>1, <2>2, GuessesKept
  <2> QED
    BY <2>1, <2>3 DEF Guesses, GuessesBounded
<1>9. ASSUME NEW r \in Requests, CreateSession(r) PROVE AccountsInv'
  <2> DEFINE q == request[r]
  <2>0. q.pc = "session" /\ Goto(r, Idle) /\ UNCHANGED <<users, attempts, identities>>
    BY <1>9 DEF CreateSession
  <2>1. CASE q.user \notin Existing
    BY <1>9, <2>0, <2>1, <1>i, UsersStay, SessionsStay, RequestMoves DEF CreateSession
  <2>2. CASE q.user \in Existing
    <3> DEFINE row == [user |-> q.user, state |-> "live"]
    <3>1. row \in SessionRow /\ row.user = q.user
      BY <2>2 DEF SessionRow, Existing, UserIDs
    <3>2. Len(sessions) < MaxSessions /\ sessions' = Append(sessions, row)
      BY <1>9, <2>2 DEF CreateSession
    <3> HIDE DEF row
    <3>3. /\ sessions' \in Seq(SessionRow) /\ Len(sessions') = Len(sessions) + 1
          /\ \A j \in 1..Len(sessions) : j \in 1..Len(sessions') /\ sessions'[j] = sessions[j]
          /\ sessions'[Len(sessions) + 1] = row
      BY <1>r, <3>1, <3>2, AppendRow DEF AccountsRows
    <3>4. /\ request' \in [Requests -> RequestState] /\ request'[r] = Idle
          /\ \A x \in Requests : x # r => request'[x] = request[x]
          /\ GuessesBounded'
      BY <1>g, <1>i, <2>0
    <3>5. Len(sessions') \in 0..MaxSessions
      BY <1>r, <3>2, <3>3, AccountsAssumption DEF AccountsRows
    <3>6. AccountsRows'
      BY <1>r, <2>0, <3>3, <3>4, <3>5 DEF AccountsRows
    <3>7. SessionIDs' = SessionIDs \union {Len(sessions) + 1}
      BY <1>r, <3>3 DEF SessionIDs, AccountsRows
    <3>8. \A s \in SessionIDs' : sessions'[s].user \in UserIDs' /\ (sessions'[s].state # "deleted" => sessions'[s].user \in Existing')
      <4>1. UserIDs' = UserIDs /\ Existing' = Existing /\ Existing \subseteq UserIDs
        BY <2>0 DEF UserIDs, Existing
      <4>2. \A s \in SessionIDs : sessions'[s] = sessions[s]
        BY <3>3 DEF SessionIDs
      <4> QED
        BY <2>2, <3>1, <3>3, <3>7, <4>1, <4>2 DEF AccountsInv, UsersKnown, NothingOutlivesUser
    <3>9. UsersKnown' /\ NothingOutlivesUser' /\ NamesUnique'
      BY <1>i, <2>0, <3>4, <3>8 DEF AccountsInv, UsersKnown, NothingOutlivesUser, NamesUnique, UserIDs, Existing
    <3> QED
      BY <3>4, <3>6, <3>9 DEF AccountsInv
  <2> QED
    BY <2>1, <2>2
<1>10. ASSUME NEW r \in Requests, NEW s \in SessionIDs, NEW cur \in Passwords, NEW new \in Passwords,
              HandleChangePassword(r, s, cur, new)
       PROVE  AccountsInv'
  <2> DEFINE u == sessions[s].user
             rec == [pc |-> "update", user |-> u, session |-> s, pw |-> new]
  <2>1. u \in UserIDs /\ u \in Nat /\ s \in Nat
    BY SessionTyped, UserTyped DEF SessionIDs
  <2>2. Goto(r, rec) /\ UNCHANGED <<users, sessions, attempts, identities>>
    BY <1>10 DEF HandleChangePassword
  <2>3. rec \in RequestState /\ rec.pc = "update" /\ rec.user = u
    BY <1>w, <2>1 DEF RequestState
  <2> HIDE DEF rec, u
  <2> QED
    BY <2>1, <2>2, <2>3, UsersStay, SessionsStay, RequestMoves DEF UsersKept
<1>11. ASSUME NEW r \in Requests, UpdatePassword(r) PROVE AccountsInv'
  <2> DEFINE q == request[r]
             u == q.user
             row == [users[u] EXCEPT !.pw = q.pw]
             rec == [q EXCEPT !.pc = "purge"]
  <2>0. q.pc = "update" /\ q.pw \in Secret /\ u \in UserIDs /\ UNCHANGED <<sessions, attempts, identities>>
    BY <1>11, <1>q, RequestKinds DEF UpdatePassword, OfUser
  <2>1. CASE u \in Existing
    <3>1. row \in UserRow /\ row.name = users[u].name /\ row.gone = users[u].gone
      BY <2>0, UserTyped DEF UserRow
    <3>2. rec \in RequestState /\ rec.pc = "purge" /\ rec.user = u
      BY <2>0, <1>q DEF RequestState
    <3>3. users' = [users EXCEPT ![u] = row] /\ Goto(r, rec)
      BY <1>11, <2>1 DEF UpdatePassword
    <3> HIDE DEF row, rec, u
    <3>4. UsersKept
      BY <2>0, <3>1, <3>3, UserChanges
    <3> QED
      BY <2>0, <3>2, <3>3, <3>4, SessionsStay, RequestMoves DEF UsersKept
  <2>2. CASE u \notin Existing
    BY <1>11, <2>0, <2>2, <1>i, UsersStay, SessionsStay, RequestMoves DEF UpdatePassword
  <2> QED
    BY <2>1, <2>2
<1>12. ASSUME NEW r \in Requests, PurgeOtherSessions(r) PROVE AccountsInv'
  <2>1. SameSessions
    BY <1>12, SessionsDeleted DEF PurgeOtherSessions, DeleteSessionsByUserExcept
  <2> QED
    BY <1>12, <2>1, <1>i, UsersStay, RequestMoves DEF PurgeOtherSessions
<1>13. ASSUME NEW r \in Requests, NEW u \in Existing, handleUserDelete(r, u) PROVE AccountsInv'
  <2> DEFINE rec == [pc |-> "delete", user |-> u]
  <2>0. u \in UserIDs /\ u \in Nat
    BY UserTyped DEF Existing
  <2>1. SameSessions
    BY <1>13, SessionsDeleted DEF handleUserDelete, DeleteSessionsByUser
  <2>2. rec \in RequestState /\ rec.pc = "delete" /\ rec.user = u
    BY <2>0 DEF RequestState
  <2>3. Goto(r, rec) /\ UNCHANGED <<users, attempts, identities>>
    BY <1>13 DEF handleUserDelete
  <2> HIDE DEF rec
  <2> QED
    BY <2>0, <2>1, <2>2, <2>3, UsersStay, RequestMoves DEF UsersKept
<1>14. ASSUME NEW r \in Requests, handleUserDeleteRow(r) PROVE AccountsInv'
  <2>n. PICK u \in UserIDs : u = request[r].user
    BY <1>14, <1>q DEF handleUserDeleteRow, OfUser
  <2>0. request[r].pc = "delete" /\ Goto(r, Idle) /\ UNCHANGED <<sessions, attempts>>
    BY <1>14 DEF handleUserDeleteRow
  <2>1. CASE \E s \in SessionIDs : sessions[s].user = u /\ sessions[s].state # "deleted"
    BY <1>14, <2>n, <2>0, <2>1, <1>i, UsersStay, SessionsStay, RequestMoves DEF handleUserDeleteRow
  <2>2. CASE \A s \in SessionIDs : sessions[s].user = u => sessions[s].state = "deleted"
    <3> DEFINE row == [users[u] EXCEPT !.gone = TRUE]
    <3>1. row \in UserRow /\ row.name = users[u].name /\ row.gone
      BY UserTyped DEF UserRow
    <3>2. /\ users' = [users EXCEPT ![u] = row]
          /\ identities' = [x \in Externals |-> IF identities[x] = u THEN 0 ELSE identities[x]]
      BY <1>14, <2>n, <2>2 DEF handleUserDeleteRow
    <3> HIDE DEF row
    <3>3. /\ users' \in Seq(UserRow) /\ Len(users') = Len(users)
          /\ \A j \in 1..Len(users) : users'[j] = IF j = u THEN row ELSE users[j]
      BY <1>r, <3>1, <3>2, ChangeRow DEF AccountsRows, UserIDs
    <3>4. UserIDs' = UserIDs /\ Existing' = Existing \ {u} /\ \A j \in UserIDs : users'[j].name = users[j].name
      BY <3>1, <3>3 DEF UserIDs, Existing
    <3>5. /\ request' \in [Requests -> RequestState] /\ request'[r] = Idle
          /\ \A x \in Requests : x # r => request'[x] = request[x]
          /\ GuessesBounded'
      BY <1>g, <1>i, <2>0
    <3>6. identities' \in [Externals -> Nat]
      BY <1>r, <3>2 DEF AccountsRows
    <3>7. AccountsRows'
      BY <1>r, <2>0, <3>3, <3>5, <3>6 DEF AccountsRows
    <3>8. UsersKnown'
      <4>1. SessionIDs' = SessionIDs
        BY <2>0 DEF SessionIDs
      <4> QED
        BY <1>i, <2>0, <3>2, <3>4, <3>5, <4>1 DEF AccountsInv, UsersKnown
    <3>9. NothingOutlivesUser'
      <4>1. SessionIDs' = SessionIDs
        BY <2>0 DEF SessionIDs
      <4> QED
        BY <2>0, <2>2, <3>2, <3>4, <4>1 DEF AccountsInv, NothingOutlivesUser
    <3>10. NamesUnique'
      BY <3>4 DEF AccountsInv, NamesUnique, Existing
    <3> QED
      BY <3>5, <3>7, <3>8, <3>9, <3>10 DEF AccountsInv
  <2> QED
    BY <2>1, <2>2
<1>15. ASSUME NEW r \in Requests, NEW x \in Externals, HandleCallback(r, x) PROVE AccountsInv'
  <2>1. UNCHANGED <<users, sessions, attempts, identities>>
    BY <1>15 DEF HandleCallback
  <2>2. CASE identities[x] # 0
    <3>1. identities[x] \in UserIDs
      BY <2>2 DEF AccountsInv, UsersKnown
    <3>2. Goto(r, [pc |-> "session", user |-> identities[x]])
      BY <1>15, <2>2 DEF HandleCallback
    <3> QED BY <2>1, <3>1, <3>2, <1>s
  <2>3. CASE identities[x] = 0
    <3> DEFINE rec == [pc |-> "byemail", ext |-> x]
    <3>1. rec \in RequestState /\ rec.pc = "byemail"
      BY DEF RequestState
    <3>2. Goto(r, rec)
      BY <1>15, <2>3 DEF HandleCallback
    <3> HIDE DEF rec
    <3> QED
      BY <2>1, <3>1, <3>2, UsersStay, SessionsStay, RequestMoves DEF OfUser
  <2> QED
    BY <2>2, <2>3
<1>16. ASSUME NEW r \in Requests, findOrCreateUser(r) PROVE AccountsInv'
  <2> DEFINE x == request[r].ext
             U == GetUserByEmail(ExternalEmail[x])
  <2>0. x \in Externals /\ UNCHANGED <<users, sessions, attempts, identities>>
    BY <1>16, <1>q, RequestKinds DEF findOrCreateUser
  <2>1. CASE U # {}
    <3>1. PICK u \in U : Goto(r, [pc |-> "link", user |-> u, ext |-> x])
      BY <1>16, <2>1 DEF findOrCreateUser
    <3>2. u \in UserIDs /\ u \in Nat
      BY UserTyped DEF GetUserByEmail, Existing
    <3> DEFINE rec == [pc |-> "link", user |-> u, ext |-> x]
    <3>3. rec \in RequestState /\ rec.pc = "link" /\ rec.user = u
      BY <2>0, <3>2 DEF RequestState
    <3>4. Goto(r, rec)
      BY <3>1
    <3> HIDE DEF rec
    <3> QED
      BY <2>0, <3>2, <3>3, <3>4, UsersStay, SessionsStay, RequestMoves DEF UsersKept
  <2>2. CASE U = {}
    <3>1. BeginCreateUser(r, <<ExternalName[x], 0>>, RandomPW, x)
      BY <1>16, <2>2 DEF findOrCreateUser
    <3>2. ExternalName[x] \in Names
      BY <2>0, AccountsAssumption
    <3> HIDE DEF x
    <3> QED BY <2>0, <3>1, <3>2, <1>b, <1>w
  <2> QED
    BY <2>1, <2>2
<1>17. ASSUME NEW r \in Requests, SetEmail(r) PROVE AccountsInv'
  <2> DEFINE q == request[r]
             u == q.user
             row == [users[u] EXCEPT !.email = ExternalEmail[q.ext]]
             rec == [q EXCEPT !.pc = "link"]
  <2>0. q.pc = "setemail" /\ q.ext \in Externals /\ u \in UserIDs /\ UNCHANGED <<sessions, attempts, identities>>
    BY <1>17, <1>q, RequestKinds DEF SetEmail, OfUser
  <2>1. row \in UserRow /\ row.name = users[u].name /\ row.gone = users[u].gone
    <3>1. users[u] \in UserRow
      BY <2>0, UserTyped
    <3>2. ExternalEmail[q.ext] \in {NoEmail} \union {ExternalEmail[x] : x \in Externals}
      BY <2>0
    <3> QED BY <3>1, <3>2 DEF UserRow
  <2>2. rec \in RequestState /\ rec.pc = "link" /\ rec.user = u
    BY <2>0, <1>q DEF RequestState
  <2>3. (UNCHANGED users \/ users' = [users EXCEPT ![u] = row]) /\ Goto(r, rec)
    BY <1>17 DEF SetEmail
  <2> HIDE DEF row, rec, u
  <2>4. UsersKept
    BY <2>0, <2>1, <2>3, UserChanges, UsersStay
  <2> QED
    BY <2>0, <2>2, <2>3, <2>4, SessionsStay, RequestMoves DEF UsersKept
<1>18. ASSUME NEW r \in Requests, LinkIdentity(r) PROVE AccountsInv'
  <2>n. PICK u \in UserIDs : u = request[r].user
    BY <1>18, <1>q DEF LinkIdentity, OfUser
  <2>x. PICK x \in Externals : x = request[r].ext
    BY <1>18, <1>q, RequestKinds DEF LinkIdentity
  <2> DEFINE rec == [pc |-> "session", user |-> u]
  <2>0. /\ identities' = IF identities[x] = 0 /\ u \in Existing THEN [identities EXCEPT ![x] = u] ELSE identities
        /\ Goto(r, rec) /\ UNCHANGED <<users, sessions, attempts>>
    BY <1>18, <2>n, <2>x DEF LinkIdentity
  <2>1. rec \in RequestState /\ rec.pc = "session" /\ rec.user = u /\ u \in Nat
    BY UserTyped DEF RequestState
  <2> HIDE DEF rec
  <2>2. /\ request' \in [Requests -> RequestState] /\ request'[r] = rec
        /\ \A y \in Requests : y # r => request'[y] = request[y]
        /\ GuessesBounded'
    BY <1>g, <2>0, <2>1
  <2>3. /\ identities' \in [Externals -> Nat]
        /\ \A y \in Externals : identities'[y] = identities[y] \/ (identities'[y] = u /\ u \in Existing)
    BY <1>r, <2>0, <2>1 DEF AccountsRows
  <2>4. AccountsRows'
    BY <1>r, <2>0, <2>2, <2>3 DEF AccountsRows
  <2>5. UserIDs' = UserIDs /\ SessionIDs' = SessionIDs /\ Existing' = Existing /\ NamesUnique'
    BY <2>0 DEF AccountsInv, NamesUnique, UserIDs, Existing, SessionIDs
  <2>6. UsersKnown' /\ NothingOutlivesUser'
    BY <2>0, <2>1, <2>2, <2>3, <2>5 DEF AccountsInv, UsersKnown, NothingOutlivesUser
  <2> QED
    BY <2>2, <2>4, <2>5, <2>6 DEF AccountsInv
<1> QED
  BY <1>1, <1>2, <1>3, <1>4, <1>5, <1>6, <1>7, <1>8, <1>9, <1>10, <1>11, <1>12, <1>13, <1>14, <1>15,
     <1>16, <1>17, <1>18 DEF AccountsNext

LEMMA AccountsInvariance == AccountsSpec => []AccountsInv
<1>1. AccountsInv /\ UNCHANGED acVars => AccountsInv'
  BY DEF AccountsInv, AccountsRows, UsersKnown, GuessesBounded, NothingOutlivesUser, NamesUnique,
         Checking, UserIDs, SessionIDs, Existing, acVars
<1> QED
  BY <1>1, AccountsInitInv, AccountsStep, PTL DEF AccountsSpec

\* Registrations, logins, password changes, removals and logins through a
\* provider in any interleaving: wrong passwords stay bounded, no session or
\* link outlives its user, and names stay unique.
THEOREM AccountsCorrect == AccountsSpec => []AccountsSafe
<1>1. AccountsInv => AccountsSafe
  <2> SUFFICES ASSUME AccountsInv PROVE AccountsSafe
    OBVIOUS
  <2>1. /\ \A u \in UserIDs : users[u] \in UserRow
        /\ \A s \in SessionIDs : sessions[s] \in SessionRow
    BY UserTyped, SessionTyped
  <2>2. AccountsTypeOK
    BY <2>1 DEF AccountsInv, AccountsRows, UsersKnown, AccountsTypeOK, UserRow, SessionRow, Attempt
  <2> QED
    BY <2>2 DEF AccountsSafe, AccountsInv
<1> QED
  BY <1>1, AccountsInvariance, PTL

-----------------------------------------------------------------------------
(* Channels.                                                               *)

ChannelRow == [exists : BOOLEAN, private : BOOLEAN, system : BOOLEAN]

ChannelCall ==
  [pc : {"idle"}]
  \union [pc : {"add", "accept"}, chan : ChNames, agent : ChAgents, role : {"member", "owner"}]
  \union [pc : {"remove", "invite"}, chan : ChNames, agent : ChAgents]
  \union [pc : {"kick"}, chan : ChNames, agent : ChAgents, by : ChAgents]
  \union [pc : {"members", "autojoin"}, chan : ChNames, agent : ChAgents, role : {"member"},
          mentions : SUBSET ChAgents]
  \union [pc : {"members"}, chan : ChNames, agent : ChAgents, mentions : SUBSET ChAgents]
  \union [pc : {"copies"}, chan : ChNames, agent : ChAgents, of : Nat, left : SUBSET ChAgents]

Post == [chan : ChNames, from : ChAgents, to : ChAgents \union {NoAddressee}, of : Nat]

ChannelsRows ==
  /\ channels \in [ChNames -> ChannelRow]
  /\ members \in [ChNames -> [ChAgents -> {"none", "member", "owner"}]]
  /\ invites \in [ChNames -> [ChAgents -> {"none", "pending", "accepted"}]]
  /\ chCalls \in [ChCalls -> ChannelCall]
  /\ chPosts \in Seq(Post)
  /\ admitted \in [ChNames -> SUBSET ChAgents]
  /\ removed \in [ChNames -> SUBSET ChAgents]
  /\ cut \in [ChNames -> SUBSET ChAgents]
  /\ orphan \in [ChNames -> BOOLEAN]

\* The states in which a call is going to add a member.
Joins == {"add", "accept", "autojoin"}

\* A call is about a channel that exists, and one that is going to add a member
\* of a private channel was let in and has not been kicked since.
CallSound(c) ==
  LET q == chCalls[c] IN
  /\ q.pc # "idle" => channels[q.chan].exists
  /\ q.pc = "autojoin" => ~channels[q.chan].private
  /\ q.pc \in Joins /\ channels[q.chan].private =>
       q.agent \in admitted[q.chan] /\ q.agent \notin removed[q.chan]

\* Invitations and memberships of a private channel come from an admission;
\* who was kicked has neither.
ChannelSound(n) ==
  /\ ~channels[n].exists => /\ removed[n] = {}
                            /\ \A a \in ChAgents : members[n][a] = "none" /\ invites[n][a] = "none"
  /\ \A a \in ChAgents : invites[n][a] # "none" => a \in admitted[n]
  /\ channels[n].private =>
       /\ \A a \in ChAgents : members[n][a] # "none" => a \in admitted[n]
       /\ \A a \in removed[n] : members[n][a] = "none" /\ invites[n][a] # "pending"

EntryInv == /\ \A c \in ChCalls : CallSound(c)
            /\ \A n \in ChNames : ChannelSound(n)

\* Who kicks is an owner, unless the channel has lost its owner.
KickersOwn ==
  \A c \in ChCalls : LET q == chCalls[c] IN
    q.pc = "kick" => q.by # q.agent /\ (IsOwner(q.chan, q.by) \/ orphan[q.chan])

\* An invitation that was taken: its call is about to add the member.
AcceptedAdds ==
  \A n \in ChNames, a \in ChAgents :
    invites[n][a] = "accepted" =>
      \/ IsMember(n, a) \/ a \in cut[n]
      \/ \E c \in ChCalls : chCalls[c].pc = "add" /\ chCalls[c].chan = n /\ chCalls[c].agent = a

\* What a broadcast has still to copy was not copied yet, and its channel
\* message is its own.
CopiesSound(c) ==
  LET q == chCalls[c] IN
  q.pc = "copies" =>
    /\ q.of \in 1..Len(chPosts) /\ q.agent \notin q.left
    /\ chPosts[q.of].to = NoAddressee /\ chPosts[q.of].chan = q.chan /\ chPosts[q.of].from = q.agent
    /\ \A i \in 1..Len(chPosts) : chPosts[i].of = q.of => chPosts[i].to \notin q.left
    /\ \A d \in ChCalls : d # c /\ chCalls[d].pc = "copies" => chCalls[d].of # q.of

PostsSound == /\ CopiesFaithful
              /\ \A i \in 1..Len(chPosts) : chPosts[i].of < i
              /\ \A c \in ChCalls : CopiesSound(c)

ChannelsInv == ChannelsRows /\ EntryInv /\ KickersOwn /\ HasOwner /\ AcceptedAdds /\ PostsSound

LEMMA ChannelsInitInv == ChannelsInit => ChannelsInv
<1> SUFFICES ASSUME ChannelsInit PROVE ChannelsInv
  OBVIOUS
<1> USE DEF ChannelsInit
<1>0. NoChannel \in ChannelRow /\ ~NoChannel.exists /\ ~NoChannel.private /\ Done \in ChannelCall /\ Done.pc = "idle"
  BY DEF NoChannel, ChannelRow, Done, ChannelCall
<1>1. ChannelsRows
  BY <1>0 DEF ChannelsRows
<1>2. EntryInv
  BY <1>0 DEF EntryInv, CallSound, ChannelSound, Joins
<1>3. KickersOwn /\ HasOwner /\ AcceptedAdds
  BY <1>0 DEF KickersOwn, HasOwner, AcceptedAdds, GetChannelByName
<1>4. PostsSound
  <2>1. chPosts = <<>> /\ \A c \in ChCalls : chCalls[c].pc = "idle"
    BY <1>0
  <2>2. 1..Len(chPosts) = {}
    BY <2>1
  <2>4. CopiesFaithful /\ \A i \in 1..Len(chPosts) : chPosts[i].of < i
    BY <2>2 DEF CopiesFaithful
  <2>3. \A c \in ChCalls : CopiesSound(c)
    BY <2>1 DEF CopiesSound
  <2> QED BY <2>3, <2>4 DEF PostsSound
<1> QED
  BY <1>1, <1>2, <1>3, <1>4 DEF ChannelsInv

\* What a call remembers, by what it is about to do.
LEMMA ChannelCallKinds ==
  ASSUME NEW q \in ChannelCall
  PROVE  /\ q.pc # "idle" => q.chan \in ChNames /\ q.agent \in ChAgents
         /\ q.pc \in {"add", "accept", "autojoin"} => q.role \in {"member", "owner"}
         /\ q.pc = "autojoin" => q.role = "member"
         /\ q.pc \in {"autojoin", "members"} => q.mentions \subseteq ChAgents
         /\ q.pc = "kick" => q.by \in ChAgents
         /\ q.pc = "copies" => q.of \in Nat /\ q.left \subseteq ChAgents
BY DEF ChannelCall

LEMMA StepMoves ==
  ASSUME ChannelsRows, NEW c \in ChCalls, NEW rec \in ChannelCall, Step(c, rec)
  PROVE  /\ chCalls' \in [ChCalls -> ChannelCall] /\ chCalls'[c] = rec
         /\ \A d \in ChCalls : d # c => chCalls'[d] = chCalls[d]
BY DEF ChannelsRows, Step

LEMMA DoneCall == Done \in ChannelCall /\ Done.pc = "idle"
BY DEF Done, ChannelCall

\* The rows of a channel that exists stay; history sets grow, except removed.
ChannelsKept ==
  \A n \in ChNames : /\ channels[n].exists => channels'[n] = channels[n]
                     /\ admitted[n] \subseteq admitted'[n]

\* A call that does not move stays sound, unless its agent is kicked.
LEMMA CallStaysSound ==
  ASSUME ChannelsInv, ChannelsKept, NEW d \in ChCalls, chCalls'[d] = chCalls[d],
         chCalls[d].pc \in Joins /\ channels[chCalls[d].chan].private
            /\ chCalls[d].agent \in removed'[chCalls[d].chan] => chCalls[d].agent \in removed[chCalls[d].chan]
  PROVE  CallSound(d)'
<1>1. chCalls[d] \in ChannelCall /\ CallSound(d)
  BY DEF ChannelsInv, ChannelsRows, EntryInv
<1>2. CASE chCalls[d].pc = "idle"
  BY <1>2 DEF CallSound, Joins
<1>3. CASE chCalls[d].pc # "idle"
  <2>1. chCalls[d].chan \in ChNames
    BY <1>1, <1>3, ChannelCallKinds
  <2>2. channels'[chCalls[d].chan] = channels[chCalls[d].chan]
    BY <1>1, <1>3, <2>1 DEF CallSound, ChannelsKept
  <2> QED
    BY <1>1, <1>3, <2>1, <2>2 DEF CallSound, ChannelsKept
<1> QED
  BY <1>2, <1>3

\* Posts are left alone and no broadcast begins to copy.
LEMMA PostsStay ==
  ASSUME ChannelsInv, UNCHANGED chPosts, NEW c \in ChCalls,
         \A d \in ChCalls : d # c => chCalls'[d] = chCalls[d], chCalls'[c].pc # "copies"
  PROVE  PostsSound'
<1>1. CopiesFaithful' /\ (\A i \in 1..Len(chPosts) : chPosts[i].of < i)'
  BY DEF ChannelsInv, PostsSound, CopiesFaithful
<1>2. ASSUME NEW d \in ChCalls PROVE CopiesSound(d)'
  <2>1. CASE d = c
    BY <2>1 DEF CopiesSound
  <2>2. CASE d # c
    <3>1. CopiesSound(d) /\ chCalls'[d] = chCalls[d]
      BY <2>2 DEF ChannelsInv, PostsSound
    <3> QED BY <3>1 DEF CopiesSound
  <2> QED BY <2>1, <2>2
<1> QED
  BY <1>1, <1>2 DEF PostsSound

\* A call decides something and writes nothing.
LEMMA OnlyDecides ==
  ASSUME ChannelsInv, NEW c \in ChCalls, NEW rec \in ChannelCall, Step(c, rec), chCalls[c].pc # "add",
         UNCHANGED <<channels, members, invites, chPosts, admitted, removed, cut, orphan>>,
         rec.pc # "copies", rec.pc # "idle" => channels[rec.chan].exists,
         rec.pc = "autojoin" => ~channels[rec.chan].private,
         rec.pc \in Joins /\ channels[rec.chan].private =>
            rec.agent \in admitted[rec.chan] /\ rec.agent \notin removed[rec.chan],
         rec.pc = "kick" => rec.by # rec.agent /\ IsOwner(rec.chan, rec.by)
  PROVE  ChannelsInv'
<1>1. /\ chCalls' \in [ChCalls -> ChannelCall] /\ chCalls'[c] = rec
      /\ \A d \in ChCalls : d # c => chCalls'[d] = chCalls[d]
  BY StepMoves DEF ChannelsInv
<1>2. ChannelsRows'
  BY <1>1 DEF ChannelsInv, ChannelsRows
<1>3. EntryInv'
  <2>1. ChannelsKept
    BY DEF ChannelsKept
  <2>2. CallSound(c)'
    BY <1>1 DEF CallSound
  <2>3. \A d \in ChCalls : d # c => CallSound(d)'
    BY <1>1, <2>1, CallStaysSound
  <2>4. \A n \in ChNames : ChannelSound(n)'
    BY DEF ChannelsInv, EntryInv, ChannelSound
  <2> QED
    BY <2>2, <2>3, <2>4 DEF EntryInv
<1>4. KickersOwn'
  BY <1>1 DEF ChannelsInv, KickersOwn, IsOwner
<1>5. HasOwner'
  BY <1>1 DEF ChannelsInv, HasOwner, IsOwner, GetChannelByName
<1>6. AcceptedAdds'
  BY <1>1 DEF ChannelsInv, AcceptedAdds, IsMember
<1>7. PostsSound'
  BY <1>1, PostsStay
<1> QED
  BY <1>2, <1>3, <1>4, <1>5, <1>6, <1>7 DEF ChannelsInv

LEMMA Decisions ==
  ASSUME ChannelsInv, NEW c \in ChCalls, NEW n \in ChNames, NEW a \in ChAgents
  PROVE  /\ JoinChannel(c, n, a) => ChannelsInv'
         /\ LeaveChannel(c, n, a) => ChannelsInv'
         /\ \A by \in ChAgents : /\ InviteToChannel(c, n, a, by) => ChannelsInv'
                                 /\ KickFromChannel(c, n, a, by) => ChannelsInv'
         /\ \A mentions \in {{}, ChAgents} : BroadcastMessage(c, n, a, mentions) => ChannelsInv'
         /\ BroadcastEnds(c) => ChannelsInv'
<1>n. ChannelSound(n) /\ channels[n].private \in BOOLEAN
  BY DEF ChannelsInv, EntryInv, ChannelsRows, ChannelRow
<1>1. ASSUME JoinChannel(c, n, a) PROVE ChannelsInv'
  <2> DEFINE rec == [pc |-> IF channels[n].private THEN "accept" ELSE "add", chan |-> n, agent |-> a, role |-> "member"]
  <2>1. rec \in ChannelCall /\ rec.pc \in {"accept", "add"} /\ rec.chan = n /\ rec.agent = a
    BY <1>n DEF ChannelCall
  <2>2. Step(c, rec) /\ UNCHANGED <<channels, members, invites, chPosts, admitted, removed, cut, orphan>>
        /\ channels[n].exists /\ (channels[n].private => invites[n][a] = "pending") /\ chCalls[c] = Done
    BY <1>1 DEF JoinChannel, HasPendingInvite, GetChannelByName
  <2> HIDE DEF rec
  <2>3. channels[n].private => a \in admitted[n] /\ a \notin removed[n]
    BY <1>n, <2>2 DEF ChannelSound
  <2> QED
    BY <2>1, <2>2, <2>3, DoneCall, OnlyDecides
<1>2. ASSUME LeaveChannel(c, n, a) PROVE ChannelsInv'
  <2> DEFINE rec == [pc |-> "remove", chan |-> n, agent |-> a]
  <2>1. rec \in ChannelCall /\ rec.pc = "remove" /\ rec.chan = n
    BY DEF ChannelCall
  <2>2. Step(c, rec) /\ UNCHANGED <<channels, members, invites, chPosts, admitted, removed, cut, orphan>>
        /\ channels[n].exists /\ chCalls[c] = Done
    BY <1>2 DEF LeaveChannel, GetChannelByName
  <2> HIDE DEF rec
  <2> QED
    BY <2>1, <2>2, DoneCall, OnlyDecides DEF Joins
<1>3. ASSUME NEW by \in ChAgents, InviteToChannel(c, n, a, by) PROVE ChannelsInv'
  <2> DEFINE rec == [pc |-> "invite", chan |-> n, agent |-> a]
  <2>1. rec \in ChannelCall /\ rec.pc = "invite" /\ rec.chan = n
    BY DEF ChannelCall
  <2>2. Step(c, rec) /\ UNCHANGED <<channels, members, invites, chPosts, admitted, removed, cut, orphan>>
        /\ channels[n].exists /\ chCalls[c] = Done
    BY <1>3 DEF InviteToChannel, GetChannelByName
  <2> HIDE DEF rec
  <2> QED
    BY <2>1, <2>2, DoneCall, OnlyDecides DEF Joins
<1>4. ASSUME NEW by \in ChAgents, KickFromChannel(c, n, a, by) PROVE ChannelsInv'
  <2> DEFINE rec == [pc |-> "kick", chan |-> n, agent |-> a, by |-> by]
  <2>1. rec \in ChannelCall /\ rec.pc = "kick" /\ rec.chan = n /\ rec.by = by /\ rec.agent = a
    BY DEF ChannelCall
  <2>2. Step(c, rec) /\ UNCHANGED <<channels, members, invites, chPosts, admitted, removed, cut, orphan>>
        /\ channels[n].exists /\ chCalls[c] = Done /\ IsOwner(n, by) /\ a # by
    BY <1>4 DEF KickFromChannel, GetChannelByName
  <2> HIDE DEF rec
  <2> QED
    BY <2>1, <2>2, DoneCall, OnlyDecides DEF Joins
<1>5. ASSUME NEW mentions \in {{}, ChAgents}, BroadcastMessage(c, n, a, mentions) PROVE ChannelsInv'
  <2> DEFINE rec == [pc |-> IF IsMember(n, a) THEN "members" ELSE "autojoin", chan |-> n,
                     agent |-> a, role |-> "member", mentions |-> mentions]
  <2>0. IsMember(n, a) \in BOOLEAN /\ mentions \subseteq ChAgents
    BY DEF IsMember
  <2>1. rec \in ChannelCall /\ rec.pc \in {"members", "autojoin"} /\ rec.chan = n /\ rec.agent = a
        /\ (rec.pc = "autojoin" => ~IsMember(n, a))
    BY <2>0 DEF ChannelCall
  <2>2. Step(c, rec) /\ UNCHANGED <<channels, members, invites, chPosts, admitted, removed, cut, orphan>>
        /\ channels[n].exists /\ chCalls[c] = Done /\ (IsMember(n, a) \/ ~channels[n].private)
    BY <1>5 DEF BroadcastMessage, GetChannelByName
  <2> HIDE DEF rec
  <2> QED
    BY <2>1, <2>2, DoneCall, OnlyDecides DEF Joins
<1>6. ASSUME BroadcastEnds(c) PROVE ChannelsInv'
  BY <1>6, DoneCall, OnlyDecides DEF BroadcastEnds, Joins
<1> QED
  BY <1>1, <1>2, <1>3, <1>4, <1>5, <1>6

\* Rows that a statement changes at one channel, or at one agent of it.
LEMMA RowOfChannel ==
  ASSUME NEW S, NEW f \in [ChNames -> S], NEW n \in ChNames, NEW v \in S
  PROVE  /\ [f EXCEPT ![n] = v] \in [ChNames -> S] /\ [f EXCEPT ![n] = v][n] = v
         /\ \A k \in ChNames : k # n => [f EXCEPT ![n] = v][k] = f[k]
OBVIOUS

LEMMA RowOfAgent ==
  ASSUME NEW S, NEW f \in [ChNames -> [ChAgents -> S]], NEW n \in ChNames, NEW a \in ChAgents, NEW v \in S
  PROVE  /\ [f EXCEPT ![n][a] = v] \in [ChNames -> [ChAgents -> S]] /\ [f EXCEPT ![n][a] = v][n][a] = v
         /\ \A k \in ChNames, b \in ChAgents : k # n \/ b # a => [f EXCEPT ![n][a] = v][k][b] = f[k][b]
OBVIOUS

LEMMA Creation ==
  ASSUME ChannelsInv, NEW c \in ChCalls, NEW n \in ChNames, NEW a \in ChAgents,
         NEW private \in BOOLEAN, NEW system \in BOOLEAN, CreateChannel(c, n, a, private, system)
  PROVE  ChannelsInv'
<1> DEFINE rec == [pc |-> "add", chan |-> n, agent |-> a, role |-> "owner"]
           row == [NoChannel EXCEPT !.exists = TRUE, !.private = private, !.system = system]
<1>1. rec \in ChannelCall /\ rec.pc = "add" /\ rec.chan = n /\ rec.agent = a /\ rec.role = "owner"
  BY DEF ChannelCall
<1>2. row \in ChannelRow /\ row.exists /\ row.private = private
  BY DEF NoChannel, ChannelRow
<1>3. /\ Step(c, rec) /\ chCalls[c] = Done /\ ~channels[n].exists
      /\ channels' = [channels EXCEPT ![n] = row] /\ admitted' = [admitted EXCEPT ![n] = @ \union {a}]
      /\ UNCHANGED <<members, invites, chPosts, removed, cut, orphan>>
  BY DEF CreateChannel, GetChannelByName, Admit
<1> HIDE DEF rec, row
<1>r. ChannelsRows /\ ChannelSound(n) /\ Done.pc = "idle"
  BY DoneCall DEF ChannelsInv, EntryInv
<1>m. /\ chCalls' \in [ChCalls -> ChannelCall] /\ chCalls'[c] = rec
      /\ \A d \in ChCalls : d # c => chCalls'[d] = chCalls[d]
  BY <1>1, <1>3, <1>r, StepMoves
<1>k. /\ channels' \in [ChNames -> ChannelRow] /\ channels'[n] = row
      /\ \A k \in ChNames : k # n => channels'[k] = channels[k]
      /\ admitted' \in [ChNames -> SUBSET ChAgents] /\ admitted'[n] = admitted[n] \union {a}
      /\ \A k \in ChNames : k # n => admitted'[k] = admitted[k]
  BY <1>2, <1>3, <1>r DEF ChannelsRows
<1>4. ChannelsRows'
  BY <1>r, <1>m, <1>k, <1>3 DEF ChannelsRows
<1>5. EntryInv'
  <2>1. ChannelsKept
    BY <1>3, <1>k DEF ChannelsKept
  <2>2. CallSound(c)'
    BY <1>m, <1>k, <1>1, <1>2, <1>3, <1>r DEF CallSound, ChannelSound
  <2>3. \A d \in ChCalls : d # c => CallSound(d)'
    BY <1>m, <1>3, <2>1, CallStaysSound
  <2>4. ASSUME NEW k \in ChNames PROVE ChannelSound(k)'
    <3>1. ChannelSound(k)
      BY DEF ChannelsInv, EntryInv
    <3>2. CASE k = n
      BY <3>1, <3>2, <1>k, <1>2, <1>3 DEF ChannelSound
    <3>3. CASE k # n
      BY <3>1, <3>3, <1>k, <1>3 DEF ChannelSound
    <3> QED BY <3>2, <3>3
  <2> QED
    BY <2>2, <2>3, <2>4 DEF EntryInv
<1>6. KickersOwn'
  BY <1>m, <1>1, <1>3 DEF ChannelsInv, KickersOwn, IsOwner
<1>7. HasOwner'
  BY <1>m, <1>1, <1>3, <1>k, <1>r DEF ChannelsInv, HasOwner, IsOwner, GetChannelByName
<1>8. AcceptedAdds'
  BY <1>m, <1>1, <1>3, <1>r DEF ChannelsInv, AcceptedAdds, IsMember
<1>9. PostsSound'
  BY <1>m, <1>1, <1>3, PostsStay
<1> QED
  BY <1>4, <1>5, <1>6, <1>7, <1>8, <1>9 DEF ChannelsInv

\* EnsureMyAgentsChannel, JoinMyAgentsChannel: the user's agents come back.
LEMMA Readmission ==
  ASSUME ChannelsInv, NEW c \in ChCalls, NEW n \in ChNames, NEW a \in ChAgents, NEW role \in {"member", "owner"},
         chCalls[c] = Done, GetChannelByName(n),
         Step(c, [pc |-> "add", chan |-> n, agent |-> a, role |-> role]), Admit(n, a),
         removed' = [removed EXCEPT ![n] = @ \ {a}],
         UNCHANGED <<channels, members, invites, chPosts, cut, orphan>>
  PROVE  ChannelsInv'
<1> DEFINE rec == [pc |-> "add", chan |-> n, agent |-> a, role |-> role]
<1>1. rec \in ChannelCall /\ rec.pc = "add" /\ rec.chan = n /\ rec.agent = a
  BY DEF ChannelCall
<1>3. Step(c, rec)
  OBVIOUS
<1> HIDE DEF rec
<1>r. ChannelsRows /\ Done.pc = "idle" /\ channels[n].exists
  BY DoneCall DEF ChannelsInv, GetChannelByName
<1>m. /\ chCalls' \in [ChCalls -> ChannelCall] /\ chCalls'[c] = rec
      /\ \A d \in ChCalls : d # c => chCalls'[d] = chCalls[d]
  BY <1>1, <1>3, <1>r, StepMoves
<1>k. /\ admitted' \in [ChNames -> SUBSET ChAgents] /\ admitted'[n] = admitted[n] \union {a}
      /\ \A k \in ChNames : k # n => admitted'[k] = admitted[k]
      /\ removed' \in [ChNames -> SUBSET ChAgents] /\ removed'[n] = removed[n] \ {a}
      /\ \A k \in ChNames : k # n => removed'[k] = removed[k]
  BY <1>r DEF ChannelsRows, Admit
<1>4. ChannelsRows'
  BY <1>r, <1>m, <1>k DEF ChannelsRows
<1>5. EntryInv'
  <2>1. ChannelsKept
    BY <1>k DEF ChannelsKept
  <2>2. CallSound(c)'
    BY <1>m, <1>k, <1>1, <1>r DEF CallSound
  <2>3. ASSUME NEW d \in ChCalls, d # c PROVE CallSound(d)'
    <3>1. chCalls[d] \in ChannelCall
      BY <1>r DEF ChannelsRows
    <3>2. chCalls[d].pc \in Joins => chCalls[d].chan \in ChNames
      BY <3>1, ChannelCallKinds DEF Joins
    <3>3. \A k \in ChNames : removed'[k] \subseteq removed[k]
      BY <1>k
    <3> QED BY <1>m, <2>1, <2>3, <3>2, <3>3, CallStaysSound
  <2>4. ASSUME NEW k \in ChNames PROVE ChannelSound(k)'
    <3>1. ChannelSound(k)
      BY DEF ChannelsInv, EntryInv
    <3>2. admitted[k] \subseteq admitted'[k] /\ removed'[k] \subseteq removed[k]
      BY <1>k
    <3> QED BY <3>1, <3>2 DEF ChannelSound
  <2> QED
    BY <2>2, <2>3, <2>4 DEF EntryInv
<1>6. KickersOwn'
  BY <1>m, <1>1 DEF ChannelsInv, KickersOwn, IsOwner
<1>7. HasOwner'
  BY <1>m, <1>1, <1>r DEF ChannelsInv, HasOwner, IsOwner, GetChannelByName
<1>8. AcceptedAdds'
  BY <1>m, <1>1, <1>r DEF ChannelsInv, AcceptedAdds, IsMember
<1>9. PostsSound'
  BY <1>m, <1>1, PostsStay
<1> QED
  BY <1>4, <1>5, <1>6, <1>7, <1>8, <1>9 DEF ChannelsInv

LEMMA MemberAdded ==
  ASSUME ChannelsInv, NEW c \in ChCalls, AddDecided(c)
  PROVE  ChannelsInv'
<1>q. chCalls[c] \in ChannelCall /\ chCalls[c].pc \in {"add", "autojoin"} /\ CallSound(c) /\ ChannelsRows
  BY DEF ChannelsInv, ChannelsRows, EntryInv, AddDecided
<1>n. PICK n \in ChNames : n = chCalls[c].chan
  BY <1>q, ChannelCallKinds
<1>a. PICK a \in ChAgents : a = chCalls[c].agent
  BY <1>q, ChannelCallKinds
<1>o. PICK role \in {"member", "owner"} : role = chCalls[c].role
  BY <1>q, ChannelCallKinds
<1> DEFINE rec == IF chCalls[c].pc = "add" THEN Done
                  ELSE [pc |-> "members", chan |-> n, agent |-> a, mentions |-> chCalls[c].mentions]
<1>1. /\ rec \in ChannelCall /\ rec.pc \in {"idle", "members"}
      /\ rec.pc = "members" => rec.chan = n
  <2>1. CASE chCalls[c].pc = "add"
    BY <2>1, DoneCall
  <2>2. CASE chCalls[c].pc = "autojoin"
    <3>1. chCalls[c].mentions \subseteq ChAgents
      BY <1>q, <2>2, ChannelCallKinds
    <3> QED BY <2>2, <3>1 DEF ChannelCall
  <2> QED BY <1>q, <2>1, <2>2
<1>3. /\ Step(c, rec)
      /\ members' = [members EXCEPT ![n][a] = IF @ = "none" THEN role ELSE @]
      /\ orphan' = [orphan EXCEPT ![n] = @ \/ (role = "owner" /\ members[n][a] # "none")]
      /\ UNCHANGED <<channels, invites, chPosts, admitted, removed, cut>>
  BY <1>q, <1>n, <1>a, <1>o DEF AddDecided, AddMember, IsMember
<1> HIDE DEF rec
<1>m. /\ chCalls' \in [ChCalls -> ChannelCall] /\ chCalls'[c] = rec
      /\ \A d \in ChCalls : d # c => chCalls'[d] = chCalls[d]
  BY <1>1, <1>3, <1>q, StepMoves
<1>k. /\ members' \in [ChNames -> [ChAgents -> {"none", "member", "owner"}]]
      /\ members'[n][a] = IF members[n][a] = "none" THEN role ELSE members[n][a]
      /\ members'[n][a] # "none"
      /\ \A k \in ChNames, b \in ChAgents : k # n \/ b # a => members'[k][b] = members[k][b]
  <2>1. members \in [ChNames -> [ChAgents -> {"none", "member", "owner"}]]
    BY <1>q DEF ChannelsRows
  <2>2. members[n][a] \in {"none", "member", "owner"}
    BY <2>1
  <2> QED BY <1>3, <2>1, <2>2
<1>p. /\ orphan' \in [ChNames -> BOOLEAN] /\ \A k \in ChNames : orphan[k] => orphan'[k]
      /\ role = "owner" /\ members[n][a] # "none" => orphan'[n]
  BY <1>3, <1>q DEF ChannelsRows
<1>4. ChannelsRows'
  BY <1>q, <1>m, <1>k, <1>p, <1>3 DEF ChannelsRows
<1>5. EntryInv'
  <2>1. ChannelsKept
    BY <1>3 DEF ChannelsKept
  <2>2. CallSound(c)'
    BY <1>m, <1>1, <1>3, <1>q, <1>n DEF CallSound, Joins
  <2>3. \A d \in ChCalls : d # c => CallSound(d)'
    BY <1>m, <1>3, <2>1, CallStaysSound
  <2>4. ASSUME NEW k \in ChNames PROVE ChannelSound(k)'
    <3>1. ChannelSound(k)
      BY DEF ChannelsInv, EntryInv
    <3>2. CASE k = n
      <4>1. /\ channels[n].exists
            /\ channels[n].private => a \in admitted[n] /\ a \notin removed[n]
        BY <1>q, <1>n, <1>a DEF CallSound, Joins
      <4> QED BY <3>1, <3>2, <4>1, <1>k, <1>3 DEF ChannelSound
    <3>3. CASE k # n
      BY <3>1, <3>3, <1>k, <1>3 DEF ChannelSound
    <3> QED BY <3>2, <3>3
  <2> QED
    BY <2>2, <2>3, <2>4 DEF EntryInv
<1>o2. \A k \in ChNames, b \in ChAgents : /\ IsOwner(k, b) => IsOwner(k, b)'
                                          /\ IsMember(k, b) => IsMember(k, b)'
  BY <1>k DEF IsOwner, IsMember
<1>6. KickersOwn'
  <2> SUFFICES ASSUME NEW d \in ChCalls, chCalls'[d].pc = "kick"
               PROVE  chCalls'[d].by # chCalls'[d].agent
                      /\ (IsOwner(chCalls[d].chan, chCalls[d].by)' \/ orphan'[chCalls'[d].chan])
    BY DEF KickersOwn
  <2>1. d # c /\ chCalls'[d] = chCalls[d]
    BY <1>m, <1>1
  <2>2. chCalls[d].chan \in ChNames /\ chCalls[d].by \in ChAgents
    BY <2>1, <1>q, ChannelCallKinds DEF ChannelsRows
  <2>3. chCalls[d].by # chCalls[d].agent /\ (IsOwner(chCalls[d].chan, chCalls[d].by) \/ orphan[chCalls[d].chan])
    BY <2>1 DEF ChannelsInv, KickersOwn
  <2> QED BY <2>1, <2>2, <2>3, <1>k, <1>p DEF IsOwner
<1>7. HasOwner'
  <2> SUFFICES ASSUME NEW k \in ChNames, channels'[k].exists
               PROVE  \/ \E b \in ChAgents : IsOwner(k, b)'
                      \/ \E d \in ChCalls : chCalls'[d].pc = "add" /\ chCalls'[d].chan = k /\ chCalls'[d].role = "owner"
                      \/ orphan'[k]
    BY DEF HasOwner, GetChannelByName
  <2>1. \/ \E b \in ChAgents : IsOwner(k, b)
        \/ \E d \in ChCalls : chCalls[d].pc = "add" /\ chCalls[d].chan = k /\ chCalls[d].role = "owner"
        \/ orphan[k]
    BY <1>3 DEF ChannelsInv, HasOwner, GetChannelByName
  <2>2. CASE \E d \in ChCalls \ {c} : chCalls[d].pc = "add" /\ chCalls[d].chan = k /\ chCalls[d].role = "owner"
    BY <2>2, <1>m
  <2>3. CASE n = k /\ role = "owner"
    BY <2>3, <1>k, <1>p DEF IsOwner
  <2> QED BY <2>1, <2>2, <2>3, <1>o2, <1>p, <1>n, <1>o
<1>8. AcceptedAdds'
  <2> SUFFICES ASSUME NEW k \in ChNames, NEW b \in ChAgents, invites'[k][b] = "accepted"
               PROVE  \/ IsMember(k, b)' \/ b \in cut'[k]
                      \/ \E d \in ChCalls : chCalls'[d].pc = "add" /\ chCalls'[d].chan = k /\ chCalls'[d].agent = b
    BY DEF AcceptedAdds
  <2>1. \/ IsMember(k, b) \/ b \in cut[k]
        \/ \E d \in ChCalls : chCalls[d].pc = "add" /\ chCalls[d].chan = k /\ chCalls[d].agent = b
    BY <1>3 DEF ChannelsInv, AcceptedAdds
  <2>2. CASE n = k /\ a = b
    BY <2>2, <1>k DEF IsMember
  <2> QED BY <2>1, <2>2, <1>m, <1>n, <1>a, <1>3, <1>o2
<1>9. PostsSound'
  BY <1>m, <1>1, <1>3, PostsStay
<1> QED
  BY <1>4, <1>5, <1>6, <1>7, <1>8, <1>9 DEF ChannelsInv

LEMMA InviteAccepted ==
  ASSUME ChannelsInv, NEW c \in ChCalls, AcceptInvite(c)
  PROVE  ChannelsInv'
<1>q. chCalls[c] \in ChannelCall /\ chCalls[c].pc = "accept" /\ CallSound(c) /\ ChannelsRows
  BY DEF ChannelsInv, ChannelsRows, EntryInv, AcceptInvite
<1>n. PICK n \in ChNames : n = chCalls[c].chan
  BY <1>q, ChannelCallKinds
<1>a. PICK a \in ChAgents : a = chCalls[c].agent
  BY <1>q, ChannelCallKinds
<1>0. CASE ~HasPendingInvite(chCalls[c].chan, chCalls[c].agent)
  BY <1>0, <1>q, DoneCall, OnlyDecides DEF AcceptInvite, Joins
<1>p. SUFFICES ASSUME HasPendingInvite(chCalls[c].chan, chCalls[c].agent) PROVE ChannelsInv'
  BY <1>0
<1> DEFINE rec == [chCalls[c] EXCEPT !.pc = "add"]
<1>1. rec \in ChannelCall /\ rec.pc = "add" /\ rec.chan = n /\ rec.agent = a
  BY <1>q, <1>n, <1>a DEF ChannelCall
<1>3. /\ Step(c, rec)
      /\ invites' = [invites EXCEPT ![n][a] = "accepted"] /\ invites[n][a] = "pending"
      /\ UNCHANGED <<channels, members, chPosts, admitted, removed, cut, orphan>>
  BY <1>q, <1>p, <1>n, <1>a DEF AcceptInvite, HasPendingInvite
<1> HIDE DEF rec
<1>m. /\ chCalls' \in [ChCalls -> ChannelCall] /\ chCalls'[c] = rec
      /\ \A d \in ChCalls : d # c => chCalls'[d] = chCalls[d]
  BY <1>1, <1>3, <1>q, StepMoves
<1>k. /\ invites' \in [ChNames -> [ChAgents -> {"none", "pending", "accepted"}]]
      /\ invites'[n][a] = "accepted"
      /\ \A k \in ChNames, b \in ChAgents : k # n \/ b # a => invites'[k][b] = invites[k][b]
  <2>1. invites \in [ChNames -> [ChAgents -> {"none", "pending", "accepted"}]]
    BY <1>q DEF ChannelsRows
  <2>2. invites[n][a] \in {"none", "pending", "accepted"}
    BY <2>1
  <2> QED BY <1>3, <2>1, <2>2
<1>4. ChannelsRows'
  BY <1>q, <1>m, <1>k, <1>3 DEF ChannelsRows
<1>5. EntryInv'
  <2>1. ChannelsKept
    BY <1>3 DEF ChannelsKept
  <2>2. CallSound(c)'
    BY <1>m, <1>1, <1>3, <1>q, <1>n, <1>a DEF CallSound, Joins
  <2>3. \A d \in ChCalls : d # c => CallSound(d)'
    BY <1>m, <1>3, <2>1, CallStaysSound
  <2>4. ASSUME NEW k \in ChNames PROVE ChannelSound(k)'
    <3>1. ChannelSound(k)
      BY DEF ChannelsInv, EntryInv
    <3>2. \A b \in ChAgents : /\ (invites'[k][b] # "none") => (invites[k][b] # "none")
                              /\ invites'[k][b] = "pending" => invites[k][b] = "pending"
      <4> TAKE b \in ChAgents
      <4>1. CASE k = n /\ b = a
        BY <4>1, <1>k, <1>3
      <4>2. CASE k # n \/ b # a
        BY <4>2, <1>k
      <4> QED BY <4>1, <4>2
    <3> QED BY <3>1, <3>2, <1>3 DEF ChannelSound
  <2> QED
    BY <2>2, <2>3, <2>4 DEF EntryInv
<1>6. KickersOwn'
  BY <1>m, <1>1, <1>3 DEF ChannelsInv, KickersOwn, IsOwner
<1>7. HasOwner'
  BY <1>m, <1>1, <1>3, <1>q DEF ChannelsInv, HasOwner, IsOwner, GetChannelByName
<1>8. AcceptedAdds'
  BY <1>m, <1>k, <1>1, <1>3, <1>q DEF ChannelsInv, AcceptedAdds, IsMember
<1>9. PostsSound'
  BY <1>m, <1>1, <1>3, PostsStay
<1> QED
  BY <1>4, <1>5, <1>6, <1>7, <1>8, <1>9 DEF ChannelsInv

LEMMA InviteCreated ==
  ASSUME ChannelsInv, NEW c \in ChCalls, CreateInvite(c)
  PROVE  ChannelsInv'
<1>q. chCalls[c] \in ChannelCall /\ chCalls[c].pc = "invite" /\ CallSound(c) /\ ChannelsRows
  BY DEF ChannelsInv, ChannelsRows, EntryInv, CreateInvite
<1>n. PICK n \in ChNames : n = chCalls[c].chan
  BY <1>q, ChannelCallKinds
<1>a. PICK a \in ChAgents : a = chCalls[c].agent
  BY <1>q, ChannelCallKinds
<1>3. /\ Step(c, Done)
      /\ invites' = [invites EXCEPT ![n][a] = "pending"]
      /\ removed' = [removed EXCEPT ![n] = @ \ {a}] /\ admitted' = [admitted EXCEPT ![n] = @ \union {a}]
      /\ UNCHANGED <<channels, members, chPosts, cut, orphan>>
  BY <1>q, <1>n, <1>a DEF CreateInvite, Admit
<1>e. channels[n].exists
  BY <1>q, <1>n DEF CallSound
<1>m. /\ chCalls' \in [ChCalls -> ChannelCall] /\ chCalls'[c] = Done /\ Done.pc = "idle"
      /\ \A d \in ChCalls : d # c => chCalls'[d] = chCalls[d]
  BY DoneCall, <1>3, <1>q, StepMoves
<1>k. /\ invites' \in [ChNames -> [ChAgents -> {"none", "pending", "accepted"}]]
      /\ invites'[n][a] = "pending"
      /\ \A k \in ChNames, b \in ChAgents : k # n \/ b # a => invites'[k][b] = invites[k][b]
  BY <1>3, <1>q DEF ChannelsRows
<1>h. /\ admitted' \in [ChNames -> SUBSET ChAgents] /\ admitted'[n] = admitted[n] \union {a}
      /\ \A k \in ChNames : k # n => admitted'[k] = admitted[k]
      /\ removed' \in [ChNames -> SUBSET ChAgents] /\ removed'[n] = removed[n] \ {a}
      /\ \A k \in ChNames : k # n => removed'[k] = removed[k]
  BY <1>3, <1>q DEF ChannelsRows
<1>4. ChannelsRows'
  BY <1>q, <1>m, <1>k, <1>h, <1>3 DEF ChannelsRows
<1>5. EntryInv'
  <2>1. ChannelsKept
    BY <1>3, <1>h DEF ChannelsKept
  <2>2. CallSound(c)'
    BY <1>m DEF CallSound, Joins
  <2>3. ASSUME NEW d \in ChCalls, d # c PROVE CallSound(d)'
    <3>2. chCalls[d].pc \in Joins => chCalls[d].chan \in ChNames
      BY <1>q, ChannelCallKinds DEF Joins, ChannelsRows
    <3>3. \A k \in ChNames : removed'[k] \subseteq removed[k]
      BY <1>h
    <3> QED BY <1>m, <2>1, <2>3, <3>2, <3>3, CallStaysSound
  <2>4. ASSUME NEW k \in ChNames PROVE ChannelSound(k)'
    <3>1. ChannelSound(k)
      BY DEF ChannelsInv, EntryInv
    <3>2. CASE k = n
      BY <3>1, <3>2, <1>k, <1>h, <1>e, <1>3 DEF ChannelSound
    <3>3. CASE k # n
      BY <3>1, <3>3, <1>k, <1>h, <1>3 DEF ChannelSound
    <3> QED BY <3>2, <3>3
  <2> QED
    BY <2>2, <2>3, <2>4 DEF EntryInv
<1>6. KickersOwn'
  BY <1>m, <1>3 DEF ChannelsInv, KickersOwn, IsOwner
<1>7. HasOwner'
  BY <1>m, <1>3, <1>q DEF ChannelsInv, HasOwner, IsOwner, GetChannelByName
<1>8. AcceptedAdds'
  BY <1>m, <1>k, <1>3, <1>q DEF ChannelsInv, AcceptedAdds, IsMember
<1>9. PostsSound'
  BY <1>m, <1>3, PostsStay
<1> QED
  BY <1>4, <1>5, <1>6, <1>7, <1>8, <1>9 DEF ChannelsInv

LEMMA MemberRemoved ==
  ASSUME ChannelsInv, NEW c \in ChCalls, RemoveDecided(c)
  PROVE  ChannelsInv'
<1>q. chCalls[c] \in ChannelCall /\ chCalls[c].pc \in {"remove", "kick"} /\ CallSound(c) /\ ChannelsRows
  BY DEF ChannelsInv, ChannelsRows, EntryInv, RemoveDecided
<1>n. PICK n \in ChNames : n = chCalls[c].chan
  BY <1>q, ChannelCallKinds
<1>a. PICK a \in ChAgents : a = chCalls[c].agent
  BY <1>q, ChannelCallKinds
<1>3. /\ Step(c, Done)
      /\ members' = [members EXCEPT ![n][a] = "none"]
      /\ cut' = [cut EXCEPT ![n] = @ \union {a}]
      /\ UNCHANGED <<channels, invites, chPosts, admitted>>
  BY <1>q, <1>n, <1>a DEF RemoveDecided, RemoveMember
<1>r. \/ removed' = removed
      \/ /\ removed' = [removed EXCEPT ![n] = @ \union {a}] /\ invites[n][a] # "pending"
         /\ ~ \E d \in ChCalls \ {c} : chCalls[d].pc # "idle" /\ chCalls[d].chan = n /\ chCalls[d].agent = a
  <2> DEFINE others == \E d \in ChCalls \ {c} : chCalls[d].pc # "idle" /\ chCalls[d].chan = n /\ chCalls[d].agent = a
  <2>1. removed' = IF chCalls[c].pc = "kick" /\ IsMember(n, a) /\ ~others /\ invites[n][a] # "pending"
                   THEN [removed EXCEPT ![n] = @ \union {a}] ELSE removed
    BY <1>n, <1>a DEF RemoveDecided, HasPendingInvite
  <2> QED BY <2>1
<1>o. orphan' = [orphan EXCEPT ![n] =
                     \/ @ \/ (chCalls[c].pc = "remove" /\ members[n][a] = "owner")
                     \/ \E d \in ChCalls : chCalls[d].pc = "kick" /\ chCalls[d].chan = n /\ chCalls[d].by = a]
  BY <1>n, <1>a DEF RemoveDecided, IsOwner
<1>e. channels[n].exists
  BY <1>q, <1>n DEF CallSound
<1>m. /\ chCalls' \in [ChCalls -> ChannelCall] /\ chCalls'[c] = Done /\ Done.pc = "idle"
      /\ \A d \in ChCalls : d # c => chCalls'[d] = chCalls[d]
  BY DoneCall, <1>3, <1>q, StepMoves
<1>k. /\ members' \in [ChNames -> [ChAgents -> {"none", "member", "owner"}]]
      /\ members'[n][a] = "none"
      /\ \A k \in ChNames, b \in ChAgents : k # n \/ b # a => members'[k][b] = members[k][b]
  BY <1>3, <1>q DEF ChannelsRows
<1>p. /\ orphan' \in [ChNames -> BOOLEAN] /\ \A k \in ChNames : orphan[k] => orphan'[k]
      /\ chCalls[c].pc = "remove" /\ members[n][a] = "owner" => orphan'[n]
      /\ \A d \in ChCalls : chCalls[d].pc = "kick" /\ chCalls[d].chan = n /\ chCalls[d].by = a => orphan'[n]
  BY <1>o, <1>q DEF ChannelsRows
<1>h. /\ removed' \in [ChNames -> SUBSET ChAgents] /\ cut' \in [ChNames -> SUBSET ChAgents]
      /\ \A k \in ChNames : k # n => removed'[k] = removed[k] /\ cut'[k] = cut[k]
      /\ cut'[n] = cut[n] \union {a}
      /\ \A b \in removed'[n] : b \in removed[n] \/ b = a
      /\ a \in removed'[n] /\ a \notin removed[n] =>
           /\ invites[n][a] # "pending"
           /\ ~ \E d \in ChCalls \ {c} : chCalls[d].pc # "idle" /\ chCalls[d].chan = n /\ chCalls[d].agent = a
  <2> DEFINE others == \E d \in ChCalls \ {c} : chCalls[d].pc # "idle" /\ chCalls[d].chan = n /\ chCalls[d].agent = a
  <2>0. removed \in [ChNames -> SUBSET ChAgents] /\ cut \in [ChNames -> SUBSET ChAgents]
    BY <1>q DEF ChannelsRows
  <2>r. \/ removed' = removed
        \/ removed' = [removed EXCEPT ![n] = @ \union {a}] /\ invites[n][a] # "pending" /\ ~others
    BY <1>r
  <2> HIDE DEF others
  <2>1. /\ cut' \in [ChNames -> SUBSET ChAgents] /\ \A k \in ChNames : k # n => cut'[k] = cut[k]
        /\ cut'[n] = cut[n] \union {a}
    BY <2>0, <1>3
  <2>2. /\ removed' \in [ChNames -> SUBSET ChAgents] /\ \A k \in ChNames : k # n => removed'[k] = removed[k]
        /\ \A b \in removed'[n] : b \in removed[n] \/ b = a
        /\ a \in removed'[n] /\ a \notin removed[n] => invites[n][a] # "pending" /\ ~others
    BY <2>0, <2>r
  <2> QED BY <2>1, <2>2 DEF others
<1>4. ChannelsRows'
  BY <1>q, <1>m, <1>k, <1>h, <1>p, <1>3 DEF ChannelsRows
<1>5. EntryInv'
  <2>1. ChannelsKept
    BY <1>3 DEF ChannelsKept
  <2>2. CallSound(c)'
    BY <1>m DEF CallSound, Joins
  <2>3. ASSUME NEW d \in ChCalls, d # c PROVE CallSound(d)'
    <3>2. chCalls[d].pc \in Joins => chCalls[d].chan \in ChNames /\ chCalls[d].pc # "idle"
      BY <1>q, ChannelCallKinds DEF Joins, ChannelsRows
    <3>3. chCalls[d].pc \in Joins /\ chCalls[d].agent \in removed'[chCalls[d].chan]
            => chCalls[d].agent \in removed[chCalls[d].chan]
      BY <1>h, <2>3, <3>2
    <3> QED BY <1>m, <2>1, <2>3, <3>3, CallStaysSound
  <2>4. ASSUME NEW k \in ChNames PROVE ChannelSound(k)'
    <3>1. ChannelSound(k)
      BY DEF ChannelsInv, EntryInv
    <3>2. CASE k = n
      BY <3>1, <3>2, <1>k, <1>h, <1>e, <1>3 DEF ChannelSound
    <3>3. CASE k # n
      BY <3>1, <3>3, <1>k, <1>h, <1>3 DEF ChannelSound
    <3> QED BY <3>2, <3>3
  <2> QED
    BY <2>2, <2>3, <2>4 DEF EntryInv
<1>6. KickersOwn'
  <2> SUFFICES ASSUME NEW d \in ChCalls, chCalls'[d].pc = "kick"
               PROVE  chCalls'[d].by # chCalls'[d].agent
                      /\ (members'[chCalls'[d].chan][chCalls'[d].by] = "owner" \/ orphan'[chCalls'[d].chan])
    BY DEF KickersOwn, IsOwner
  <2>1. d # c /\ chCalls'[d] = chCalls[d]
    BY <1>m
  <2>2. chCalls[d].chan \in ChNames /\ chCalls[d].by \in ChAgents
    BY <2>1, <1>q, ChannelCallKinds DEF ChannelsRows
  <2>3. chCalls[d].by # chCalls[d].agent
        /\ (members[chCalls[d].chan][chCalls[d].by] = "owner" \/ orphan[chCalls[d].chan])
    BY <2>1 DEF ChannelsInv, KickersOwn, IsOwner
  <2>4. CASE chCalls[d].chan = n /\ chCalls[d].by = a
    BY <2>4, <2>1, <2>3, <1>p
  <2>5. CASE ~(chCalls[d].chan = n /\ chCalls[d].by = a)
    BY <2>5, <2>1, <2>2, <2>3, <1>k, <1>p
  <2> QED BY <2>4, <2>5
<1>7. HasOwner'
  <2> SUFFICES ASSUME NEW k \in ChNames, channels'[k].exists
               PROVE  \/ \E b \in ChAgents : members'[k][b] = "owner"
                      \/ \E d \in ChCalls : chCalls'[d].pc = "add" /\ chCalls'[d].chan = k /\ chCalls'[d].role = "owner"
                      \/ orphan'[k]
    BY DEF HasOwner, GetChannelByName, IsOwner
  <2>1. \/ \E b \in ChAgents : members[k][b] = "owner"
        \/ \E d \in ChCalls : chCalls[d].pc = "add" /\ chCalls[d].chan = k /\ chCalls[d].role = "owner"
        \/ orphan[k]
    BY <1>3 DEF ChannelsInv, HasOwner, GetChannelByName, IsOwner
  <2>2. CASE \E d \in ChCalls : chCalls[d].pc = "add" /\ chCalls[d].chan = k /\ chCalls[d].role = "owner"
    BY <2>2, <1>m, <1>q
  <2>3. CASE orphan[k]
    BY <2>3, <1>p
  <2>4. ASSUME NEW b \in ChAgents, members[k][b] = "owner", k = n, b = a
        PROVE  (\E x \in ChAgents : members'[k][x] = "owner") \/ orphan'[k]
    <3>1. CASE chCalls[c].pc = "remove"
      BY <2>4, <3>1, <1>p
    <3>2. CASE chCalls[c].pc = "kick"
      <4>1. /\ chCalls[c].by \in ChAgents /\ chCalls[c].by # a
            /\ members[n][chCalls[c].by] = "owner" \/ orphan[n]
        BY <3>2, <1>q, <1>n, <1>a, ChannelCallKinds DEF ChannelsInv, KickersOwn, IsOwner
      <4> QED BY <2>4, <4>1, <1>k, <1>p
    <3> QED BY <3>1, <3>2, <1>q
  <2> QED BY <2>1, <2>2, <2>3, <2>4, <1>k
<1>8. AcceptedAdds'
  <2> SUFFICES ASSUME NEW k \in ChNames, NEW b \in ChAgents, invites'[k][b] = "accepted"
               PROVE  \/ members'[k][b] # "none" \/ b \in cut'[k]
                      \/ \E d \in ChCalls : chCalls'[d].pc = "add" /\ chCalls'[d].chan = k /\ chCalls'[d].agent = b
    BY DEF AcceptedAdds, IsMember
  <2>1. \/ members[k][b] # "none" \/ b \in cut[k]
        \/ \E d \in ChCalls : chCalls[d].pc = "add" /\ chCalls[d].chan = k /\ chCalls[d].agent = b
    BY <1>3 DEF ChannelsInv, AcceptedAdds, IsMember
  <2> QED BY <2>1, <1>m, <1>q, <1>k, <1>h
<1>9. PostsSound'
  BY <1>m, <1>3, PostsStay
<1> QED
  BY <1>4, <1>5, <1>6, <1>7, <1>8, <1>9 DEF ChannelsInv

LEMMA CallFailed ==
  ASSUME ChannelsInv, NEW c \in ChCalls, CallFails(c)
  PROVE  ChannelsInv'
<1>q. chCalls[c] \in ChannelCall /\ chCalls[c].pc # "idle" /\ ChannelsRows
  BY DEF ChannelsInv, ChannelsRows, CallFails
<1>n. PICK n \in ChNames : n = chCalls[c].chan
  BY <1>q, ChannelCallKinds
<1>a. PICK a \in ChAgents : a = chCalls[c].agent
  BY <1>q, ChannelCallKinds
<1>3. /\ Step(c, Done)
      /\ cut' = IF chCalls[c].pc \in {"accept", "add"} THEN [cut EXCEPT ![n] = @ \union {a}] ELSE cut
      /\ orphan' = [orphan EXCEPT ![n] = @ \/ (chCalls[c].pc = "add" /\ chCalls[c].role = "owner")]
      /\ UNCHANGED <<channels, members, invites, chPosts, admitted, removed>>
  BY <1>q, <1>n, <1>a DEF CallFails
<1>m. /\ chCalls' \in [ChCalls -> ChannelCall] /\ chCalls'[c] = Done /\ Done.pc = "idle"
      /\ \A d \in ChCalls : d # c => chCalls'[d] = chCalls[d]
  BY DoneCall, <1>3, <1>q, StepMoves
<1>p. /\ orphan' \in [ChNames -> BOOLEAN] /\ \A k \in ChNames : orphan[k] => orphan'[k]
      /\ chCalls[c].pc = "add" /\ chCalls[c].role = "owner" => orphan'[n]
  BY <1>3, <1>q DEF ChannelsRows
<1>h. /\ cut' \in [ChNames -> SUBSET ChAgents] /\ \A k \in ChNames : cut[k] \subseteq cut'[k]
      /\ chCalls[c].pc = "add" => a \in cut'[n]
  BY <1>3, <1>q DEF ChannelsRows
<1>4. ChannelsRows'
  BY <1>q, <1>m, <1>h, <1>p, <1>3 DEF ChannelsRows
<1>5. EntryInv'
  <2>1. ChannelsKept
    BY <1>3 DEF ChannelsKept
  <2>2. CallSound(c)'
    BY <1>m DEF CallSound, Joins
  <2>3. \A d \in ChCalls : d # c => CallSound(d)'
    BY <1>m, <1>3, <2>1, CallStaysSound
  <2>4. \A k \in ChNames : ChannelSound(k)'
    BY <1>3 DEF ChannelsInv, EntryInv, ChannelSound
  <2> QED
    BY <2>2, <2>3, <2>4 DEF EntryInv
<1>6. KickersOwn'
  <2> SUFFICES ASSUME NEW d \in ChCalls, chCalls'[d].pc = "kick"
               PROVE  chCalls'[d].by # chCalls'[d].agent
                      /\ (members'[chCalls'[d].chan][chCalls'[d].by] = "owner" \/ orphan'[chCalls'[d].chan])
    BY DEF KickersOwn, IsOwner
  <2>1. d # c /\ chCalls'[d] = chCalls[d]
    BY <1>m
  <2>2. chCalls[d].chan \in ChNames
    BY <2>1, <1>q, ChannelCallKinds DEF ChannelsRows
  <2>3. chCalls[d].by # chCalls[d].agent
        /\ (members[chCalls[d].chan][chCalls[d].by] = "owner" \/ orphan[chCalls[d].chan])
    BY <2>1 DEF ChannelsInv, KickersOwn, IsOwner
  <2> QED BY <2>1, <2>2, <2>3, <1>3, <1>p
<1>7. HasOwner'
  <2> SUFFICES ASSUME NEW k \in ChNames, channels'[k].exists
               PROVE  \/ \E b \in ChAgents : members'[k][b] = "owner"
                      \/ \E d \in ChCalls : chCalls'[d].pc = "add" /\ chCalls'[d].chan = k /\ chCalls'[d].role = "owner"
                      \/ orphan'[k]
    BY DEF HasOwner, GetChannelByName, IsOwner
  <2>1. \/ \E b \in ChAgents : members[k][b] = "owner"
        \/ \E d \in ChCalls : chCalls[d].pc = "add" /\ chCalls[d].chan = k /\ chCalls[d].role = "owner"
        \/ orphan[k]
    BY <1>3 DEF ChannelsInv, HasOwner, GetChannelByName, IsOwner
  <2> QED BY <2>1, <1>m, <1>n, <1>p, <1>3
<1>8. AcceptedAdds'
  <2> SUFFICES ASSUME NEW k \in ChNames, NEW b \in ChAgents, invites'[k][b] = "accepted"
               PROVE  \/ members'[k][b] # "none" \/ b \in cut'[k]
                      \/ \E d \in ChCalls : chCalls'[d].pc = "add" /\ chCalls'[d].chan = k /\ chCalls'[d].agent = b
    BY DEF AcceptedAdds, IsMember
  <2>1. \/ members[k][b] # "none" \/ b \in cut[k]
        \/ \E d \in ChCalls : chCalls[d].pc = "add" /\ chCalls[d].chan = k /\ chCalls[d].agent = b
    BY <1>3 DEF ChannelsInv, AcceptedAdds, IsMember
  <2> QED BY <2>1, <1>m, <1>n, <1>a, <1>h, <1>3
<1>9. PostsSound'
  BY <1>m, <1>3, PostsStay
<1> QED
  BY <1>4, <1>5, <1>6, <1>7, <1>8, <1>9 DEF ChannelsInv

\* A broadcast goes on: only its own state and the posts change.
LEMMA BroadcastGoesOn ==
  ASSUME ChannelsInv, NEW c \in ChCalls, NEW rec \in ChannelCall, Step(c, rec), PostsSound', chPosts' \in Seq(Post),
         UNCHANGED <<channels, members, invites, admitted, removed, cut, orphan>>,
         chCalls[c].pc \in {"members", "copies"}, rec.pc = "copies", rec.chan = chCalls[c].chan
  PROVE  ChannelsInv'
<1>1. /\ chCalls' \in [ChCalls -> ChannelCall] /\ chCalls'[c] = rec
      /\ \A d \in ChCalls : d # c => chCalls'[d] = chCalls[d]
  BY StepMoves DEF ChannelsInv
<1>2. ChannelsRows'
  BY <1>1 DEF ChannelsInv, ChannelsRows
<1>3. EntryInv'
  <2>1. ChannelsKept
    BY DEF ChannelsKept
  <2>2. CallSound(c)'
    BY <1>1 DEF ChannelsInv, EntryInv, CallSound, Joins
  <2>3. \A d \in ChCalls : d # c => CallSound(d)'
    BY <1>1, <2>1, CallStaysSound
  <2>4. \A n \in ChNames : ChannelSound(n)'
    BY DEF ChannelsInv, EntryInv, ChannelSound
  <2> QED
    BY <2>2, <2>3, <2>4 DEF EntryInv
<1>4. KickersOwn'
  BY <1>1 DEF ChannelsInv, KickersOwn, IsOwner
<1>5. HasOwner'
  BY <1>1 DEF ChannelsInv, HasOwner, IsOwner, GetChannelByName
<1>6. AcceptedAdds'
  BY <1>1 DEF ChannelsInv, AcceptedAdds, IsMember
<1> QED
  BY <1>2, <1>3, <1>4, <1>5, <1>6 DEF ChannelsInv

LEMMA ChannelMessageStored ==
  ASSUME ChannelsInv, NEW c \in ChCalls, BroadcastStore(c)
  PROVE  ChannelsInv'
<1>q. chCalls[c] \in ChannelCall /\ chCalls[c].pc = "members" /\ ChannelsRows /\ PostsSound
  BY DEF ChannelsInv, ChannelsRows, BroadcastStore
<1>n. PICK n \in ChNames : n = chCalls[c].chan
  BY <1>q, ChannelCallKinds
<1>a. PICK a \in ChAgents : a = chCalls[c].agent
  BY <1>q, ChannelCallKinds
<1>l. PICK left : left = (chCalls[c].mentions \intersect GetMembers(n)) \ {a}
  OBVIOUS
<1>t. left \subseteq ChAgents /\ a \notin left
  BY <1>l DEF GetMembers
<1>z. PICK size \in Nat : size = Len(chPosts)
  BY <1>q, LenProperties DEF ChannelsRows
<1> DEFINE rec == [pc |-> "copies", chan |-> n, agent |-> a, of |-> size + 1, left |-> left]
           post == [chan |-> n, from |-> a, to |-> NoAddressee, of |-> 0]
<1>1. /\ rec \in ChannelCall /\ rec.pc = "copies" /\ rec.chan = n /\ rec.agent = a
      /\ rec.of = size + 1 /\ rec.left = left
  BY <1>t DEF ChannelCall
<1>2. post \in Post /\ post.to = NoAddressee /\ post.of = 0 /\ post.chan = n /\ post.from = a
  BY DEF Post
<1>3. /\ Step(c, rec) /\ chPosts' = Append(chPosts, post)
      /\ UNCHANGED <<channels, members, invites, admitted, removed, cut, orphan>>
  BY <1>n, <1>a, <1>l, <1>z DEF BroadcastStore
<1> HIDE DEF rec, post
<1>m. /\ chCalls' \in [ChCalls -> ChannelCall] /\ chCalls'[c] = rec
      /\ \A d \in ChCalls : d # c => chCalls'[d] = chCalls[d]
  BY <1>1, <1>3, <1>q, StepMoves
<1>p. /\ chPosts' \in Seq(Post) /\ Len(chPosts') = size + 1 /\ chPosts'[size + 1] = post
      /\ \A j \in 1..size : chPosts'[j] = chPosts[j]
  <2>1. chPosts \in Seq(Post)
    BY <1>q DEF ChannelsRows
  <2>2. /\ Append(chPosts, post) \in Seq(Post) /\ Len(Append(chPosts, post)) = Len(chPosts) + 1
        /\ \A j \in 1..Len(chPosts) : Append(chPosts, post)[j] = chPosts[j]
        /\ Append(chPosts, post)[Len(chPosts) + 1] = post
    BY <2>1, <1>2, AppendRow
  <2> QED BY <2>2, <1>3, <1>z
<1>o. \A i \in 1..size : chPosts[i].of < i /\ chPosts[i].of \in Nat
  <2>1. \A i \in 1..size : chPosts[i] \in Post
    BY <1>q, <1>z, ElementOfSeq DEF ChannelsRows
  <2> QED BY <2>1, <1>q, <1>z DEF PostsSound, Post
<1>4. CopiesFaithful'
  <2> SUFFICES ASSUME NEW i \in 1..(size + 1), chPosts'[i].to # NoAddressee
               PROVE  LET o == chPosts'[i].of IN
                      /\ o \in 1..(i - 1) /\ chPosts'[o].to = NoAddressee /\ chPosts'[o].chan = chPosts'[i].chan
                      /\ chPosts'[o].from = chPosts'[i].from /\ chPosts'[i].to # chPosts'[i].from
                      /\ \A j \in 1..(size + 1) : j # i => chPosts'[j].to # chPosts'[i].to \/ chPosts'[j].of # o
    BY <1>p DEF CopiesFaithful
  <2>1. i \in 1..size /\ chPosts'[i] = chPosts[i]
    BY <1>p, <1>2
  <2>2. PICK o \in Nat : o = chPosts[i].of
    BY <2>1, <1>o
  <2>3. /\ o \in 1..(i - 1) /\ chPosts[o].to = NoAddressee /\ chPosts[o].chan = chPosts[i].chan
        /\ chPosts[o].from = chPosts[i].from /\ chPosts[i].to # chPosts[i].from
        /\ \A j \in 1..size : j # i => chPosts[j].to # chPosts[i].to \/ chPosts[j].of # o
    BY <1>q, <1>z, <2>1, <2>2 DEF PostsSound, CopiesFaithful
  <2>5. ASSUME NEW j \in 1..(size + 1), j # i
        PROVE  chPosts'[j].to # chPosts'[i].to \/ chPosts'[j].of # o
    BY <2>1, <2>3, <2>5, <1>p, <1>2
  <2>4. /\ chPosts'[o].to = NoAddressee /\ chPosts'[o].chan = chPosts'[i].chan
        /\ chPosts'[o].from = chPosts'[i].from
    <3>1. o \in 1..size
      BY <2>1, <2>3
    <3> QED BY <3>1, <2>1, <2>3, <1>p
  <2> QED BY <2>1, <2>2, <2>3, <2>4, <2>5
<1>5. (\A i \in 1..Len(chPosts) : chPosts[i].of < i)'
  BY <1>p, <1>o, <1>2
<1>6. ASSUME NEW d \in ChCalls PROVE CopiesSound(d)'
  <2>0. \A e \in ChCalls \ {c} : chCalls'[e].pc = "copies" =>
             /\ chCalls[e].pc = "copies" /\ chCalls'[e] = chCalls[e] /\ chCalls[e].of \in 1..size
             /\ chPosts[chCalls[e].of].to = NoAddressee /\ chPosts[chCalls[e].of].chan = chCalls[e].chan
             /\ chPosts[chCalls[e].of].from = chCalls[e].agent /\ chCalls[e].agent \notin chCalls[e].left
             /\ \A i \in 1..size : chPosts[i].of = chCalls[e].of => chPosts[i].to \notin chCalls[e].left
             /\ \A f \in ChCalls : f # e /\ chCalls[f].pc = "copies" => chCalls[f].of # chCalls[e].of
    BY <1>m, <1>q, <1>z DEF PostsSound, CopiesSound
  <2>1. CASE d = c
    <3>2. \A i \in 1..(size + 1) : chPosts'[i].of # size + 1
      BY <1>o, <1>p, <1>2
    <3>3. \A e \in ChCalls : e # c /\ chCalls'[e].pc = "copies" => chCalls'[e].of # size + 1
      BY <2>0
    <3> QED BY <2>1, <1>t, <3>2, <3>3, <1>m, <1>p, <1>1, <1>2 DEF CopiesSound
  <2>2. CASE d # c /\ chCalls'[d].pc = "copies"
    <3>2. \A i \in 1..(size + 1) : chPosts'[i].of = chCalls[d].of => chPosts'[i].to \notin chCalls[d].left
      BY <2>0, <2>2, <1>p, <1>2
    <3>3. \A e \in ChCalls : e # d /\ chCalls'[e].pc = "copies" => chCalls'[e].of # chCalls[d].of
      BY <2>0, <2>2, <1>m, <1>1
    <3> QED BY <2>0, <2>2, <3>2, <3>3, <1>p DEF CopiesSound
  <2> QED BY <2>1, <2>2 DEF CopiesSound
<1>7. PostsSound'
  BY <1>4, <1>5, <1>6 DEF PostsSound
<1> QED
  BY <1>1, <1>3, <1>7, <1>p, <1>q, <1>n, BroadcastGoesOn

LEMMA MentionCopied ==
  ASSUME ChannelsInv, NEW c \in ChCalls, NEW a \in ChAgents, BroadcastCopy(c, a)
  PROVE  ChannelsInv'
<1>q. /\ chCalls[c] \in ChannelCall /\ chCalls[c].pc = "copies" /\ ChannelsRows /\ PostsSound
      /\ a \in chCalls[c].left
  BY DEF ChannelsInv, ChannelsRows, BroadcastCopy
<1>n. PICK n \in ChNames : n = chCalls[c].chan
  BY <1>q, ChannelCallKinds
<1>b. PICK b \in ChAgents : b = chCalls[c].agent
  BY <1>q, ChannelCallKinds
<1>f. PICK of \in Nat : of = chCalls[c].of
  BY <1>q, ChannelCallKinds
<1>l. PICK left : left = chCalls[c].left \ {a}
  OBVIOUS
<1>z. PICK size \in Nat : size = Len(chPosts)
  BY <1>q, LenProperties DEF ChannelsRows
<1> DEFINE rec == [chCalls[c] EXCEPT !.left = @ \ {a}]
           post == [chan |-> n, from |-> b, to |-> a, of |-> of]
<1>1. /\ rec \in ChannelCall /\ rec.pc = "copies" /\ rec.chan = n /\ rec.agent = b
      /\ rec.of = of /\ rec.left = left
  BY <1>q, <1>n, <1>b, <1>f, <1>l DEF ChannelCall
<1>2. post \in Post /\ post.to = a /\ post.of = of /\ post.chan = n /\ post.from = b
  BY DEF Post
<1>3. /\ Step(c, rec) /\ (chPosts' = Append(chPosts, post) \/ UNCHANGED chPosts)
      /\ UNCHANGED <<channels, members, invites, admitted, removed, cut, orphan>>
  BY <1>n, <1>b, <1>f DEF BroadcastCopy
<1> HIDE DEF rec, post
<1>m. /\ chCalls' \in [ChCalls -> ChannelCall] /\ chCalls'[c] = rec
      /\ \A d \in ChCalls : d # c => chCalls'[d] = chCalls[d]
  BY <1>1, <1>3, <1>q, StepMoves
<1>s. \A e \in ChCalls : chCalls[e].pc = "copies" =>
             /\ chCalls[e].of \in 1..size
             /\ chPosts[chCalls[e].of].to = NoAddressee /\ chPosts[chCalls[e].of].chan = chCalls[e].chan
             /\ chPosts[chCalls[e].of].from = chCalls[e].agent /\ chCalls[e].agent \notin chCalls[e].left
             /\ \A i \in 1..size : chPosts[i].of = chCalls[e].of => chPosts[i].to \notin chCalls[e].left
             /\ \A f \in ChCalls : f # e /\ chCalls[f].pc = "copies" => chCalls[f].of # chCalls[e].of
  BY <1>q, <1>z DEF PostsSound, CopiesSound
<1>t. /\ of \in 1..size /\ chPosts[of].to = NoAddressee /\ chPosts[of].chan = n /\ chPosts[of].from = b
      /\ b \notin left /\ b # a /\ a \notin left
      /\ \A i \in 1..size : chPosts[i].of = of => chPosts[i].to \notin left /\ chPosts[i].to # a
      /\ \A f \in ChCalls : f # c /\ chCalls[f].pc = "copies" => chCalls[f].of # of
  BY <1>s, <1>q, <1>n, <1>b, <1>f, <1>l
<1>c. \A e \in ChCalls : chCalls'[e].pc = "copies" =>
             /\ chCalls[e].pc = "copies" /\ chCalls'[e].of = chCalls[e].of /\ chCalls'[e].chan = chCalls[e].chan
             /\ chCalls'[e].agent = chCalls[e].agent /\ chCalls'[e].left \subseteq chCalls[e].left
             /\ (e # c => chCalls'[e].of # of) /\ (e = c => chCalls'[e].of = of /\ chCalls'[e].left = left)
  BY <1>m, <1>1, <1>t, <1>q, <1>n, <1>b, <1>f, <1>l
<1>4. CASE UNCHANGED chPosts
  <2>1. CopiesFaithful' /\ (\A i \in 1..Len(chPosts) : chPosts[i].of < i)' /\ chPosts' \in Seq(Post)
    <3>1. CopiesFaithful'
      BY <1>q, <1>4 DEF PostsSound, CopiesFaithful
    <3>2. (\A i \in 1..Len(chPosts) : chPosts[i].of < i)'
      BY <1>q, <1>4 DEF PostsSound
    <3>3. chPosts' \in Seq(Post)
      BY <1>q, <1>4 DEF ChannelsRows
    <3> QED
      BY <3>1, <3>2, <3>3
  <2>2. ASSUME NEW d \in ChCalls, chCalls'[d].pc = "copies" PROVE CopiesSound(d)'
    <3>1. /\ chCalls'[d].of \in 1..Len(chPosts') /\ chCalls'[d].agent \notin chCalls'[d].left
          /\ chPosts'[chCalls'[d].of].to = NoAddressee /\ chPosts'[chCalls'[d].of].chan = chCalls'[d].chan
          /\ chPosts'[chCalls'[d].of].from = chCalls'[d].agent
      BY <1>s, <1>c, <1>z, <1>4, <2>2
    <3>2. \A i \in 1..Len(chPosts') : chPosts'[i].of = chCalls'[d].of => chPosts'[i].to \notin chCalls'[d].left
      BY <1>s, <1>c, <1>z, <1>4, <2>2
    <3>3. \A e \in ChCalls : e # d /\ chCalls'[e].pc = "copies" => chCalls'[e].of # chCalls'[d].of
      BY <1>s, <1>c, <2>2
    <3> QED BY <3>1, <3>2, <3>3 DEF CopiesSound
  <2>3. \A d \in ChCalls : CopiesSound(d)'
    BY <2>2 DEF CopiesSound
  <2>4. PostsSound'
    BY <2>1, <2>3 DEF PostsSound
  <2> QED BY <2>1, <2>4, <1>1, <1>3, <1>q, <1>n, BroadcastGoesOn
<1>5. CASE chPosts' = Append(chPosts, post)
  <2>p. /\ chPosts' \in Seq(Post) /\ Len(chPosts') = size + 1 /\ chPosts'[size + 1] = post
        /\ \A j \in 1..size : chPosts'[j] = chPosts[j]
    <3>1. chPosts \in Seq(Post)
      BY <1>q DEF ChannelsRows
    <3>2. /\ Append(chPosts, post) \in Seq(Post) /\ Len(Append(chPosts, post)) = Len(chPosts) + 1
          /\ \A j \in 1..Len(chPosts) : Append(chPosts, post)[j] = chPosts[j]
          /\ Append(chPosts, post)[Len(chPosts) + 1] = post
      BY <3>1, <1>2, AppendRow
    <3> QED BY <3>2, <1>5, <1>z
  <2>o. \A i \in 1..size : chPosts[i].of < i /\ chPosts[i].of \in Nat
    <3>1. \A i \in 1..size : chPosts[i] \in Post
      BY <1>q, <1>z, ElementOfSeq DEF ChannelsRows
    <3> QED BY <3>1, <1>q, <1>z DEF PostsSound, Post
  <2>1. CopiesFaithful'
    <3> SUFFICES ASSUME NEW i \in 1..(size + 1), chPosts'[i].to # NoAddressee
                 PROVE  LET o == chPosts'[i].of IN
                        /\ o \in 1..(i - 1) /\ chPosts'[o].to = NoAddressee /\ chPosts'[o].chan = chPosts'[i].chan
                        /\ chPosts'[o].from = chPosts'[i].from /\ chPosts'[i].to # chPosts'[i].from
                        /\ \A j \in 1..(size + 1) : j # i => chPosts'[j].to # chPosts'[i].to \/ chPosts'[j].of # o
      BY <2>p DEF CopiesFaithful
    <3>1. CASE i = size + 1
      <4>1. chPosts'[i] = post
        BY <3>1, <2>p
      <4>2. /\ of \in 1..(i - 1) /\ chPosts'[of].to = NoAddressee /\ chPosts'[of].chan = n
            /\ chPosts'[of].from = b /\ a # b
        BY <3>1, <2>p, <1>t
      <4>3. ASSUME NEW j \in 1..(size + 1), j # i PROVE chPosts'[j].to # a \/ chPosts'[j].of # of
        <5>1. j \in 1..size
          BY <3>1, <4>3
        <5> QED BY <5>1, <2>p, <1>t
      <4> QED BY <4>1, <4>2, <4>3, <1>2
    <3>2. CASE i \in 1..size
      <4>1. chPosts'[i] = chPosts[i]
        BY <3>2, <2>p
      <4>2. PICK o \in Nat : o = chPosts[i].of
        BY <3>2, <2>o
      <4>3. /\ o \in 1..(i - 1) /\ chPosts[o].to = NoAddressee /\ chPosts[o].chan = chPosts[i].chan
            /\ chPosts[o].from = chPosts[i].from /\ chPosts[i].to # chPosts[i].from
            /\ \A j \in 1..size : j # i => chPosts[j].to # chPosts[i].to \/ chPosts[j].of # o
        BY <1>q, <1>z, <3>2, <4>1, <4>2 DEF PostsSound, CopiesFaithful
      <4>4. o \in 1..size /\ chPosts'[o] = chPosts[o]
        BY <3>2, <4>3, <2>p
      <4>5. ASSUME NEW j \in 1..(size + 1), j # i
            PROVE  chPosts'[j].to # chPosts'[i].to \/ chPosts'[j].of # o
        <5>1. CASE j \in 1..size
          BY <5>1, <4>1, <4>3, <4>5, <2>p
        <5>2. CASE j = size + 1
          <6>1. chPosts'[j].to = a /\ chPosts'[j].of = of
            BY <5>2, <2>p, <1>2
          <6> QED BY <6>1, <4>1, <4>2, <3>2, <1>t
        <5> QED BY <5>1, <5>2
      <4> QED BY <4>1, <4>2, <4>3, <4>4, <4>5
    <3> QED BY <3>1, <3>2
  <2>2. (\A i \in 1..Len(chPosts) : chPosts[i].of < i)'
    BY <2>p, <2>o, <1>2, <1>t
  <2>3. ASSUME NEW d \in ChCalls, chCalls'[d].pc = "copies" PROVE CopiesSound(d)'
    <3>1. /\ chCalls'[d].of \in 1..Len(chPosts') /\ chCalls'[d].agent \notin chCalls'[d].left
          /\ chPosts'[chCalls'[d].of].to = NoAddressee /\ chPosts'[chCalls'[d].of].chan = chCalls'[d].chan
          /\ chPosts'[chCalls'[d].of].from = chCalls'[d].agent
      BY <1>s, <1>c, <2>p, <2>3
    <3>2. ASSUME NEW i \in 1..(size + 1), chPosts'[i].of = chCalls'[d].of
          PROVE  chPosts'[i].to \notin chCalls'[d].left
      <4>1. CASE i \in 1..size
        BY <4>1, <1>s, <1>c, <2>p, <2>3, <3>2
      <4>2. CASE i = size + 1
        BY <4>2, <1>c, <2>p, <2>3, <3>2, <1>2, <1>t
      <4> QED BY <4>1, <4>2
    <3>3. \A e \in ChCalls : e # d /\ chCalls'[e].pc = "copies" => chCalls'[e].of # chCalls'[d].of
      BY <1>s, <1>c, <2>3
    <3> QED BY <3>1, <3>2, <3>3, <2>p DEF CopiesSound
  <2>4. \A d \in ChCalls : CopiesSound(d)'
    BY <2>3 DEF CopiesSound
  <2>5. PostsSound'
    BY <2>1, <2>2, <2>4 DEF PostsSound
  <2> QED BY <2>p, <2>5, <1>1, <1>3, <1>q, <1>n, BroadcastGoesOn
<1> QED
  BY <1>3, <1>4, <1>5

LEMMA ChannelsUnchanged == ChannelsInv /\ UNCHANGED chVars => ChannelsInv'
BY DEF chVars, ChannelsInv, ChannelsRows, EntryInv, CallSound, ChannelSound, KickersOwn, HasOwner, IsOwner,
       GetChannelByName, AcceptedAdds, IsMember, PostsSound, CopiesFaithful, CopiesSound

LEMMA ChannelsStep == ChannelsInv /\ [ChannelsNext]_chVars => ChannelsInv'
<1> SUFFICES ASSUME ChannelsInv, [ChannelsNext]_chVars PROVE ChannelsInv'
  OBVIOUS
<1>1. CASE UNCHANGED chVars
  BY <1>1, ChannelsUnchanged
<1>2. ASSUME NEW c \in ChCalls,
             \/ AddDecided(c) \/ AcceptInvite(c) \/ CreateInvite(c) \/ RemoveDecided(c)
             \/ BroadcastStore(c) \/ BroadcastEnds(c) \/ CallFails(c) \/ EnsureMyAgentsChannel(c)
      PROVE  ChannelsInv'
  <2>1. CASE EnsureMyAgentsChannel(c)
    <3>1. MyAgents \in ChNames /\ ChHuman \in ChAgents
      BY ChannelsAssumption
    <3>2. CASE CreateChannel(c, MyAgents, ChHuman, TRUE, TRUE)
      BY <3>1, <3>2, Creation
    <3>3. CASE ~CreateChannel(c, MyAgents, ChHuman, TRUE, TRUE)
      BY <2>1, <3>1, <3>3, Readmission DEF EnsureMyAgentsChannel
    <3> QED BY <3>2, <3>3
  <2>2. CASE BroadcastEnds(c)
    <3>1. MyAgents \in ChNames /\ ChHuman \in ChAgents
      BY ChannelsAssumption
    <3> QED BY <2>2, <3>1, Decisions
  <2> QED BY <1>2, <2>1, <2>2, MemberAdded, InviteAccepted, InviteCreated, MemberRemoved, ChannelMessageStored, CallFailed
<1>3. ASSUME NEW c \in ChCalls, NEW a \in ChAgents, BroadcastCopy(c, a) \/ JoinMyAgentsChannel(c, a)
      PROVE  ChannelsInv'
  <2>1. CASE JoinMyAgentsChannel(c, a)
    BY <2>1, ChannelsAssumption, Readmission DEF JoinMyAgentsChannel
  <2> QED BY <1>3, <2>1, MentionCopied
<1>4. ASSUME NEW c \in ChCalls, NEW a \in ChAgents, NEW n \in ChNames,
             \/ \E private \in BOOLEAN : \/ callCreateChannel(c, n, a, private)
                                         \/ RestCreateChannel(c, n, a, private)
             \/ handleChannelsCreate(c, n, a)
      PROVE  ChannelsInv'
  BY <1>4, Creation DEF callCreateChannel, RestCreateChannel, handleChannelsCreate
<1>5. ASSUME NEW c \in ChCalls, NEW a \in ChAgents, NEW n \in ChNames,
             \/ callJoinChannel(c, n, a) \/ RestJoinChannel(c, n, a) \/ handleChannelsJoin(c, n, a)
             \/ callLeaveChannel(c, n, a) \/ RestLeaveChannel(c, n, a)
             \/ \E by \in ChAgents : callInviteToChannel(c, n, a, by) \/ callKickFromChannel(c, n, a, by)
             \/ \E mentions \in {{}, ChAgents} : \/ callSendChannelMessage(c, n, a, mentions)
                                                 \/ handleSendToChannel(c, n, a, mentions)
      PROVE  ChannelsInv'
  BY <1>5, Decisions DEF callJoinChannel, RestJoinChannel, handleChannelsJoin, callLeaveChannel, RestLeaveChannel,
       callInviteToChannel, callKickFromChannel, callSendChannelMessage, handleSendToChannel
<1>6. ASSUME NEW n \in ChNames,
             \/ RestUpdateSettings(n) \/ handleChannelsUpdateSettings(n)
             \/ \E a \in ChAgents : callUpdateChannel(n, a)
      PROVE  ChannelsInv'
  BY <1>6, ChannelsUnchanged DEF RestUpdateSettings, handleChannelsUpdateSettings, StoreUpdateSettings,
       callUpdateChannel, UpdateChannel
<1> QED
  BY <1>1, <1>2, <1>3, <1>4, <1>5, <1>6 DEF ChannelsNext

\* ListChannelsPaginated: page k of any list, for any page size.
LEMMA PageOfList ==
  ASSUME NEW S, NEW all \in Seq(S), NEW limit \in Nat \ {0}, NEW before \in Nat
  PROVE  LET page == ListChannelsPaginated(all, limit, before) IN
         /\ Len(page) <= limit
         /\ \A p \in 1..limit : /\ p <= Len(page) <=> before + p <= Len(all)
                                /\ p <= Len(page) => page[p] = all[before + p]
<1> DEFINE start == IF before > Len(all) THEN Len(all) ELSE before
           end == IF start + limit > Len(all) THEN Len(all) ELSE start + limit
           page == SubSeq(all, start + 1, end)
<1>0. Len(all) \in Nat
  BY LenProperties
<1>1. /\ start \in Nat /\ end \in Nat /\ start <= end /\ end <= Len(all) /\ end <= start + limit
      /\ \A p \in 1..limit : p <= end - start <=> before + p <= Len(all)
      /\ before <= Len(all) => start = before
  BY <1>0
<1> HIDE DEF start, end
<1>2. /\ Len(page) = end - start
      /\ \A p \in 1..(end - start) : page[p] = all[start + p]
  <2>1. \A i \in (start + 1)..end : all[i] \in S
    BY <1>0, <1>1, ElementOfSeq
  <2>2. Len(page) = IF start + 1 <= end THEN end - (start + 1) + 1 ELSE 0
    BY <1>1, <2>1, SubSeqProperties
  <2>3. \A p \in 1..(end - (start + 1) + 1) : page[p] = all[(start + 1) + p - 1]
    BY <1>1, <2>1, SubSeqProperties
  <2>4. end - (start + 1) + 1 = end - start /\ (start + 1 <= end \/ end - start = 0)
    BY <1>1
  <2>5. \A p \in 1..(end - start) : (start + 1) + p - 1 = start + p
    BY <1>1
  <2> HIDE DEF page
  <2> QED BY <1>1, <2>2, <2>3, <2>4, <2>5
<1>3. ListChannelsPaginated(all, limit, before) = page
  BY DEF ListChannelsPaginated, start, end
<1> HIDE DEF page
<1>4. Len(page) <= limit
  BY <1>1, <1>2
<1>5. ASSUME NEW p \in 1..limit
      PROVE  /\ p <= Len(page) <=> before + p <= Len(all)
             /\ p <= Len(page) => page[p] = all[before + p]
  <2>1. p <= Len(page) <=> before + p <= Len(all)
    BY <1>1, <1>2
  <2>2. ASSUME p <= Len(page) PROVE page[p] = all[before + p]
    <3>1. start = before /\ p \in 1..(end - start)
      BY <1>0, <1>1, <1>2, <2>1, <2>2
    <3> QED BY <1>2, <3>1
  <2> QED BY <2>1, <2>2
<1> QED
  BY <1>3, <1>4, <1>5

LEMMA ChannelsInvSafe == ChannelsInv => ChannelsSafe
<1> SUFFICES ASSUME ChannelsInv PROVE ChannelsSafe
  OBVIOUS
<1>r. ChannelsRows /\ EntryInv /\ KickersOwn /\ HasOwner /\ AcceptedAdds /\ PostsSound
  BY DEF ChannelsInv
<1>x. \A n \in ChNames : ChannelSound(n)
  BY <1>r DEF EntryInv
<1>1. ChannelsTypeOK
  <2> SUFFICES ASSUME NEW n \in ChNames, NEW a \in ChAgents
               PROVE  /\ members[n][a] \in {"none", "member", "owner"}
                      /\ invites[n][a] \in {"none", "pending", "accepted"}
                      /\ members[n][a] # "none" \/ invites[n][a] # "none" => channels[n].exists
    BY DEF ChannelsTypeOK, GetChannelByName
  <2> QED BY <1>r, <1>x DEF ChannelsRows, ChannelSound
<1>2. PrivateEntry
  BY <1>x DEF PrivateEntry, GetMembers, ChannelSound
<1>7. KickHolds
  BY <1>x DEF KickHolds, GetMembers, ChannelSound
<1>3. AcceptedMeansJoined
  BY <1>r DEF AcceptedMeansJoined, AcceptedAdds, UnderWay
<1>4. CopiesFaithful
  BY <1>r DEF PostsSound
<1>5. ListsAgree
  <2> SUFFICES ASSUME NEW a \in ChAgents
               PROVE  LET own == callListChannels(a)  all == handleChannelsList IN
                      /\ \A n \in DOMAIN own : n \in DOMAIN all /\ own[n] = all[n]
                      /\ \A n \in ChNames : callGetChannelMessages(n, a) # {} => n \in DOMAIN own
                      /\ a \in ChOwned => DOMAIN own \subseteq RestListChannels
                      /\ \A n \in DOMAIN all : all[n] = Cardinality(handleChannelsShow(n))
    BY DEF ListsAgree
  <2>1. \A n \in StoreListChannels(a) : n \in ChNames /\ GetChannelByName(n)
    BY DEF StoreListChannels
  <2>2. \A n \in ChNames : IsMember(n, a) => n \in StoreListChannels(a)
    BY <1>x DEF StoreListChannels, IsMember, GetChannelByName, ChannelSound
  <2>3. \A n \in ChNames : callGetChannelMessages(n, a) # {} => IsMember(n, a)
    BY DEF callGetChannelMessages
  <2>4. /\ DOMAIN callListChannels(a) = StoreListChannels(a)
        /\ \A n \in StoreListChannels(a) : callListChannels(a)[n] = CountMembers(n)
    BY DEF callListChannels
  <2>5. /\ DOMAIN handleChannelsList = {k \in ChNames : GetChannelByName(k)}
        /\ \A n \in {k \in ChNames : GetChannelByName(k)} : handleChannelsList[n] = CountMembers(n)
    BY DEF handleChannelsList
  <2>6. \A n \in {k \in ChNames : GetChannelByName(k)} : Cardinality(handleChannelsShow(n)) = CountMembers(n)
    BY DEF handleChannelsShow, RestGetChannel, CountMembers
  <2>7. a \in ChOwned => StoreListChannels(a) \subseteq RestListChannels
    BY DEF RestListChannels
  <2> QED BY <2>1, <2>2, <2>3, <2>4, <2>5, <2>6, <2>7
<1>6. PagesAreTheList
  <2> SUFFICES ASSUME NEW length \in 0..4, NEW limit \in 1..3, NEW k \in 1..5
               PROVE  LET before == limit * (k - 1)
                          page == ListChannelsPaginated([i \in 1..length |-> i], limit, before)
                      IN /\ Len(page) <= limit
                         /\ \A p \in 1..limit : /\ p <= Len(page) <=> before + p <= length
                                                /\ p <= Len(page) => page[p] = before + p
    BY DEF PagesAreTheList
  <2>1. PICK before \in Nat : before = limit * (k - 1)
    <3>1. \A x \in Nat, y \in Nat : x * y \in Nat
      OBVIOUS
    <3>2. limit \in Nat /\ k - 1 \in Nat
      OBVIOUS
    <3> QED BY <3>1, <3>2
  <2> DEFINE all == [i \in 1..length |-> i]
             page == ListChannelsPaginated(all, limit, before)
  <2>2. all \in Seq(Nat) /\ Len(all) = length /\ \A i \in 1..length : all[i] = i
    OBVIOUS
  <2> HIDE DEF all
  <2>3. /\ Len(page) <= limit
        /\ \A p \in 1..limit : /\ p <= Len(page) <=> before + p <= Len(all)
                               /\ p <= Len(page) => page[p] = all[before + p]
    BY <2>2, PageOfList
  <2> HIDE DEF page
  <2>4. ASSUME NEW p \in 1..limit
        PROVE  /\ p <= Len(page) <=> before + p <= length
               /\ p <= Len(page) => page[p] = before + p
    <3>1. before + p <= length => before + p \in 1..length
      OBVIOUS
    <3> QED BY <2>2, <2>3, <3>1
  <2> QED BY <2>1, <2>3, <2>4 DEF page, all
<1> QED
  BY <1>r, <1>1, <1>2, <1>3, <1>4, <1>5, <1>6, <1>7 DEF ChannelsSafe

\* Channels, for any agents, names and concurrent calls: who is in a private
\* channel was let in, a kick holds, an owner is lost only in the ways the
\* model names, an invitation is not used up in vain, and every mention copy
\* belongs to one channel message and goes out once.
THEOREM ChannelsCorrect == ChannelsSpec => []ChannelsSafe
<1>1. ChannelsInit => ChannelsInv
  BY ChannelsInitInv
<1>2. ChannelsInv /\ [ChannelsNext]_chVars => ChannelsInv'
  BY ChannelsStep
<1>3. ChannelsInv => ChannelsSafe
  BY ChannelsInvSafe
<1> QED
  BY <1>1, <1>2, <1>3, PTL DEF ChannelsSpec

-----------------------------------------------------------------------------
(* The composition: a step of it is a step of one component, or leaves it. *)

LEMMA IdentityComposes ==
  /\ IdentityInit => AccountsInit /\ OAuthInit /\ AgentsInit /\ ChannelsInit
  /\ [IdentityNext]_<<part, acVars, oaVars, agVars, chVars>> =>
        [AccountsNext]_acVars /\ [OAuthNext]_oaVars /\ [AgentsNext]_agVars /\ [ChannelsNext]_chVars
BY DEF IdentityInit, IdentityNext

\* Users, sessions and identities of the composed system: guesses bounded
\* across concurrent logins, no session outlives its user.
THEOREM AccountsHoldAlways == IdentitySpec => []AccountsHold
<1>1. AccountsSafe => AccountsHold
  BY DEF AccountsHold
<1>2. IdentitySpec => AccountsSpec
  BY IdentityComposes, PTL DEF IdentitySpec, AccountsSpec
<1> QED
  BY <1>1, <1>2, AccountsCorrect, PTL

\* The token endpoint of the composed system: every token pair goes back to
\* one redeemed code of the same client and user, however requests race.
THEOREM OAuthHoldsAlways == IdentitySpec => []OAuthHolds
<1>1. OAuthSafe => OAuthHolds
  BY DEF OAuthHolds
<1>2. IdentitySpec => OAuthSpec
  BY IdentityComposes, PTL DEF IdentitySpec, OAuthSpec
<1> QED
  BY <1>1, <1>2, OAuthCorrect, PTL

\* Agents and keys of the composed system: removed agents cannot speak, and
\* what waited for them is a dead letter of their owner.
THEOREM AgentsHoldAlways == IdentitySpec => []AgentsHold
<1>1. AgentsSafe => AgentsHold
  BY DEF AgentsHold
<1>2. IdentitySpec => AgentsSpec
  BY IdentityComposes, PTL DEF IdentitySpec, AgentsSpec
<1> QED
  BY <1>1, <1>2, AgentsCorrect, PTL

\* Channels of the composed system: entry, kicks, owners, invitations, copies.
THEOREM ChannelsHoldAlways == IdentitySpec => []ChannelsHold
<1>1. ChannelsSafe => ChannelsHold
  BY DEF ChannelsHold
<1>2. IdentitySpec => ChannelsSpec
  BY IdentityComposes, PTL DEF IdentitySpec, ChannelsSpec
<1> QED
  BY <1>1, <1>2, ChannelsCorrect, PTL

\* A redeemed authorization code stays consumed and a deactivated agent stays
\* inactive, in every step of the composed system.
THEOREM TakenBackStaysTaken == IdentitySpec => TakenBackForGood
<1>1. IdentitySpec => OAuthSpec
  BY IdentityComposes, PTL DEF IdentitySpec, OAuthSpec
<1>2. IdentitySpec => AgentsSpec
  BY IdentityComposes, PTL DEF IdentitySpec, AgentsSpec
<1> QED
  BY <1>1, <1>2, ConsumedStays, InactiveStays DEF TakenBackForGood
=============================================================================
