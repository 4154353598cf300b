--------------------------- MODULE TenantSessions ---------------------------
(***************************************************************************)
(* AuthHandler of internal/handlers/auth.go, TenantSessions of             *)
(* internal/service/tenant_sessions.go and the authentication of           *)
(* internal/middleware/auth.go, for the users of one business: logins open *)
(* families of refresh tokens, refreshes rotate them, a token used twice   *)
(* or a logout revokes the family, and every request is admitted on what   *)
(* the database then says, statement by statement.                         *)
(*                                                                         *)
(* Meanwhile the platform switches the business off, revoking its          *)
(* families, and on; owners suspend and reassign users; tokens expire;     *)
(* clients present any token that was ever issued, and hang up.            *)
(***************************************************************************)
EXTENDS Integers, Sequences

CONSTANTS
  Requests,     \* requests in progress at the same time
  Users,        \* accounts of the business
  Owners,       \* those whose role is ADMIN; the others are LAUNDRY_STAFF
  Families,     \* bound: the session families that can be created
  MaxTokens,    \* bound: the refresh tokens of a family
  Assignments,  \* the lists of active outlets that users can have
  NoOutlet      \* the empty one

ASSUME SessionsAssumption ==
  /\ Owners \subseteq Users /\ "NONE" \notin Users
  /\ MaxTokens \in Nat \ {0}
  /\ NoOutlet \in Assignments

VARIABLES
  owner,    \* per family its user, or NONE before it is created
  revoked,  \* the families with revoked_at
  tokens,   \* per family its refresh_tokens in the order of their creation
  outlets,  \* per user the active outlets that are assigned
  serving,  \* users with is_active
  trading,  \* businesses.is_active
  tx        \* each request, with its transaction

vars == <<owner, revoked, tokens, outlets, serving, trading, tx>>
sessions == <<owner, revoked, tokens>>
shop == <<outlets, serving, trading>>
----------------------------------------------------------------------------
(***************************************************************************)
(* Rows and requests                                                       *)
(***************************************************************************)
\* used has revoked_at, stale is past expires_at; its access token claims outs.
Token == [used : BOOLEAN, stale : BOOLEAN, outs : Assignments]

Existing == {f \in Families : owner[f] # "NONE"}
Live == Existing \ revoked
Known == {t \in Existing \X (1 .. MaxTokens) : t[2] \in DOMAIN tokens[t[1]]}
TokenOf(t) == tokens[t[1]][t[2]]

\* The token that is presented, and for a logout or a call the one whose access
\* token bears the request.
NoToken == <<"NONE", 0>>
AnyToken == (Families \X (1 .. MaxTokens)) \cup {NoToken}
Kinds == {"none", "login", "refresh", "logout", "call"}
Phases ==
  {"idle", "verified", "borne", "found", "locked", "fresh", "replayed", "authorized"}

Tx ==
  [phase : Phases, kind : Kinds, user : Users \cup {"NONE"}, token : AnyToken,
   bearer : AnyToken, outs : Assignments]
IdleTx ==
  [phase |-> "idle", kind |-> "none", user |-> "NONE", token |-> NoToken,
   bearer |-> NoToken, outs |-> NoOutlet]

TypeOK ==
  /\ owner \in [Families -> Users \cup {"NONE"}]
  /\ revoked \subseteq Existing
  /\ tokens \in [Families -> Seq(Token)]
  /\ \A f \in Families : Len(tokens[f]) <= MaxTokens /\ (tokens[f] = <<>> <=> f \notin Existing)
  /\ outlets \in [Users -> Assignments]
  /\ serving \subseteq Users
  /\ trading \in BOOLEAN
  /\ tx \in [Requests -> Tx]

\* A slip: LockSessionFamily without its FOR UPDATE.
FamilyHeldForgotten(f) == FALSE

FamilyHeld(f) ==
  \E r \in Requests :
    /\ tx[r].kind \in {"refresh", "logout"} /\ tx[r].token[1] = f
    /\ tx[r].phase \in {"locked", "fresh", "replayed", "authorized"}

GetActiveUser(u) == trading /\ u \in serving

\* The row of a user is found by its email while the business is active; Login looks
\* at is_active of the user.
GetUserForLogin(u) == trading

\* FindRefreshTokenFamily: every token that was issued leads to its family.
FindRefreshTokenFamily == Known

ListUserOutletIDs(u) == outlets[u]

\* The handler's authorization: staff need an active outlet.
authorization(u, outs) == u \in Owners \/ outs # NoOutlet

Start(r, request) == tx' = [tx EXCEPT ![r] = request]
Move(r, phase) == tx' = [tx EXCEPT ![r].phase = phase]
Finish(r) == tx' = [tx EXCEPT ![r] = IdleTx]

CreateRefreshToken(outs) == [used |-> FALSE, stale |-> FALSE, outs |-> outs]
CreateSessionFamily(f, u) == owner' = [owner EXCEPT ![f] = u]
RevokeSessionFamily(f) == revoked' = revoked \cup {f}

Init ==
  /\ owner = [f \in Families |-> "NONE"]
  /\ revoked = {}
  /\ tokens = [f \in Families |-> <<>>]
  /\ outlets \in [Users -> Assignments]
  /\ serving = Users
  /\ trading = TRUE
  /\ tx = [r \in Requests |-> IdleTx]
----------------------------------------------------------------------------
(***************************************************************************)
(* Login                                                                   *)
(***************************************************************************)
\* GetUserForLogin and the password, before the transaction begins.
Login(r) ==
  /\ tx[r].phase = "idle"
  /\ \E u \in Users :
       /\ GetUserForLogin(u) /\ u \in serving
       /\ Start(r, [IdleTx EXCEPT !.phase = "verified", !.kind = "login", !.user = u])
  /\ UNCHANGED <<sessions, shop>>

\* The outlets the new access token will claim.
Authorize(r) ==
  /\ tx[r].phase = "verified" \/ (tx[r].phase = "fresh" /\ GetActiveUser(tx[r].user))
  /\ authorization(tx[r].user, ListUserOutletIDs(tx[r].user))
  /\ tx' = [tx EXCEPT ![r] = [@ EXCEPT !.phase = "authorized", !.outs = ListUserOutletIDs(tx[r].user)]]
  /\ UNCHANGED <<sessions, shop>>

\* issue: the family and its first token.
Issue(r) ==
  /\ tx[r].phase = "authorized" /\ tx[r].kind = "login"
  /\ \E f \in Families \ Existing :
       /\ CreateSessionFamily(f, tx[r].user)
       /\ tokens' = [tokens EXCEPT ![f] = <<CreateRefreshToken(tx[r].outs)>>]
  /\ Finish(r)
  /\ UNCHANGED <<revoked, shop>>
----------------------------------------------------------------------------
(***************************************************************************)
(* Refresh                                                                 *)
(***************************************************************************)
\* FindRefreshTokenFamily, before the transaction begins.
Refresh(r) ==
  /\ tx[r].phase = "idle"
  /\ \E t \in FindRefreshTokenFamily :
       Start(r, [IdleTx EXCEPT !.phase = "found", !.kind = "refresh", !.token = t,
                               !.user = owner[t[1]]])
  /\ UNCHANGED <<sessions, shop>>

LockSessionFamily(r) ==
  /\ tx[r].phase = "found"
  /\ ~ FamilyHeld(tx[r].token[1])
  /\ tx[r].token[1] \notin revoked
  /\ Move(r, "locked")
  /\ UNCHANGED <<sessions, shop>>

\* A token that was used before is a replay, expired or not.
GetRefreshTokenForUpdate(r) ==
  LET t == TokenOf(tx[r].token)
  IN  /\ tx[r].phase = "locked" /\ tx[r].kind = "refresh"
      /\ \/ t.used /\ Move(r, "replayed")
         \/ ~ t.used /\ ~ t.stale /\ Move(r, "fresh")
      /\ UNCHANGED <<sessions, shop>>

\* The replay revokes the family and is audited in the same transaction.
Contain(r) ==
  /\ tx[r].phase = "replayed"
  /\ RevokeSessionFamily(tx[r].token[1])
  /\ Finish(r)
  /\ UNCHANGED <<owner, tokens, shop>>

\* A slip: RevokeRefreshToken is forgotten.
RevokeRefreshTokenForgotten(lineage, i) == lineage

RevokeRefreshToken(lineage, i) == [lineage EXCEPT ![i].used = TRUE]

\* The next token is created, the presented one must still be unused and is used.
Rotate(r) ==
  LET f == tx[r].token[1]
      i == tx[r].token[2]
  IN  /\ tx[r].phase = "authorized" /\ tx[r].kind = "refresh"
      /\ Len(tokens[f]) < MaxTokens
      /\ ~ tokens[f][i].used
      /\ tokens' = [tokens EXCEPT ![f] =
                      Append(RevokeRefreshToken(@, i), CreateRefreshToken(tx[r].outs))]
      /\ Finish(r)
      /\ UNCHANGED <<owner, revoked, shop>>
----------------------------------------------------------------------------
(***************************************************************************)
(* Logout and the other requests                                           *)
(***************************************************************************)
\* The middleware's first statement: the access token's session.
GetLogoutSession(t) == ~ TokenOf(t).stale /\ t[1] \in Live
GetActiveRefreshSession(t) == GetLogoutSession(t) /\ ~ TokenOf(t).used

Bear(r) ==
  /\ tx[r].phase = "idle"
  /\ \E t \in Known, kind \in {"logout", "call"} :
       /\ IF kind = "logout" THEN GetLogoutSession(t) ELSE GetActiveRefreshSession(t)
       /\ Start(r, [IdleTx EXCEPT !.phase = "borne", !.kind = kind, !.bearer = t,
                                  !.user = owner[t[1]]])
  /\ UNCHANGED <<sessions, shop>>

\* The statements after it: the user, and outlets as the access token claims them.
Authenticated(r) ==
  /\ tx[r].phase = "borne"
  /\ GetActiveUser(tx[r].user)
  /\ ListUserOutletIDs(tx[r].user) = TokenOf(tx[r].bearer).outs
  /\ authorization(tx[r].user, ListUserOutletIDs(tx[r].user))

\* The handler of another component takes over.
Admit(r) ==
  /\ Authenticated(r) /\ tx[r].kind = "call"
  /\ Finish(r)
  /\ UNCHANGED <<sessions, shop>>

\* The token in the body names the family; it is any of the same user's.
Logout(r) ==
  /\ Authenticated(r) /\ tx[r].kind = "logout"
  /\ \E t \in FindRefreshTokenFamily :
       /\ owner[t[1]] = tx[r].user
       /\ tx' = [tx EXCEPT ![r] = [@ EXCEPT !.phase = "found", !.token = t]]
  /\ UNCHANGED <<sessions, shop>>

\* The bearer is of the family that was locked, used or not: a refresh may have won the
\* race.
GetRefreshTokenByID(r) == tx[r].bearer[1] = tx[r].token[1]

EndSession(r) ==
  /\ tx[r].phase = "locked" /\ tx[r].kind = "logout"
  /\ GetRefreshTokenByID(r)
  /\ RevokeSessionFamily(tx[r].token[1])
  /\ Finish(r)
  /\ UNCHANGED <<owner, tokens, shop>>

\* The early returns.
Refused(r) ==
  LET family == tx[r].token[1]
      allowed == authorization(tx[r].user, ListUserOutletIDs(tx[r].user))
  IN  \/ tx[r].phase = "verified" /\ ~ allowed
      \/ tx[r].phase = "fresh" /\ ~ (GetActiveUser(tx[r].user) /\ allowed)
      \/ tx[r].phase = "borne" /\ ~ Authenticated(r)
      \/ tx[r].phase = "found" /\ ~ FamilyHeld(family) /\ family \in revoked
      \/ /\ tx[r].phase = "locked" /\ tx[r].kind = "refresh"
         /\ ~ TokenOf(tx[r].token).used /\ TokenOf(tx[r].token).stale
      \/ tx[r].phase = "locked" /\ tx[r].kind = "logout" /\ ~ GetRefreshTokenByID(r)
      \/ /\ tx[r].phase = "authorized" /\ tx[r].kind = "refresh"
         /\ TokenOf(tx[r].token).used

Refuse(r) ==
  /\ Refused(r)
  /\ Finish(r)
  /\ UNCHANGED <<sessions, shop>>

\* A slip: the containment of a replay ends with its client.
HangUpAlways(r) ==
  /\ tx[r].phase # "idle"
  /\ Finish(r)
  /\ UNCHANGED <<sessions, shop>>

\* The client disconnects and the transaction is rolled back; a replay is
\* contained all the same.
HangUp(r) ==
  /\ tx[r].phase \notin {"idle", "replayed"}
  /\ Finish(r)
  /\ UNCHANGED <<sessions, shop>>
----------------------------------------------------------------------------
(***************************************************************************)
(* The rest of the system                                                  *)
(***************************************************************************)
RevokeTenantFamilies == revoked' = revoked \cup Live

\* Activation by the platform; switched off, its updates wait for the families that are held.
Activation ==
  /\ trading => \A f \in Live : ~ FamilyHeld(f)
  /\ trading' = ~ trading
  /\ IF trading THEN RevokeTenantFamilies ELSE UNCHANGED revoked
  /\ UNCHANGED <<owner, tokens, outlets, serving, tx>>

UpdateStaff(u) ==
  /\ serving' = IF u \in serving THEN serving \ {u} ELSE serving \cup {u}
  /\ UNCHANGED <<sessions, outlets, trading, tx>>

ReplaceOutlets(u) ==
  /\ \E outs \in Assignments : outlets' = [outlets EXCEPT ![u] = outs]
  /\ UNCHANGED <<sessions, serving, trading, tx>>

Expire(t) ==
  /\ ~ TokenOf(t).stale
  /\ tokens' = [tokens EXCEPT ![t[1]] = [@ EXCEPT ![t[2]].stale = TRUE]]
  /\ UNCHANGED <<owner, revoked, shop, tx>>

Arrive(r) == Login(r) \/ Refresh(r) \/ Bear(r)

Work(r) ==
  \/ Authorize(r) \/ Issue(r)
  \/ LockSessionFamily(r) \/ GetRefreshTokenForUpdate(r) \/ Contain(r) \/ Rotate(r)
  \/ Admit(r) \/ Logout(r) \/ EndSession(r) \/ Refuse(r)

Outside ==
  \/ Activation
  \/ \E u \in Users : UpdateStaff(u) \/ ReplaceOutlets(u)
  \/ \E t \in Known : Expire(t)

Next == (\E r \in Requests : Arrive(r) \/ Work(r) \/ HangUp(r)) \/ Outside

Spec == Init /\ [][Next]_vars

\* Statements of a request return.
FairSpec == Spec /\ \A r \in Requests : WF_vars(Work(r))
----------------------------------------------------------------------------
(***************************************************************************)
(* Properties                                                              *)
(***************************************************************************)
\* In every family the tokens form one line of descent of which only the last is
\* unused: no two refreshes rotate one token, whatever races (Refresh).
OneLiveToken ==
  \A f \in Existing :
    \A i \in DOMAIN tokens[f] : tokens[f][i].used <=> i < Len(tokens[f])

\* A replay that was detected ends with the family revoked, though the client that
\* replayed the token hangs up ("Finish containment even if the replaying client
\* disconnects").
ReplayContained ==
  \A r \in Requests : \A f \in Families :
    tx[r].phase = "replayed" /\ tx[r].token[1] = f ~> f \in revoked

\* The violated claim of docs/issues/issue-018: a deactivated business fails tenant
\* authentication.
NoLoginWhileOff == [][Existing' # Existing => trading]_vars

Current(r) ==
  LET t == tx[r].token
  IN  /\ tx[r].phase \in {"found", "locked", "fresh", "replayed"} => t \in Known
      /\ tx[r].kind = "refresh" /\ tx[r].phase = "authorized" => t \in Known
      /\ tx[r].phase \in {"locked", "fresh", "replayed"} => t[1] \notin revoked
      /\ tx[r].kind = "refresh" /\ tx[r].phase = "authorized" => t[1] \notin revoked
      /\ tx[r].kind = "refresh" /\ tx[r].phase \in {"fresh", "authorized"} => ~ TokenOf(t).used
      /\ tx[r].phase = "replayed" => TokenOf(t).used

\* A request that holds a family is alone in it, and what it read of the family and
\* of its token stays so until it ends (LockSessionFamily).
ReadsStayCurrent ==
  /\ \A r \in Requests : Current(r)
  /\ \A r, s \in Requests :
       /\ tx[r].kind \in {"refresh", "logout"} /\ tx[s].kind \in {"refresh", "logout"}
       /\ tx[r].phase \in {"locked", "fresh", "replayed", "authorized"}
       /\ tx[s].phase \in {"locked", "fresh", "replayed", "authorized"}
       /\ tx[r].token[1] = tx[s].token[1]
       => r = s

\* The sessions implement the lineages of RefreshLineage.
Lineage ==
  INSTANCE RefreshLineage WITH
    lineage <- [f \in Families |->
                 [state |-> IF f \in revoked THEN "revoked"
                            ELSE IF f \in Existing THEN "live" ELSE "none",
                  unused |-> {i \in DOMAIN tokens[f] : ~ tokens[f][i].used}]]

ImplementsLineage == Lineage!Spec
============================================================================
