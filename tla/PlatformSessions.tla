-------------------------- MODULE PlatformSessions --------------------------
(***************************************************************************)
(* PlatformAuthHandler of internal/handlers/platform_auth.go, platformTx   *)
(* of internal/service/platform_tenants.go and cmd/platform-bootstrap: the *)
(* one platform administrator is bootstrapped once, logs in, refreshes and *)
(* logs out, and runs privileged operations that keep his session family   *)
(* and his token shared until they commit.                                 *)
(***************************************************************************)
EXTENDS Integers, Sequences

CONSTANTS
  Requests,   \* requests and bootstraps in progress at the same time
  Families,   \* bound: the session families that can be created
  MaxTokens   \* bound: the refresh tokens of a family

ASSUME PlatformAssumption == MaxTokens \in Nat \ {0}

VARIABLES
  admins,   \* table platform_admins: the requests that inserted its rows
  created,  \* table platform_session_families
  revoked,  \* those with revoked_at
  tokens,   \* per family its platform_refresh_tokens in the order of creation
  tx        \* each request, with its transaction

vars == <<admins, created, revoked, tokens, tx>>
sessions == <<created, revoked, tokens>>
----------------------------------------------------------------------------
(***************************************************************************)
(* Rows and requests                                                       *)
(***************************************************************************)
Token == [used : BOOLEAN, stale : BOOLEAN]

Known == {t \in created \X (1 .. MaxTokens) : t[2] \in DOMAIN tokens[t[1]]}
TokenOf(t) == tokens[t[1]][t[2]]
NoToken == <<"NONE", 0>>
AnyToken == (Families \X (1 .. MaxTokens)) \cup {NoToken}

Kinds == {"none", "bootstrap", "login", "refresh", "logout", "operation"}
Phases ==
  {"idle", "inserted", "verified", "borne", "found", "locked", "fresh", "replayed", "shared"}
Tx == [phase : Phases, kind : Kinds, token : AnyToken, bearer : AnyToken]
IdleTx == [phase |-> "idle", kind |-> "none", token |-> NoToken, bearer |-> NoToken]

TypeOK ==
  /\ admins \subseteq Requests
  /\ created \subseteq Families /\ revoked \subseteq created
  /\ tokens \in [Families -> Seq(Token)]
  /\ \A f \in Families : Len(tokens[f]) <= MaxTokens /\ (tokens[f] = <<>> <=> f \notin created)
  /\ tx \in [Requests -> Tx]

GetActivePlatformAdmin == admins # {}

\* The row of a family FOR UPDATE, and those of a family and a token FOR SHARE.
FamilyOf(r) == IF tx[r].kind = "operation" THEN tx[r].bearer[1] ELSE tx[r].token[1]
FamilyHeld(f) ==
  \E r \in Requests : tx[r].phase \in {"locked", "fresh", "replayed"} /\ FamilyOf(r) = f

\* A slip: SupportGetPlatformFamily without its FOR SHARE.
FamilySharedForgotten(f) == FALSE

FamilyShared(f) == \E r \in Requests : tx[r].phase = "shared" /\ FamilyOf(r) = f

\* Of an administrator who is there: one that is not active is turned away by Login.
GetPlatformAdminForLogin == admins # {}

\* FindPlatformRefreshFamily: every token that was issued leads to its family.
FindPlatformRefreshFamily == Known

Start(r, request) == tx' = [tx EXCEPT ![r] = request]
Move(r, phase) == tx' = [tx EXCEPT ![r].phase = phase]
Finish(r) == tx' = [tx EXCEPT ![r] = IdleTx]
CreatePlatformSessionFamily(f) == created' = created \cup {f}
CreatePlatformRefreshToken == [used |-> FALSE, stale |-> FALSE]
RevokePlatformSessionFamily(f) == f \notin revoked /\ revoked' = revoked \cup {f}

Init ==
  /\ admins = {}
  /\ created = {} /\ revoked = {}
  /\ tokens = [f \in Families |-> <<>>]
  /\ tx = [r \in Requests |-> IdleTx]
----------------------------------------------------------------------------
(***************************************************************************)
(* Bootstrap                                                               *)
(***************************************************************************)
\* A slip: the id is left to a sequence.
IdTakenNever == FALSE

\* The primary key with its CHECK (id = 1): taken by a row that is committed, and
\* by one that is not until its transaction ends.
IdTaken == admins # {} \/ \E r \in Requests : tx[r].phase = "inserted"

Bootstrap(r) ==
  /\ tx[r].phase = "idle"
  /\ ~ IdTaken
  /\ Start(r, [IdleTx EXCEPT !.phase = "inserted", !.kind = "bootstrap"])
  /\ UNCHANGED <<admins, sessions>>

\* The administrator is committed with the audit row.
Bootstrapped(r) ==
  /\ tx[r].phase = "inserted"
  /\ admins' = admins \cup {r}
  /\ Finish(r)
  /\ UNCHANGED <<sessions>>
----------------------------------------------------------------------------
(***************************************************************************)
(* Login and refresh                                                       *)
(***************************************************************************)
\* GetPlatformAdminForLogin and the password, before the transaction begins.
Login(r) ==
  /\ tx[r].phase = "idle"
  /\ GetPlatformAdminForLogin
  /\ Start(r, [IdleTx EXCEPT !.phase = "verified", !.kind = "login"])
  /\ UNCHANGED <<admins, sessions>>

CreateSession(r) ==
  /\ tx[r].phase = "verified" /\ GetActivePlatformAdmin
  /\ \E f \in Families \ created :
       /\ CreatePlatformSessionFamily(f)
       /\ tokens' = [tokens EXCEPT ![f] = <<CreatePlatformRefreshToken>>]
  /\ Finish(r)
  /\ UNCHANGED <<admins, revoked>>

\* FindPlatformRefreshFamily, before the transaction begins.
Refresh(r) ==
  /\ tx[r].phase = "idle"
  /\ \E t \in FindPlatformRefreshFamily :
       Start(r, [IdleTx EXCEPT !.phase = "found", !.kind = "refresh", !.token = t])
  /\ UNCHANGED <<admins, sessions>>

\* A slip: the row is locked and its revoked_at is not looked at.
LockPlatformSessionFamilyAnyhow(r) ==
  /\ tx[r].phase = "found"
  /\ ~ FamilyHeld(FamilyOf(r)) /\ ~ FamilyShared(FamilyOf(r))
  /\ Move(r, "locked")
  /\ UNCHANGED <<admins, sessions>>

LockPlatformSessionFamily(r) ==
  /\ tx[r].phase = "found"
  /\ ~ FamilyHeld(FamilyOf(r)) /\ ~ FamilyShared(FamilyOf(r))
  /\ FamilyOf(r) \notin revoked
  /\ Move(r, "locked")
  /\ UNCHANGED <<admins, sessions>>

\* A token that was used before is a replay, expired or not.
GetPlatformRefreshForUpdate(r) ==
  LET t == TokenOf(tx[r].token)
  IN  /\ tx[r].phase = "locked" /\ tx[r].kind = "refresh"
      /\ \/ t.used /\ Move(r, "replayed")
         \/ ~ t.used /\ ~ t.stale /\ Move(r, "fresh")
      /\ UNCHANGED <<admins, sessions>>

Contain(r) ==
  /\ tx[r].phase = "replayed"
  /\ RevokePlatformSessionFamily(FamilyOf(r))
  /\ Finish(r)
  /\ UNCHANGED <<admins, created, tokens>>

\* The one row it affects is unused.
RevokePlatformRefreshToken(t) == ~ TokenOf(t).used

Rotate(r) ==
  LET f == tx[r].token[1]
      i == tx[r].token[2]
  IN  /\ tx[r].phase = "fresh"
      /\ GetActivePlatformAdmin
      /\ Len(tokens[f]) < MaxTokens
      /\ RevokePlatformRefreshToken(tx[r].token)
      /\ tokens' = [tokens EXCEPT ![f] =
                      Append([@ EXCEPT ![i].used = TRUE], CreatePlatformRefreshToken)]
      /\ Finish(r)
      /\ UNCHANGED <<admins, created, revoked>>
----------------------------------------------------------------------------
(***************************************************************************)
(* Logout and privileged operations                                        *)
(***************************************************************************)
GetPlatformLogoutSession(t) == ~ TokenOf(t).stale /\ t[1] \notin revoked
GetActivePlatformSession(t) == GetPlatformLogoutSession(t) /\ ~ TokenOf(t).used

\* The middleware, before any transaction.
AuthenticatePlatform(r) ==
  /\ tx[r].phase = "idle"
  /\ GetActivePlatformAdmin
  /\ \E t \in Known, kind \in {"logout", "operation"} :
       /\ IF kind = "logout" THEN GetPlatformLogoutSession(t) ELSE GetActivePlatformSession(t)
       /\ Start(r, [IdleTx EXCEPT !.phase = "borne", !.kind = kind, !.bearer = t])
  /\ UNCHANGED <<admins, sessions>>

\* The token in the body names the family.
Logout(r) ==
  /\ tx[r].phase = "borne" /\ tx[r].kind = "logout"
  /\ \E t \in FindPlatformRefreshFamily :
       tx' = [tx EXCEPT ![r] = [@ EXCEPT !.phase = "found", !.token = t]]
  /\ UNCHANGED <<admins, sessions>>

GetPlatformRefreshByID(r) == tx[r].bearer[1] = tx[r].token[1]

EndSession(r) ==
  /\ tx[r].phase = "locked" /\ tx[r].kind = "logout"
  /\ GetPlatformRefreshByID(r)
  /\ RevokePlatformSessionFamily(FamilyOf(r))
  /\ Finish(r)
  /\ UNCHANGED <<admins, created, tokens>>

\* platformTx begins: the session is looked at again, and shared.
SupportGetPlatformFamily(r) ==
  /\ tx[r].phase = "borne" /\ tx[r].kind = "operation"
  /\ ~ FamilyHeld(FamilyOf(r))
  /\ GetActivePlatformSession(tx[r].bearer)
  /\ Move(r, "shared")
  /\ UNCHANGED <<admins, sessions>>

\* ... and ends, with the operation done.
platformTx(r) ==
  /\ tx[r].phase = "shared"
  /\ Finish(r)
  /\ UNCHANGED <<admins, sessions>>

Refused(r) ==
  LET t == tx[r].token
  IN  \/ tx[r].phase = "found" /\ ~ FamilyHeld(FamilyOf(r)) /\ FamilyOf(r) \in revoked
      \/ tx[r].phase = "locked" /\ tx[r].kind = "refresh" /\ ~ TokenOf(t).used /\ TokenOf(t).stale
      \/ tx[r].phase = "locked" /\ tx[r].kind = "logout" /\ ~ GetPlatformRefreshByID(r)
      \/ tx[r].phase = "fresh" /\ TokenOf(t).used
      \/ /\ tx[r].phase = "borne" /\ tx[r].kind = "operation" /\ ~ FamilyHeld(FamilyOf(r))
         /\ ~ GetActivePlatformSession(tx[r].bearer)

Refuse(r) ==
  /\ Refused(r)
  /\ Finish(r)
  /\ UNCHANGED <<admins, sessions>>

\* The client disconnects, or the ten seconds of an operation are over: all is
\* rolled back but the containment of a replay.
HangUp(r) ==
  /\ tx[r].phase \notin {"idle", "replayed"}
  /\ Finish(r)
  /\ UNCHANGED <<admins, sessions>>

Expire(t) ==
  /\ ~ TokenOf(t).stale
  /\ tokens' = [tokens EXCEPT ![t[1]] = [@ EXCEPT ![t[2]].stale = TRUE]]
  /\ UNCHANGED <<admins, created, revoked, tx>>

Arrive(r) ==
  Bootstrap(r) \/ Login(r) \/ Refresh(r) \/ AuthenticatePlatform(r)

Work(r) ==
  \/ Bootstrapped(r) \/ CreateSession(r)
  \/ LockPlatformSessionFamily(r) \/ GetPlatformRefreshForUpdate(r) \/ Contain(r) \/ Rotate(r)
  \/ Logout(r) \/ EndSession(r) \/ SupportGetPlatformFamily(r) \/ platformTx(r) \/ Refuse(r)

Next ==
  \/ \E r \in Requests : Arrive(r) \/ Work(r) \/ HangUp(r)
  \/ \E t \in Known : Expire(t)

Spec == Init /\ [][Next]_vars
----------------------------------------------------------------------------
(***************************************************************************)
(* Properties                                                              *)
(***************************************************************************)
\* Bootstraps that race leave one administrator ("Bootstrap creates id 1 exactly
\* once").
OneAdministrator == \A r, s \in admins : r = s

\* While a privileged operation runs its family lives and its token is unused, up
\* to its commit: "The session-family lock also serializes privileged operations
\* with logout", and with refresh and the containment of a replay (platformTx).
PrivilegedWhileLive ==
  \A r \in Requests :
    tx[r].phase = "shared" => FamilyOf(r) \notin revoked /\ ~ TokenOf(tx[r].bearer).used

\* The platform's sessions implement the lineages of RefreshLineage.
Lineage ==
  INSTANCE RefreshLineage WITH
    lineage <- [f \in Families |->
                 [state |-> IF f \in revoked THEN "revoked"
                            ELSE IF f \in created THEN "live" ELSE "none",
                  unused |-> {i \in DOMAIN tokens[f] : ~ tokens[f][i].used}]]

ImplementsLineage == Lineage!Spec
============================================================================
