--------------------------- MODULE SupportAccess ---------------------------
(***************************************************************************)
(* Support access of internal/service/platform_tenants.go: an owner        *)
(* consents for a time and a scope, the platform administrator starts one  *)
(* session on that consent and operates in it, and either of them ends the *)
(* session or revokes the consent, while the clock runs, the business is   *)
(* switched off, the owner suspended, the administrator logged out and the *)
(* tenant edits the same perfume.                                          *)
(*                                                                         *)
(* Authority is held by shared row locks up to the commit; what revokes it *)
(* needs the same rows exclusively.  Only time cannot be locked.           *)
(***************************************************************************)
EXTENDS Integers

CONSTANTS
  Requests,     \* requests in progress at the same time, one transaction each
  Consents,     \* bound: the support requests that can be created
  Families,     \* session families of the platform administrator
  Texts,        \* descriptions of the perfume
  MaxTime,      \* bound: the last value of the database clock
  Hour,         \* the longest consent, in ticks
  MaxVersion    \* bound: the last version of the perfume

ASSUME SupportAssumption ==
  /\ MaxTime \in Nat /\ Hour \in Nat \ {0} /\ MaxVersion \in Nat \ {0}
  /\ Texts # {} /\ Families \cap {"NONE", "owner"} = {}

VARIABLES
  consents,  \* table platform_support_requests
  sessions,  \* table platform_support_sessions, by the consent it was started on
  perfume,   \* the row that support may edit
  trading,   \* businesses.is_active
  serving,   \* the owner is an administrator with is_active
  live,      \* session families of the administrator without revoked_at
  clock,     \* the database clock
  tx         \* each request, with its transaction

vars == <<consents, sessions, perfume, trading, serving, live, clock, tx>>
grants == <<consents, sessions>>
outside == <<trading, serving, live, clock>>
----------------------------------------------------------------------------
(***************************************************************************)
(* Rows and requests                                                       *)
(***************************************************************************)
Times == 0 .. MaxTime
Scopes == {"READ_ONLY", "READ_WRITE"}

\* state is none before the row exists; until is expires_at.
Consent == [state : {"none", "given", "revoked"}, scope : Scopes, until : 0 .. MaxTime + Hour]
Session == [state : {"none", "running", "ended"}, family : Families \cup {"NONE"},
            until : 0 .. MaxTime + Hour]
Perfume == [version : 1 .. MaxVersion, text : Texts]

Kinds == {"none", "request", "start", "read", "write", "end", "revoke"}
Phases == {"idle", "called", "entered", "granted", "written", "valid"}

\* by is the owner or a family of the administrator; seen is what the editor's
\* client had read of the perfume.
Tx ==
  [phase : Phases, kind : Kinds, by : Families \cup {"owner"},
   consent : Consents \cup {"NONE"}, scope : Scopes, until : 0 .. MaxTime + Hour,
   seen : Perfume]

TypeOK ==
  /\ consents \in [Consents -> Consent]
  /\ sessions \in [Consents -> Session]
  /\ \A c \in Consents :
       sessions[c].state # "none" =>
         /\ consents[c].state # "none" /\ sessions[c].family # "NONE"
         /\ sessions[c].until <= consents[c].until
  /\ perfume \in Perfume
  /\ trading \in BOOLEAN /\ serving \in BOOLEAN
  /\ live \subseteq Families
  /\ clock \in Times
  /\ tx \in [Requests -> Tx]

Operations == {"read", "write"}
Open(r) == tx[r].phase \notin {"idle", "called"}
Granted(r) == tx[r].phase \in {"granted", "written", "valid"}

\* Rows that are shared: the business with the owner, a family of the
\* administrator, a consent with its session; and the consent a start holds alone.
OwnerShared == \E r \in Requests : Granted(r) \/ (Open(r) /\ tx[r].by = "owner")
FamilyShared(f) == \E r \in Requests : Open(r) /\ tx[r].by = f

\* A slip: SupportLockSession without r and s among its FOR SHARE.
GrantSharedForgotten(c) == FALSE

GrantShared(c) ==
  \E r \in Requests : Granted(r) /\ tx[r].kind \in Operations /\ tx[r].consent = c
ConsentHeld(c) ==
  \E r \in Requests : Granted(r) /\ tx[r].kind = "start" /\ tx[r].consent = c
PerfumeHeld == \E r \in Requests : tx[r].kind = "write" /\ tx[r].phase \in {"written", "valid"}

\* What SupportLockOwner, SupportLockRequest and SupportLockSession ask of a row.
OwnerInForce == trading /\ serving
ConsentInForce(c) == consents[c].state = "given" /\ consents[c].until > clock
SessionInForce(c) == sessions[c].state = "running" /\ sessions[c].until > clock

Move(r, phase) == tx' = [tx EXCEPT ![r].phase = phase]

IdleTx ==
  [phase |-> "idle", kind |-> "none", by |-> "owner", consent |-> "NONE",
   scope |-> "READ_ONLY", until |-> 0,
   seen |-> [version |-> 1, text |-> CHOOSE t \in Texts : TRUE]]
Finish(r) == tx' = [tx EXCEPT ![r] = IdleTx]

Init ==
  /\ consents = [c \in Consents |-> [state |-> "none", scope |-> "READ_ONLY", until |-> 0]]
  /\ sessions = [c \in Consents |-> [state |-> "none", family |-> "NONE", until |-> 0]]
  /\ perfume = [version |-> 1, text |-> CHOOSE t \in Texts : TRUE]
  /\ trading = TRUE /\ serving = TRUE
  /\ live = Families
  /\ clock = 0
  /\ tx = [r \in Requests |-> IdleTx]
----------------------------------------------------------------------------
(***************************************************************************)
(* Consent and session                                                     *)
(***************************************************************************)
Known == {c \in Consents : consents[c].state # "none"}

Ask(r, request) == tx' = [tx EXCEPT ![r] = request]

\* An owner asks within the hour; the administrator starts, operates or ends with
\* the family the middleware found; an editor's client has read the perfume.
AskForSupport(r) ==
  \E scope \in Scopes, h \in 1 .. Hour :
    Ask(r, [IdleTx EXCEPT !.phase = "called", !.kind = "request", !.scope = scope, !.until = clock + h])
AskToStart(r) ==
  \E c \in Known, f \in live :
    Ask(r, [IdleTx EXCEPT !.phase = "called", !.kind = "start", !.by = f, !.consent = c])
AskToOperate(r) ==
  \E c \in Known, f \in live, kind \in Operations :
    Ask(r, [IdleTx EXCEPT !.phase = "called", !.kind = kind, !.by = f, !.consent = c, !.seen = perfume])
AskToEnd(r) ==
  \E c \in Known, by \in live \cup {"owner"}, kind \in {"end", "revoke"} :
    Ask(r, [IdleTx EXCEPT !.phase = "called", !.kind = kind, !.by = by, !.consent = c])

Call(r) ==
  /\ tx[r].phase = "idle"
  /\ AskForSupport(r) \/ AskToStart(r) \/ AskToOperate(r) \/ AskToEnd(r)
  /\ UNCHANGED <<grants, perfume, outside>>

\* SupportLockOwner, or SupportGetPlatformFamily of platformTx.
SupportLockOwner(r) == tx[r].by = "owner" /\ OwnerInForce
SupportGetPlatformFamily(r) == tx[r].by # "owner" /\ tx[r].by \in live

Enter(r) ==
  /\ tx[r].phase = "called"
  /\ SupportLockOwner(r) \/ SupportGetPlatformFamily(r)
  /\ Move(r, "entered")
  /\ UNCHANGED <<grants, perfume, outside>>

SupportCreateRequest(scope, until) == [state |-> "given", scope |-> scope, until |-> until]

\* The row's CHECK refuses a consent that is past before it is written.
RequestSupport(r) ==
  /\ tx[r].phase = "entered" /\ tx[r].kind = "request"
  /\ tx[r].until > clock
  /\ \E c \in Consents \ Known :
       consents' = [consents EXCEPT ![c] = SupportCreateRequest(tx[r].scope, tx[r].until)]
  /\ Finish(r)
  /\ UNCHANGED <<sessions, perfume, outside>>

SupportLockRequest(r) ==
  LET c == tx[r].consent
  IN  /\ tx[r].phase = "entered" /\ tx[r].kind = "start"
      /\ ~ GrantShared(c) /\ ~ ConsentHeld(c)
      /\ ConsentInForce(c) /\ OwnerInForce
      /\ Move(r, "granted")
      /\ UNCHANGED <<grants, perfume, outside>>

SupportCreateSession(family, until) ==
  [state |-> "running", family |-> family, until |-> until]

\* A slip: a second session on the same consent replaces the first.
StartSupportAgain(r) ==
  /\ tx[r].phase = "granted" /\ tx[r].kind = "start"
  /\ sessions' = [sessions EXCEPT ![tx[r].consent] =
                    SupportCreateSession(tx[r].by, consents[tx[r].consent].until)]
  /\ Finish(r)
  /\ UNCHANGED <<consents, perfume, outside>>

\* support_request_id is unique, and the session's own CHECK compares the clock.
StartSupport(r) ==
  LET c == tx[r].consent
  IN  /\ tx[r].phase = "granted" /\ tx[r].kind = "start"
      /\ sessions[c].state = "none" /\ consents[c].until > clock
      /\ sessions' = [sessions EXCEPT ![c] = SupportCreateSession(tx[r].by, consents[c].until)]
      /\ Finish(r)
      /\ UNCHANGED <<consents, perfume, outside>>

\* The two UPDATEs of EndSupport wait for the rows, work after expiry too and leave
\* what is over as it is.
SupportEndSession(c) ==
  /\ sessions[c].state # "none"
  /\ ~ GrantShared(c)
  /\ sessions' = [sessions EXCEPT ![c].state = "ended"]
  /\ UNCHANGED consents

SupportRevokeRequest(c) ==
  /\ ~ GrantShared(c) /\ ~ ConsentHeld(c)
  /\ consents' = [consents EXCEPT ![c].state = "revoked"]
  /\ UNCHANGED sessions

EndSupport(r) ==
  /\ tx[r].phase = "entered"
  /\ \/ tx[r].kind = "end" /\ SupportEndSession(tx[r].consent)
     \/ tx[r].kind = "revoke" /\ SupportRevokeRequest(tx[r].consent)
  /\ Finish(r)
  /\ UNCHANGED <<perfume, outside>>
----------------------------------------------------------------------------
(***************************************************************************)
(* Operations                                                              *)
(***************************************************************************)
\* SupportLockSession, and the scope for a write.
SupportLockSession(r) ==
  LET c == tx[r].consent
  IN  /\ tx[r].phase = "entered" /\ tx[r].kind \in Operations
      /\ ~ ConsentHeld(c)
      /\ SessionInForce(c) /\ sessions[c].family = tx[r].by
      /\ ConsentInForce(c) /\ OwnerInForce
      /\ tx[r].kind = "write" => consents[c].scope = "READ_WRITE"
      /\ Move(r, "granted")
      /\ UNCHANGED <<grants, perfume, outside>>

\* The version is compared when the perfume is read ...
SupportGetPerfume(r) == perfume.version = tx[r].seen.version

\* ... and again by the UPDATE, whose row is held from here on.
SupportUpdatePerfumeDescription(r) ==
  /\ tx[r].phase = "granted" /\ tx[r].kind = "write"
  /\ ~ PerfumeHeld
  /\ SupportGetPerfume(r)
  /\ Move(r, "written")
  /\ UNCHANGED <<grants, perfume, outside>>

\* After the audit rows the database clock is read once more.
SupportSessionStillValid(r) ==
  /\ tx[r].phase = (IF tx[r].kind = "write" THEN "written" ELSE "granted")
  /\ tx[r].kind \in Operations
  /\ SessionInForce(tx[r].consent) /\ ConsentInForce(tx[r].consent)
  /\ Move(r, "valid")
  /\ UNCHANGED <<grants, perfume, outside>>

\* The commit of platformTx.
SupportOperation(r) ==
  /\ tx[r].phase = "valid"
  /\ IF tx[r].kind = "write"
       THEN /\ perfume.version < MaxVersion
            /\ \E t \in Texts : perfume' = [version |-> perfume.version + 1, text |-> t]
       ELSE UNCHANGED perfume
  /\ Finish(r)
  /\ UNCHANGED <<grants, outside>>

\* The early returns.
Refused(r) ==
  LET c == tx[r].consent
      phase == tx[r].phase
      kind == tx[r].kind
  IN  \/ phase = "called" /\ ~ (SupportLockOwner(r) \/ SupportGetPlatformFamily(r))
      \/ phase = "entered" /\ kind = "request" /\ tx[r].until <= clock
      \/ phase = "entered" /\ kind = "start" /\ ~ (ConsentInForce(c) /\ OwnerInForce)
      \/ phase = "granted" /\ kind = "start" /\ sessions[c].state # "none"
      \/ phase = "granted" /\ kind = "start" /\ consents[c].until <= clock
      \/ phase = "entered" /\ kind = "end" /\ sessions[c].state = "none"
      \/ /\ phase = "entered" /\ kind \in Operations
         /\ ~ (/\ SessionInForce(c) /\ sessions[c].family = tx[r].by
               /\ ConsentInForce(c) /\ OwnerInForce
               /\ kind = "write" => consents[c].scope = "READ_WRITE")
      \/ /\ phase = "granted" /\ kind = "write" /\ ~ PerfumeHeld
         /\ ~ SupportGetPerfume(r)
      \/ /\ phase = (IF kind = "write" THEN "written" ELSE "granted") /\ kind \in Operations
         /\ ~ (SessionInForce(c) /\ ConsentInForce(c))

Refuse(r) ==
  /\ Refused(r)
  /\ Finish(r)
  /\ UNCHANGED <<grants, perfume, outside>>

\* The ten seconds are over, the client disconnects or the process stops.
Rollback(r) ==
  /\ tx[r].phase # "idle"
  /\ Finish(r)
  /\ UNCHANGED <<grants, perfume, outside>>
----------------------------------------------------------------------------
(***************************************************************************)
(* The rest of the system                                                  *)
(***************************************************************************)
PlatformRevokeBusinessSupport ==
  consents' = [c \in Consents |->
                IF consents[c].state = "given" THEN [consents[c] EXCEPT !.state = "revoked"]
                                               ELSE consents[c]]

\* Activation, in the transaction that PlatformSessions models.
Activation ==
  /\ ~ OwnerShared
  /\ trading' = ~ trading
  /\ IF trading THEN PlatformRevokeBusinessSupport ELSE UNCHANGED consents
  /\ UNCHANGED <<sessions, perfume, serving, live, clock, tx>>

UpdateStaff ==
  /\ ~ OwnerShared
  /\ serving' = ~ serving
  /\ UNCHANGED <<grants, perfume, trading, live, clock, tx>>

Logout(f) ==
  /\ f \in live /\ ~ FamilyShared(f)
  /\ live' = live \ {f}
  /\ UNCHANGED <<grants, perfume, trading, serving, clock, tx>>

\* A slip: an edit by the tenant leaves the version.
UpdatePerfumeUnversioned ==
  /\ ~ PerfumeHeld
  /\ \E t \in Texts : perfume' = [perfume EXCEPT !.text = t]
  /\ UNCHANGED <<grants, outside, tx>>

\* The tenant's own edit is not compared with a version, and takes the next.
UpdatePerfume ==
  /\ ~ PerfumeHeld /\ perfume.version < MaxVersion
  /\ \E t \in Texts : perfume' = [version |-> perfume.version + 1, text |-> t]
  /\ UNCHANGED <<grants, outside, tx>>

Tick ==
  /\ clock < MaxTime
  /\ clock' = clock + 1
  /\ UNCHANGED <<grants, perfume, trading, serving, live, tx>>

Work(r) ==
  \/ Enter(r) \/ RequestSupport(r) \/ SupportLockRequest(r) \/ StartSupport(r)
  \/ EndSupport(r) \/ SupportLockSession(r) \/ SupportUpdatePerfumeDescription(r)
  \/ SupportSessionStillValid(r) \/ SupportOperation(r) \/ Refuse(r)

Outside ==
  Activation \/ UpdateStaff \/ (\E f \in Families : Logout(f)) \/ UpdatePerfume \/ Tick

Next == (\E r \in Requests : Call(r) \/ Work(r) \/ Rollback(r)) \/ Outside

Spec == Init /\ [][Next]_vars
----------------------------------------------------------------------------
(***************************************************************************)
(* Properties                                                              *)
(***************************************************************************)
\* Up to its commit an operation is covered: the consent stands and reaches as far
\* as the operation does, the session runs, the business trades, the owner is in
\* service and the administrator's family lives; "after the end/revoke operation
\* commits, later operations fail" and an earlier one was finished first
\* (SupportLockSession, EndSupport, Activation).
Covered(r) ==
  LET c == tx[r].consent
  IN  /\ consents[c].state = "given" /\ sessions[c].state = "running"
      /\ sessions[c].family = tx[r].by /\ tx[r].by \in live
      /\ OwnerInForce
      /\ tx[r].kind = "write" => consents[c].scope = "READ_WRITE"

OperationsCovered ==
  \A r \in Requests : Granted(r) /\ tx[r].kind \in Operations => Covered(r)

\* A write by support replaces exactly what its client had read, though the tenant
\* edits the same perfume without a version (UpdatePerfume, If-Match).
NoBlindEdit ==
  \A r \in Requests :
    tx[r].kind = "write" /\ tx[r].phase \in {"written", "valid"} => perfume = tx[r].seen

\* A consent carries one session: nothing revives one that ended, and a consent
\* that was revoked starts none (StartSupport, SupportEndSession, COALESCE).
OverIsOver ==
  [][\A c \in Consents :
       /\ sessions[c].state = "ended" => sessions'[c] = sessions[c]
       /\ consents[c].state = "revoked" =>
            consents'[c] = consents[c] /\ (sessions'[c].state = "running" => sessions'[c] = sessions[c])
     ]_vars

============================================================================
