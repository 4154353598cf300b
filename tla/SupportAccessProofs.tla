------------------------- MODULE SupportAccessProofs -------------------------
(***************************************************************************)
(* Proofs about SupportAccess, for any number of requests, consents,       *)
(* families and texts, and for any length of time.                         *)
(*                                                                         *)
(* What an operation was granted on is shared until it commits, so nothing *)
(* takes it away; what a start was granted on is held.  A version is given *)
(* to one text only, so that two equal versions are the same perfume.      *)
(***************************************************************************)
EXTENDS SupportAccess, TLAPS

Editing(r) == tx[r].kind = "write" /\ tx[r].phase \in {"written", "valid"}
OnConsent == {"start", "read", "write", "end", "revoke"}

\* How far a request got, what it named, and what it may count on.
Current(r) ==
  /\ tx[r].phase = "granted" => tx[r].kind \in {"start", "read", "write"}
  /\ tx[r].phase = "written" => tx[r].kind = "write"
  /\ tx[r].phase = "valid" => tx[r].kind \in Operations
  /\ tx[r].kind \in OnConsent => tx[r].consent \in Consents
  /\ tx[r].kind \in {"start", "read", "write"} => tx[r].by \in Families
  /\ Open(r) /\ tx[r].kind \in Operations => tx[r].by \in live
  /\ Granted(r) => consents[tx[r].consent].state = "given"
  /\ Granted(r) /\ tx[r].kind \in Operations => Covered(r)
  /\ tx[r].kind = "write" =>
       /\ tx[r].seen.version <= perfume.version
       /\ tx[r].seen.version = perfume.version => tx[r].seen = perfume
  /\ Editing(r) => perfume = tx[r].seen

OneEdits == \A r, s \in Requests : Editing(r) /\ Editing(s) => r = s

SupportInv == OneEdits /\ \A r \in Requests : Current(r)
----------------------------------------------------------------------------
(***************************************************************************)
(* Types                                                                   *)
(***************************************************************************)
LEMMA IdleTxType == IdleTx \in Tx /\ IdleTx.phase = "idle" /\ IdleTx.kind = "none"
  <1>1. (CHOOSE t \in Texts : TRUE) \in Texts
    BY SupportAssumption
  <1> QED BY <1>1, SupportAssumption DEF IdleTx, Tx, Phases, Kinds, Scopes, Perfume, Times

LEMMA FinishFacts ==
  ASSUME TypeOK, NEW r \in Requests, Finish(r)
  PROVE  /\ tx' \in [Requests -> Tx] /\ tx'[r] = IdleTx
         /\ \A s \in Requests \ {r} : tx'[s] = tx[s]
  BY IdleTxType DEF Finish, TypeOK

\* A step by which only the phase of a request changes.
Steps(r, p) ==
  /\ tx'[r].phase = p /\ tx'[r].kind = tx[r].kind /\ tx'[r].by = tx[r].by
  /\ tx'[r].consent = tx[r].consent /\ tx'[r].scope = tx[r].scope
  /\ tx'[r].until = tx[r].until /\ tx'[r].seen = tx[r].seen
  /\ \A s \in Requests \ {r} : tx'[s] = tx[s]

LEMMA MoveFacts ==
  ASSUME TypeOK, NEW r \in Requests, NEW p \in Phases, Move(r, p)
  PROVE  tx' \in [Requests -> Tx] /\ Steps(r, p)
  <1>1. tx \in [Requests -> Tx] BY DEF TypeOK
  <1> QED BY <1>1 DEF Move, Tx, Steps

\* What a request asks for.
Asks(r) ==
  /\ tx'[r].phase = "called"
  /\ tx'[r].kind \in OnConsent => tx'[r].consent \in Known
  /\ tx'[r].kind \in {"start", "read", "write"} => tx'[r].by \in Families
  /\ tx'[r].kind = "write" => tx'[r].seen = perfume

LEMMA CallFacts ==
  ASSUME TypeOK, NEW r \in Requests, Call(r)
  PROVE  /\ tx' \in [Requests -> Tx] /\ Asks(r) /\ \A s \in Requests \ {r} : tx'[s] = tx[s]
         /\ tx[r].phase = "idle" /\ UNCHANGED <<grants, perfume, outside>>
  <1>1. \E x \in Tx : /\ tx' = [tx EXCEPT ![r] = x] /\ x.phase = "called"
                      /\ x.kind \in OnConsent => x.consent \in Known
                      /\ x.kind \in {"start", "read", "write"} => x.by \in Families
                      /\ x.kind = "write" => x.seen = perfume
    <2>1. CASE AskForSupport(r)
      <3>1. PICK scope \in Scopes, h \in 1 .. Hour :
              tx' = [tx EXCEPT ![r] = [IdleTx EXCEPT !.phase = "called", !.kind = "request",
                                                     !.scope = scope, !.until = clock + h]]
        BY <2>1 DEF AskForSupport, Ask
      <3>2. clock + h \in 0 .. MaxTime + Hour
        BY SupportAssumption DEF TypeOK, Times
      <3> DEFINE x == [IdleTx EXCEPT !.phase = "called", !.kind = "request",
                  !.scope = scope, !.until = clock + h]
      <3>3. x \in Tx
        BY <3>2, IdleTxType DEF Tx, Phases, Kinds, Operations
      <3>4. /\ x.phase = "called"
            /\ x.kind \in OnConsent => x.consent \in Known
            /\ x.kind \in {"start", "read", "write"} => x.by \in Families
            /\ x.kind = "write" => x.seen = perfume
        BY <3>2, IdleTxType DEF Tx, OnConsent, Operations
      <3>5. tx' = [tx EXCEPT ![r] = x]
        BY <3>1
      <3> HIDE DEF x
      <3> QED BY <3>3, <3>4, <3>5
    <2>2. CASE AskToStart(r)
      <3>1. PICK c \in Known, f \in live :
              tx' = [tx EXCEPT ![r] = [IdleTx EXCEPT !.phase = "called", !.kind = "start",
                                                     !.by = f, !.consent = c]]
        BY <2>2 DEF AskToStart, Ask
      <3>2. c \in Consents /\ f \in Families
        BY DEF Known, TypeOK
      <3> DEFINE x == [IdleTx EXCEPT !.phase = "called", !.kind = "start",
                  !.by = f, !.consent = c]
      <3>3. x \in Tx
        BY <3>2, IdleTxType DEF Tx, Phases, Kinds, Operations
      <3>4. /\ x.phase = "called"
            /\ x.kind \in OnConsent => x.consent \in Known
            /\ x.kind \in {"start", "read", "write"} => x.by \in Families
            /\ x.kind = "write" => x.seen = perfume
        BY <3>2, IdleTxType DEF Tx, OnConsent, Operations
      <3>5. tx' = [tx EXCEPT ![r] = x]
        BY <3>1
      <3> HIDE DEF x
      <3> QED BY <3>3, <3>4, <3>5
    <2>3. CASE AskToOperate(r)
      <3>1. PICK c \in Known, f \in live, kind \in Operations :
              tx' = [tx EXCEPT ![r] = [IdleTx EXCEPT !.phase = "called", !.kind = kind,
                                                     !.by = f, !.consent = c, !.seen = perfume]]
        BY <2>3 DEF AskToOperate, Ask
      <3>2. c \in Consents /\ f \in Families /\ perfume \in Perfume
        BY DEF Known, TypeOK
      <3> DEFINE x == [IdleTx EXCEPT !.phase = "called", !.kind = kind,
                  !.by = f, !.consent = c, !.seen = perfume]
      <3>3. x \in Tx
        BY <3>2, IdleTxType DEF Tx, Phases, Kinds, Operations
      <3>4. /\ x.phase = "called"
            /\ x.kind \in OnConsent => x.consent \in Known
            /\ x.kind \in {"start", "read", "write"} => x.by \in Families
            /\ x.kind = "write" => x.seen = perfume
        BY <3>2, IdleTxType DEF Tx, OnConsent, Operations
      <3>5. tx' = [tx EXCEPT ![r] = x]
        BY <3>1
      <3> HIDE DEF x
      <3> QED BY <3>3, <3>4, <3>5
    <2>4. CASE AskToEnd(r)
      <3>1. PICK c \in Known, by \in live \cup {"owner"}, kind \in {"end", "revoke"} :
              tx' = [tx EXCEPT ![r] = [IdleTx EXCEPT !.phase = "called", !.kind = kind,
                                                     !.by = by, !.consent = c]]
        BY <2>4 DEF AskToEnd, Ask
      <3>2. c \in Consents /\ by \in Families \cup {"owner"}
        BY DEF Known, TypeOK
      <3> DEFINE x == [IdleTx EXCEPT !.phase = "called", !.kind = kind,
                  !.by = by, !.consent = c]
      <3>3. x \in Tx
        BY <3>2, IdleTxType DEF Tx, Phases, Kinds, Operations
      <3>4. /\ x.phase = "called"
            /\ x.kind \in OnConsent => x.consent \in Known
            /\ x.kind \in {"start", "read", "write"} => x.by \in Families
            /\ x.kind = "write" => x.seen = perfume
        BY <3>2, IdleTxType DEF Tx, OnConsent, Operations
      <3>5. tx' = [tx EXCEPT ![r] = x]
        BY <3>1
      <3> HIDE DEF x
      <3> QED BY <3>3, <3>4, <3>5
    <2> QED BY <2>1, <2>2, <2>3, <2>4 DEF Call
  <1>2. tx[r].phase = "idle" /\ UNCHANGED <<grants, perfume, outside>>
    BY DEF Call
  <1> QED BY <1>1, <1>2 DEF TypeOK, Asks

\* The steps that look and lock, and write nothing.
Looks(r) ==
  \/ Call(r) \/ Enter(r) \/ SupportLockRequest(r) \/ SupportLockSession(r)
  \/ SupportUpdatePerfumeDescription(r) \/ SupportSessionStillValid(r)
  \/ Refuse(r) \/ Rollback(r)

LEMMA LooksFacts ==
  ASSUME TypeOK, NEW r \in Requests, Looks(r)
  PROVE  /\ tx' \in [Requests -> Tx] /\ UNCHANGED <<grants, perfume, outside>>
         /\ \A s \in Requests \ {r} : tx'[s] = tx[s]
  <1>1. CASE Call(r)
    BY <1>1, CallFacts
  <1>2. CASE Enter(r) \/ SupportLockRequest(r) \/ SupportLockSession(r) \/ SupportUpdatePerfumeDescription(r)
    <2>1. PICK p \in Phases : Move(r, p) /\ UNCHANGED <<grants, perfume, outside>>
      BY <1>2 DEF Enter, SupportLockRequest, SupportLockSession, SupportUpdatePerfumeDescription, Phases
    <2> QED BY <2>1, MoveFacts DEF Steps
  <1>3. CASE SupportSessionStillValid(r)
    BY <1>3, MoveFacts DEF Steps, SupportSessionStillValid, Phases
  <1>4. CASE Refuse(r) \/ Rollback(r)
    BY <1>4, FinishFacts DEF Refuse, Rollback
  <1> QED BY <1>1, <1>2, <1>3, <1>4 DEF Looks
----------------------------------------------------------------------------
(***************************************************************************)
(* The steps that write                                                    *)
(***************************************************************************)
LEMMA RequestSupportFacts ==
  ASSUME TypeOK, NEW r \in Requests, RequestSupport(r)
  PROVE  /\ consents' \in [Consents -> Consent]
         /\ \A c \in Known : consents'[c] = consents[c]
         /\ Finish(r) /\ UNCHANGED <<sessions, perfume, outside>>
  <1>1. PICK c \in Consents \ Known :
          consents' = [consents EXCEPT ![c] = SupportCreateRequest(tx[r].scope, tx[r].until)]
    BY DEF RequestSupport
  <1>2. tx[r] \in Tx /\ consents \in [Consents -> Consent]
    BY DEF TypeOK
  <1>3. SupportCreateRequest(tx[r].scope, tx[r].until) \in Consent
    BY <1>2 DEF Tx, SupportCreateRequest, Consent
  <1>4. \A d \in Known : d \in Consents /\ d # c
    BY DEF Known
  <1>5. Finish(r) /\ UNCHANGED <<sessions, perfume, outside>>
    BY DEF RequestSupport
  <1> QED BY <1>1, <1>2, <1>3, <1>4, <1>5

LEMMA StartSupportFacts ==
  ASSUME TypeOK, SupportInv, NEW r \in Requests, StartSupport(r)
  PROVE  \E c \in Consents :
           /\ consents[c].state = "given" /\ sessions[c].state = "none"
           /\ sessions' \in [Consents -> Session]
           /\ sessions'[c].state = "running" /\ sessions'[c].family \in Families
           /\ sessions'[c].until = consents[c].until
           /\ \A d \in Consents \ {c} : sessions'[d] = sessions[d]
           /\ Finish(r) /\ UNCHANGED <<consents, perfume, outside>>
  <1> DEFINE c == tx[r].consent
             row == SupportCreateSession(tx[r].by, consents[c].until)
  <1>1. /\ tx[r].phase = "granted" /\ tx[r].kind = "start" /\ sessions[c].state = "none"
        /\ sessions' = [sessions EXCEPT ![c] = row]
        /\ Finish(r) /\ UNCHANGED <<consents, perfume, outside>>
    BY DEF StartSupport
  <1>2. c \in Consents /\ tx[r].by \in Families /\ consents[c].state = "given"
    BY <1>1 DEF SupportInv, Current, OnConsent, Granted
  <1>3. consents[c] \in Consent /\ sessions \in [Consents -> Session]
    BY <1>2 DEF TypeOK
  <1>4. /\ row \in Session /\ row.state = "running" /\ row.family \in Families
        /\ row.until = consents[c].until
    BY <1>2, <1>3 DEF SupportCreateSession, Session, Consent
  <1> HIDE DEF c, row
  <1>5. /\ sessions' \in [Consents -> Session] /\ sessions'[c] = row
        /\ \A d \in Consents \ {c} : sessions'[d] = sessions[d]
    BY <1>1, <1>2, <1>3, <1>4
  <1> QED BY <1>1, <1>2, <1>4, <1>5 DEF c

\* Ending changes the state of one session, and revoking that of one consent.
LEMMA EndSupportFacts ==
  ASSUME TypeOK, NEW r \in Requests, EndSupport(r)
  PROVE  /\ consents' \in [Consents -> Consent] /\ sessions' \in [Consents -> Session]
         /\ \A c \in Consents :
              /\ \/ consents'[c] = consents[c]
                 \/ /\ ~ GrantShared(c) /\ ~ ConsentHeld(c)
                    /\ consents'[c] = [consents[c] EXCEPT !.state = "revoked"]
              /\ \/ sessions'[c] = sessions[c]
                 \/ /\ ~ GrantShared(c) /\ sessions[c].state # "none"
                    /\ sessions'[c] = [sessions[c] EXCEPT !.state = "ended"]
         /\ Finish(r) /\ UNCHANGED <<perfume, outside>>
  <1>1. consents \in [Consents -> Consent] /\ sessions \in [Consents -> Session]
    BY DEF TypeOK
  <1>2. Finish(r) /\ UNCHANGED <<perfume, outside>>
    BY DEF EndSupport
  <1> DEFINE c == tx[r].consent
  <1>3. CASE SupportEndSession(c)
    BY <1>1, <1>2, <1>3 DEF SupportEndSession, Session
  <1>4. CASE SupportRevokeRequest(c)
    BY <1>1, <1>2, <1>4 DEF SupportRevokeRequest, Consent
  <1> QED BY <1>3, <1>4 DEF EndSupport

LEMMA ActivationFacts ==
  ASSUME TypeOK, Activation
  PROVE  /\ consents' \in [Consents -> Consent] /\ ~ OwnerShared /\ trading' \in BOOLEAN
         /\ \A c \in Consents :
              \/ consents'[c] = consents[c]
              \/ /\ consents[c].state = "given"
                 /\ consents'[c] = [consents[c] EXCEPT !.state = "revoked"]
         /\ UNCHANGED <<sessions, perfume, serving, live, clock, tx>>
  <1>1. consents \in [Consents -> Consent]
    BY DEF TypeOK
  <1>2. /\ ~ OwnerShared /\ trading' \in BOOLEAN
        /\ UNCHANGED <<sessions, perfume, serving, live, clock, tx>>
    BY DEF Activation
  <1>3. CASE PlatformRevokeBusinessSupport
    BY <1>1, <1>2, <1>3 DEF PlatformRevokeBusinessSupport, Consent
  <1>4. CASE UNCHANGED consents
    BY <1>1, <1>2, <1>4
  <1> QED BY <1>3, <1>4 DEF Activation

\* A perfume that changes gets the version after its own.
Edited == perfume' \in Perfume /\ perfume'.version = perfume.version + 1

LEMMA EditedFacts ==
  ASSUME TypeOK, perfume.version < MaxVersion, NEW t \in Texts,
         perfume' = [version |-> perfume.version + 1, text |-> t]
  PROVE  Edited
  <1>1. perfume.version \in 1 .. MaxVersion /\ MaxVersion \in Nat
    BY SupportAssumption DEF TypeOK, Perfume
  <1>2. perfume.version + 1 \in 1 .. MaxVersion
    BY <1>1
  <1> QED BY <1>2 DEF Perfume, Edited

LEMMA SupportOperationFacts ==
  ASSUME TypeOK, SupportInv, NEW r \in Requests, SupportOperation(r)
  PROVE  /\ perfume' = perfume \/ (Editing(r) /\ Edited)
         /\ Finish(r) /\ UNCHANGED <<grants, outside>>
  <1>1. CASE tx[r].kind = "write"
    <2>1. Editing(r)
      BY <1>1 DEF SupportOperation, Editing
    <2> QED BY <1>1, <2>1, EditedFacts DEF SupportOperation
  <1>2. CASE tx[r].kind # "write"
    BY <1>2 DEF SupportOperation
  <1> QED BY <1>1, <1>2

LEMMA UpdatePerfumeFacts ==
  ASSUME TypeOK, UpdatePerfume
  PROVE  Edited /\ ~ PerfumeHeld /\ UNCHANGED <<grants, outside, tx>>
  BY EditedFacts DEF UpdatePerfume
----------------------------------------------------------------------------
LEMMA TypeNext ==
  ASSUME TypeOK, SupportInv, [Next]_vars PROVE TypeOK'
  <1>1. ASSUME NEW r \in Requests, Looks(r) PROVE TypeOK'
    BY <1>1, LooksFacts DEF TypeOK, grants, outside
  <1>2. ASSUME NEW r \in Requests, RequestSupport(r) PROVE TypeOK'
    <2>1. /\ consents' \in [Consents -> Consent] /\ \A c \in Known : consents'[c] = consents[c]
          /\ UNCHANGED <<sessions, perfume, outside>> /\ tx' \in [Requests -> Tx]
      BY <1>2, RequestSupportFacts, FinishFacts
    <2>2. \A c \in Consents : sessions[c].state # "none" => consents'[c] = consents[c]
      BY <2>1 DEF TypeOK, Known
    <2> QED BY <2>1, <2>2 DEF TypeOK, outside
  <1>3. ASSUME NEW r \in Requests, StartSupport(r) PROVE TypeOK'
    <2>1. PICK c \in Consents :
            /\ consents[c].state = "given"
            /\ sessions' \in [Consents -> Session]
            /\ sessions'[c].state = "running" /\ sessions'[c].family \in Families
            /\ sessions'[c].until = consents[c].until
            /\ \A d \in Consents \ {c} : sessions'[d] = sessions[d]
            /\ Finish(r) /\ UNCHANGED <<consents, perfume, outside>>
      BY <1>3, StartSupportFacts
    <2>2. sessions'[c].family # "NONE" /\ consents[c].until \in 0 .. MaxTime + Hour
      BY <2>1, SupportAssumption DEF TypeOK, Consent
    <2>3. \A d \in Consents :
            sessions'[d].state # "none" =>
              /\ consents'[d].state # "none" /\ sessions'[d].family # "NONE"
              /\ sessions'[d].until <= consents'[d].until
      BY <2>1, <2>2, SupportAssumption DEF TypeOK
    <2>4. tx' \in [Requests -> Tx]
      BY <2>1, FinishFacts
    <2> QED BY <2>1, <2>3, <2>4 DEF TypeOK, outside
  <1>4. ASSUME NEW r \in Requests, EndSupport(r) PROVE TypeOK'
    <2>1. /\ consents' \in [Consents -> Consent] /\ sessions' \in [Consents -> Session]
          /\ tx' \in [Requests -> Tx] /\ UNCHANGED <<perfume, outside>>
      BY <1>4, EndSupportFacts, FinishFacts
    <2>2. ASSUME NEW c \in Consents
          PROVE  /\ consents'[c].until = consents[c].until
                 /\ consents[c].state # "none" => consents'[c].state # "none"
                 /\ sessions'[c].until = sessions[c].until /\ sessions'[c].family = sessions[c].family
                 /\ sessions'[c].state # "none" => sessions[c].state # "none"
      <3>1. consents[c] \in Consent /\ sessions[c] \in Session
        BY DEF TypeOK
      <3>2. consents'[c] = consents[c] \/ consents'[c] = [consents[c] EXCEPT !.state = "revoked"]
        BY <1>4, EndSupportFacts
      <3>3. \/ sessions'[c] = sessions[c]
            \/ /\ sessions[c].state # "none"
               /\ sessions'[c] = [sessions[c] EXCEPT !.state = "ended"]
        BY <1>4, EndSupportFacts
      <3> QED BY <3>1, <3>2, <3>3 DEF Consent, Session
    <2> QED BY <2>1, <2>2 DEF TypeOK, outside
  <1>5. ASSUME NEW r \in Requests, SupportOperation(r) PROVE TypeOK'
    BY <1>5, SupportOperationFacts, FinishFacts DEF TypeOK, grants, outside, Edited
  <1>6. CASE Activation
    <2>1. /\ consents' \in [Consents -> Consent] /\ trading' \in BOOLEAN
          /\ UNCHANGED <<sessions, perfume, serving, live, clock, tx>>
      BY <1>6, ActivationFacts
    <2>2. ASSUME NEW c \in Consents
          PROVE  /\ consents'[c].until = consents[c].until
                 /\ consents[c].state # "none" => consents'[c].state # "none"
      <3>1. consents[c] \in Consent
        BY DEF TypeOK
      <3> QED BY <1>6, <3>1, ActivationFacts DEF Consent
    <2> QED BY <2>1, <2>2 DEF TypeOK
  <1>7. CASE UpdateStaff \/ UpdatePerfume
    BY <1>7, UpdatePerfumeFacts DEF TypeOK, UpdateStaff, grants, outside, Edited
  <1>8. ASSUME NEW f \in Families, Logout(f) PROVE TypeOK'
    BY <1>8 DEF TypeOK, Logout, grants
  <1>9. CASE Tick
    <2>1. clock' \in Times
      BY <1>9, SupportAssumption DEF Tick, TypeOK, Times
    <2> QED BY <1>9, <2>1 DEF TypeOK, Tick, grants
  <1>10. CASE UNCHANGED vars
    BY <1>10 DEF vars, TypeOK
  <1> QED BY <1>1, <1>2, <1>3, <1>4, <1>5, <1>6, <1>7, <1>8, <1>9, <1>10
          DEF Next, Work, Outside, Looks
----------------------------------------------------------------------------
(***************************************************************************)
(* What a request counts on stays as it was                                *)
(***************************************************************************)
\* The rows that request s shares or holds are left alone, and the perfume is left
\* alone or gets the next version, which nobody who has edited it lets happen.
Leaves(s) ==
  /\ Granted(s) => consents'[tx[s].consent] = consents[tx[s].consent]
  /\ Granted(s) /\ tx[s].kind \in Operations =>
       /\ sessions'[tx[s].consent] = sessions[tx[s].consent]
       /\ trading' = trading /\ serving' = serving
  /\ Open(s) /\ tx[s].by \in live => tx[s].by \in live'
  /\ perfume' = perfume \/ (Edited /\ ~ Editing(s))

LEMMA StaysCurrent ==
  ASSUME TypeOK, NEW s \in Requests, Current(s), tx'[s] = tx[s], Leaves(s)
  PROVE  Current(s)' /\ (Editing(s)' <=> Editing(s))
  <1>1. (Editing(s)' <=> Editing(s)) /\ (Granted(s)' <=> Granted(s)) /\ (Open(s)' <=> Open(s))
        /\ (Granted(s) => Open(s))
    BY DEF Editing, Granted, Open
  <1>2. /\ Granted(s) => consents'[tx'[s].consent].state = "given"
        /\ Granted(s) /\ tx[s].kind \in Operations => Covered(s)'
        /\ Open(s) /\ tx[s].kind \in Operations => tx'[s].by \in live'
    BY <1>1 DEF Current, Leaves, Covered, OwnerInForce
  <1>3. tx[s].kind = "write" =>
          /\ tx'[s].seen.version <= perfume'.version
          /\ tx'[s].seen.version = perfume'.version => tx'[s].seen = perfume'
    <2>1. perfume.version \in Nat /\ (tx[s].kind = "write" => tx[s].seen.version \in Nat)
      BY SupportAssumption DEF TypeOK, Perfume, Tx
    <2>2. CASE perfume' = perfume
      BY <2>2 DEF Current
    <2>3. CASE perfume' # perfume
      BY <2>1, <2>3 DEF Current, Leaves, Edited
    <2> QED BY <2>2, <2>3
  <1>4. Editing(s) => perfume' = tx'[s].seen
    BY DEF Current, Leaves
  <1> QED BY <1>1, <1>2, <1>3, <1>4 DEF Current

\* All but request r stay as they are, and r edits only if nobody else does.
LEMMA InvStep ==
  ASSUME TypeOK, SupportInv, NEW r \in Requests, \A s \in Requests \ {r} : tx'[s] = tx[s],
         Current(r)', \A s \in Requests \ {r} : Leaves(s),
         Editing(r)' => Editing(r) \/ \A s \in Requests : ~ Editing(s)
  PROVE  SupportInv'
  <1>1. \A s \in Requests \ {r} : Current(s)' /\ (Editing(s)' <=> Editing(s))
    BY StaysCurrent DEF SupportInv
  <1>2. OneEdits'
    BY <1>1 DEF SupportInv, OneEdits
  <1> QED BY <1>1, <1>2 DEF SupportInv

LEMMA InvOutside ==
  ASSUME TypeOK, SupportInv, tx' = tx, \A s \in Requests : Leaves(s)
  PROVE  SupportInv'
  <1>1. \A s \in Requests : Current(s)' /\ (Editing(s)' <=> Editing(s))
    BY StaysCurrent DEF SupportInv
  <1> QED BY <1>1 DEF SupportInv, OneEdits

\* Who is done counts on nothing.
LEMMA IdleIsCurrent ==
  ASSUME NEW r \in Requests, tx'[r] = IdleTx PROVE Current(r)' /\ ~ Editing(r)'
  BY IdleTxType DEF Current, Editing, Granted, Open, OnConsent, Operations

LEMMA InvEnd ==
  ASSUME TypeOK, SupportInv, NEW r \in Requests, Finish(r), \A s \in Requests \ {r} : Leaves(s)
  PROVE  SupportInv'
  BY FinishFacts, IdleIsCurrent, InvStep

LEMMA NothingWritten ==
  ASSUME UNCHANGED <<grants, perfume, outside>> PROVE \A s \in Requests : Leaves(s)
  BY DEF Leaves, grants, outside

\* What the shared rows say about a request that was granted something.
LEMMA SharedRows ==
  ASSUME NEW s \in Requests, Current(s), Granted(s)
  PROVE  /\ OwnerShared
         /\ tx[s].kind \in Operations => GrantShared(tx[s].consent)
         /\ tx[s].kind = "start" => ConsentHeld(tx[s].consent)
         /\ tx[s].kind \in {"start", "read", "write"} /\ tx[s].consent \in Consents
  <1>1. Open(s)
    BY DEF Granted, Open
  <1>2. tx[s].kind \in {"start", "read", "write"} /\ tx[s].consent \in Consents
    BY DEF Current, Granted, OnConsent, Operations
  <1> QED BY <1>1, <1>2 DEF OwnerShared, GrantShared, ConsentHeld

LEMMA EditingHolds ==
  ASSUME NEW s \in Requests, Editing(s) PROVE PerfumeHeld
  BY DEF Editing, PerfumeHeld
----------------------------------------------------------------------------
LEMMA LooksNext ==
  ASSUME TypeOK, TypeOK', SupportInv, NEW r \in Requests, Looks(r) PROVE SupportInv'
  <1>1. /\ UNCHANGED <<grants, perfume, outside>> /\ \A s \in Requests \ {r} : tx'[s] = tx[s]
        /\ \A s \in Requests : Leaves(s)
    BY LooksFacts, NothingWritten
  <1>2. UNCHANGED <<consents, sessions, perfume, trading, serving, live, clock>> /\ Current(r)
    BY <1>1 DEF grants, outside, SupportInv
  <1>3. CASE Call(r)
    <2>1. Asks(r) /\ perfume.version \in Int
      BY <1>3, CallFacts DEF TypeOK, Perfume
    <2>2. tx'[r].kind \in OnConsent => tx'[r].consent \in Consents
      BY <2>1 DEF Asks, Known
    <2>3. Current(r)' /\ ~ Editing(r)'
      BY <1>2, <2>1, <2>2 DEF Asks, Current, Editing, Granted, Open, Operations
    <2> QED BY <1>1, <2>3, InvStep
  <1>4. CASE Enter(r)
    <2>1. Steps(r, "entered")
      BY <1>4, MoveFacts DEF Enter, Phases
    <2>2. tx[r].kind \in {"start", "read", "write"} => tx[r].by \in live
      BY <1>2, <1>4, SupportAssumption DEF Enter, SupportLockOwner, SupportGetPlatformFamily, Current
    <2>3. Current(r)' /\ ~ Editing(r)'
      BY <1>2, <2>1, <2>2 DEF Steps, Current, Editing, Granted, Open, Operations
    <2> QED BY <1>1, <2>3, InvStep
  <1>5. CASE SupportLockRequest(r)
    <2>1. Steps(r, "granted") /\ tx[r].kind = "start" /\ consents[tx[r].consent].state = "given"
      BY <1>5, MoveFacts DEF SupportLockRequest, ConsentInForce, Phases
    <2>2. Current(r)' /\ ~ Editing(r)'
      BY <1>2, <2>1 DEF Steps, Current, Editing, Granted, Open, Operations
    <2> QED BY <1>1, <2>2, InvStep
  <1>6. CASE SupportLockSession(r)
    <2>1. Steps(r, "granted") /\ tx[r].kind \in Operations
      BY <1>6, MoveFacts DEF SupportLockSession, Phases
    <2>2. Covered(r)
      <3>1. tx[r].phase = "entered" /\ tx[r].by \in live
        BY <1>2, <1>6, <2>1 DEF SupportLockSession, Current, Open
      <3> QED BY <1>6, <3>1 DEF SupportLockSession, Covered, ConsentInForce, SessionInForce
    <2>3. Covered(r)' /\ consents'[tx'[r].consent].state = "given" /\ tx'[r].by \in live'
      BY <1>2, <2>1, <2>2 DEF Steps, Covered, OwnerInForce
    <2>4. Current(r)' /\ ~ Editing(r)'
      BY <1>2, <2>1, <2>3 DEF Steps, Current, Editing, Granted, Open, Operations
    <2> QED BY <1>1, <2>4, InvStep
  <1>7. CASE SupportUpdatePerfumeDescription(r)
    <2>1. /\ Steps(r, "written") /\ tx[r].kind = "write" /\ tx[r].phase = "granted"
          /\ ~ PerfumeHeld /\ perfume.version = tx[r].seen.version
      BY <1>7, MoveFacts DEF SupportUpdatePerfumeDescription, SupportGetPerfume, Phases
    <2>2. Covered(r) /\ consents[tx[r].consent].state = "given" /\ perfume = tx[r].seen
      BY <1>2, <2>1 DEF Current, Granted, Operations
    <2>3. Covered(r)'
      BY <1>2, <2>1, <2>2 DEF Steps, Covered, OwnerInForce
    <2>4. Current(r)'
      BY <1>2, <2>1, <2>2, <2>3 DEF Steps, Current, Editing, Granted, Open, Operations
    <2>5. \A s \in Requests : ~ Editing(s)
      BY <2>1, EditingHolds
    <2> QED BY <1>1, <2>4, <2>5, InvStep
  <1>8. CASE SupportSessionStillValid(r)
    <2>1. /\ Steps(r, "valid") /\ tx[r].kind \in Operations
          /\ tx[r].phase = (IF tx[r].kind = "write" THEN "written" ELSE "granted")
      BY <1>8, MoveFacts DEF SupportSessionStillValid, Phases
    <2>2. Granted(r) /\ Covered(r) /\ consents[tx[r].consent].state = "given"
      BY <1>2, <2>1 DEF Current, Granted
    <2>3. Covered(r)'
      BY <1>2, <2>1, <2>2 DEF Steps, Covered, OwnerInForce
    <2>4. Editing(r)' => Editing(r)
      BY <2>1 DEF Steps, Editing
    <2>5. Current(r)'
      BY <1>2, <2>1, <2>2, <2>3, <2>4 DEF Steps, Current, Editing, Granted, Open
    <2> QED BY <1>1, <2>4, <2>5, InvStep
  <1>9. CASE Refuse(r) \/ Rollback(r)
    BY <1>1, <1>9, InvEnd DEF Refuse, Rollback
  <1> QED BY <1>3, <1>4, <1>5, <1>6, <1>7, <1>8, <1>9 DEF Looks
----------------------------------------------------------------------------
(***************************************************************************)
(* Every step keeps it                                                     *)
(***************************************************************************)
LEMMA InvNext ==
  ASSUME TypeOK, TypeOK', SupportInv, [Next]_vars PROVE SupportInv'
  <1>all. \A s \in Requests : Current(s)
    BY DEF SupportInv
  <1>shared. \A s \in Requests : Granted(s) =>
               /\ OwnerShared
               /\ tx[s].kind \in Operations => GrantShared(tx[s].consent)
               /\ tx[s].kind = "start" => ConsentHeld(tx[s].consent)
               /\ tx[s].kind \in {"start", "read", "write"} /\ tx[s].consent \in Consents
    BY <1>all, SharedRows
  <1>1. ASSUME NEW r \in Requests, Looks(r) PROVE SupportInv'
    BY <1>1, LooksNext
  <1>2. ASSUME NEW r \in Requests, RequestSupport(r) PROVE SupportInv'
    <2>1. /\ \A c \in Known : consents'[c] = consents[c]
          /\ Finish(r) /\ UNCHANGED <<sessions, perfume, trading, serving, live>>
      BY <1>2, RequestSupportFacts DEF outside
    <2>2. \A s \in Requests : Granted(s) => tx[s].consent \in Known
      BY <1>all, <1>shared DEF Current, Known
    <2> QED BY <2>1, <2>2, InvEnd DEF Leaves
  <1>3. ASSUME NEW r \in Requests, StartSupport(r) PROVE SupportInv'
    <2>1. PICK c \in Consents :
            /\ sessions[c].state = "none"
            /\ \A d \in Consents \ {c} : sessions'[d] = sessions[d]
            /\ Finish(r) /\ UNCHANGED <<consents, perfume, trading, serving, live>>
      BY <1>3, StartSupportFacts DEF outside
    <2>2. \A s \in Requests : Granted(s) /\ tx[s].kind \in Operations =>
            tx[s].consent \in Consents \ {c}
      BY <1>all, <1>shared, <2>1 DEF Current, Covered
    <2> QED BY <2>1, <2>2, InvEnd DEF Leaves
  <1>4. ASSUME NEW r \in Requests, EndSupport(r) PROVE SupportInv'
    <2>1. /\ \A c \in Consents : GrantShared(c) =>
               consents'[c] = consents[c] /\ sessions'[c] = sessions[c]
          /\ \A c \in Consents : ConsentHeld(c) => consents'[c] = consents[c]
          /\ Finish(r) /\ UNCHANGED <<perfume, trading, serving, live>>
      BY <1>4, EndSupportFacts DEF outside
    <2> QED BY <1>shared, <2>1, InvEnd DEF Leaves, Operations
  <1>5. ASSUME NEW r \in Requests, SupportOperation(r) PROVE SupportInv'
    <2>1. /\ perfume' = perfume \/ (Editing(r) /\ Edited)
          /\ Finish(r) /\ UNCHANGED <<consents, sessions, trading, serving, live>>
      BY <1>5, SupportOperationFacts DEF grants, outside
    <2>2. \A s \in Requests \ {r} : Editing(r) => ~ Editing(s)
      BY DEF SupportInv, OneEdits
    <2> QED BY <2>1, <2>2, InvEnd DEF Leaves
  <1>6. CASE Activation
    <2>1. ~ OwnerShared /\ UNCHANGED <<perfume, live, tx>>
      BY <1>6, ActivationFacts
    <2>2. \A s \in Requests : ~ Granted(s)
      BY <1>shared, <2>1
    <2> QED BY <2>1, <2>2, InvOutside DEF Leaves
  <1>7. CASE UpdateStaff
    <2>1. ~ OwnerShared /\ UNCHANGED <<perfume, live, tx>>
      BY <1>7 DEF UpdateStaff
    <2>2. \A s \in Requests : ~ Granted(s)
      BY <1>shared, <2>1
    <2> QED BY <2>1, <2>2, InvOutside DEF Leaves
  <1>8. ASSUME NEW f \in Families, Logout(f) PROVE SupportInv'
    <2>1. /\ ~ FamilyShared(f) /\ live' = live \ {f}
          /\ UNCHANGED <<consents, sessions, perfume, trading, serving, tx>>
      BY <1>8 DEF Logout, grants
    <2>2. \A s \in Requests : Open(s) => tx[s].by # f
      BY <2>1 DEF FamilyShared
    <2> QED BY <2>1, <2>2, InvOutside DEF Leaves
  <1>9. CASE UpdatePerfume
    <2>1. Edited /\ ~ PerfumeHeld /\ UNCHANGED <<consents, sessions, trading, serving, live, tx>>
      BY <1>9, UpdatePerfumeFacts DEF grants, outside
    <2>2. \A s \in Requests : ~ Editing(s)
      BY <2>1, EditingHolds
    <2> QED BY <2>1, <2>2, InvOutside DEF Leaves
  <1>10. CASE Tick
    <2>1. UNCHANGED <<consents, sessions, perfume, trading, serving, live, tx>>
      BY <1>10 DEF Tick, grants
    <2> QED BY <2>1, InvOutside DEF Leaves
  <1>11. CASE UNCHANGED vars
    <2>1. UNCHANGED <<consents, sessions, perfume, trading, serving, live, tx>>
      BY <1>11 DEF vars
    <2> QED BY <2>1, InvOutside DEF Leaves
  <1> QED BY <1>1, <1>2, <1>3, <1>4, <1>5, <1>6, <1>7, <1>8, <1>9, <1>10, <1>11
          DEF Next, Work, Outside, Looks

LEMMA AllInit == Init => TypeOK /\ SupportInv
  <1> SUFFICES ASSUME Init PROVE TypeOK /\ SupportInv
    OBVIOUS
  <1>1. tx \in [Requests -> Tx] /\ \A r \in Requests : tx[r].phase = "idle" /\ tx[r].kind = "none"
    BY IdleTxType DEF Init
  <1>2. /\ consents \in [Consents -> Consent] /\ sessions \in [Consents -> Session]
        /\ \A c \in Consents : sessions[c].state = "none"
    BY SupportAssumption DEF Init, Consent, Session, Scopes
  <1>3. perfume \in Perfume
    <2>1. (CHOOSE t \in Texts : TRUE) \in Texts
      BY SupportAssumption
    <2> QED BY <2>1, SupportAssumption DEF Init, Perfume
  <1>4. trading \in BOOLEAN /\ serving \in BOOLEAN /\ live \subseteq Families /\ clock \in Times
    BY SupportAssumption DEF Init, Times
  <1>5. TypeOK
    BY <1>1, <1>2, <1>3, <1>4 DEF TypeOK
  <1>6. SupportInv
    BY <1>1 DEF SupportInv, OneEdits, Current, Editing, Granted, Open, OnConsent, Operations
  <1> QED BY <1>5, <1>6

\* Every row of every table and every request has its type.
THEOREM TypeCorrect == Spec => []TypeOK
  BY AllInit, TypeNext, InvNext, PTL DEF Spec

\* Up to its commit an operation is covered by consent, session, owner and family:
\* whatever would end them waits for the rows it shares.
THEOREM OperationsAreCovered == Spec => []OperationsCovered
  <1>1. SupportInv => OperationsCovered
    BY DEF SupportInv, Current, OperationsCovered
  <1> QED BY <1>1, AllInit, TypeNext, InvNext, PTL DEF Spec

\* A write replaces what its client had read, whatever the tenant and other writes
\* did to the perfume meanwhile.
THEOREM EditsAreSeen == Spec => []NoBlindEdit
  <1>1. SupportInv => NoBlindEdit
    BY DEF SupportInv, Current, Editing, NoBlindEdit
  <1> QED BY <1>1, AllInit, TypeNext, InvNext, PTL DEF Spec
----------------------------------------------------------------------------
(***************************************************************************)
(* What is over stays over                                                 *)
(***************************************************************************)
StaysOver(c) ==
  /\ sessions[c].state = "ended" => sessions'[c] = sessions[c]
  /\ consents[c].state = "revoked" =>
       consents'[c] = consents[c] /\ (sessions'[c].state = "running" => sessions'[c] = sessions[c])

LEMMA OverNext ==
  ASSUME TypeOK, SupportInv, [Next]_vars PROVE \A c \in Consents : StaysOver(c)
  <1> SUFFICES ASSUME NEW c \in Consents PROVE StaysOver(c)
    OBVIOUS
  <1>1. consents[c] \in Consent /\ sessions[c] \in Session
    BY DEF TypeOK
  <1>2. CASE UNCHANGED grants
    BY <1>2 DEF grants, StaysOver
  <1>3. ASSUME NEW r \in Requests, RequestSupport(r) PROVE StaysOver(c)
    BY <1>3, RequestSupportFacts DEF StaysOver, Known
  <1>4. ASSUME NEW r \in Requests, StartSupport(r) PROVE StaysOver(c)
    <2>1. PICK d \in Consents :
            /\ consents[d].state = "given" /\ sessions[d].state = "none"
            /\ \A e \in Consents \ {d} : sessions'[e] = sessions[e]
            /\ UNCHANGED consents
      BY <1>4, StartSupportFacts
    <2> QED BY <2>1 DEF StaysOver
  <1>5. ASSUME NEW r \in Requests, EndSupport(r) PROVE StaysOver(c)
    <2>1. /\ consents'[c] = consents[c] \/ consents'[c] = [consents[c] EXCEPT !.state = "revoked"]
          /\ sessions'[c] = sessions[c] \/ sessions'[c] = [sessions[c] EXCEPT !.state = "ended"]
      BY <1>5, EndSupportFacts
    <2>2. consents[c].state = "revoked" => [consents[c] EXCEPT !.state = "revoked"] = consents[c]
      BY <1>1 DEF Consent
    <2>3. /\ sessions[c].state = "ended" => [sessions[c] EXCEPT !.state = "ended"] = sessions[c]
          /\ [sessions[c] EXCEPT !.state = "ended"].state = "ended"
      BY <1>1 DEF Session
    <2> QED BY <2>1, <2>2, <2>3 DEF StaysOver
  <1>6. CASE Activation
    BY <1>6, ActivationFacts DEF StaysOver
  <1>7. CASE UpdateStaff \/ (\E f \in Families : Logout(f)) \/ UpdatePerfume \/ Tick
    BY <1>2, <1>7 DEF UpdateStaff, Logout, UpdatePerfume, Tick
  <1>8. ASSUME NEW r \in Requests, Looks(r) \/ SupportOperation(r) PROVE StaysOver(c)
    BY <1>2, <1>8, LooksFacts, SupportOperationFacts
  <1>9. CASE UNCHANGED vars
    BY <1>2, <1>9 DEF vars, grants
  <1> QED BY <1>3, <1>4, <1>5, <1>6, <1>7, <1>8, <1>9 DEF Next, Work, Outside, Looks

\* An ended session stays ended and a revoked consent starts none.
THEOREM WhatIsOverStaysOver == Spec => OverIsOver
  <1>1. (\A c \in Consents : StaysOver(c)) =>
          \A c \in Consents :
            /\ sessions[c].state = "ended" => sessions'[c] = sessions[c]
            /\ consents[c].state = "revoked" =>
                 consents'[c] = consents[c] /\ (sessions'[c].state = "running" => sessions'[c] = sessions[c])
    BY DEF StaysOver
  <1> QED BY <1>1, AllInit, TypeNext, InvNext, OverNext, PTL DEF Spec, OverIsOver
=============================================================================
