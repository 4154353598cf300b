----------------------- MODULE PlatformSessionsProofs -----------------------
(***************************************************************************)
(* Proofs about PlatformSessions, for any number of requests, families and *)
(* tokens.                                                                 *)
(*                                                                         *)
(* Who locked a family excludes all others, those that share it too; an    *)
(* operation that shares its family therefore keeps it and its token until *)
(* it commits, and a rotation only ever replaces the last token of a line. *)
(***************************************************************************)
EXTENDS PlatformSessions, SequenceTheorems, TLAPS

Holds(r) == tx[r].phase \in {"locked", "fresh", "replayed"}
Shares(r) == tx[r].phase = "shared"

\* How far a request got, what it knows and what it may count on.
Current(r) ==
  /\ tx[r].phase \in {"found", "locked"} => tx[r].kind \in {"refresh", "logout"}
  /\ tx[r].phase \in {"fresh", "replayed"} => tx[r].kind = "refresh"
  /\ tx[r].phase \in {"found", "locked", "fresh", "replayed"} => tx[r].token \in Known
  /\ tx[r].phase = "borne" => tx[r].kind \in {"logout", "operation"} /\ tx[r].bearer \in Known
  /\ Shares(r) => /\ tx[r].kind = "operation" /\ tx[r].bearer \in Known
                  /\ FamilyOf(r) \notin revoked /\ ~ TokenOf(tx[r].bearer).used
  /\ Holds(r) => FamilyOf(r) \notin revoked

\* A family is held by one request, or shared by many.
Exclusive ==
  \A r, s \in Requests :
    Holds(r) /\ (Holds(s) \/ Shares(s)) /\ FamilyOf(r) = FamilyOf(s) => r = s

SessionsInv == Exclusive /\ \A r \in Requests : Current(r)

\* Of the tokens of a family only the last is unused.
OneLiveToken ==
  \A f \in created : \A i \in 1 .. Len(tokens[f]) : tokens[f][i].used <=> i < Len(tokens[f])

LEMMA KnownFacts ==
  ASSUME TypeOK, NEW t
  PROVE  t \in Known <=> /\ t \in Families \X (1 .. MaxTokens)
                         /\ t[1] \in created /\ t[2] \in 1 .. Len(tokens[t[1]])
  <1>1. ASSUME NEW f \in Families PROVE DOMAIN tokens[f] = 1 .. Len(tokens[f])
    BY LenProperties DEF TypeOK
  <1>2. created \subseteq Families
    BY DEF TypeOK
  <1> QED BY <1>1, <1>2 DEF Known

LEMMA TokenType ==
  ASSUME TypeOK, NEW t \in Known
  PROVE  TokenOf(t) \in Token /\ t[1] \in Families /\ t \in AnyToken
  <1>1. t[1] \in created /\ t[1] \in Families /\ t[2] \in 1 .. Len(tokens[t[1]])
    BY KnownFacts
  <1>2. TokenOf(t) \in Token
    BY <1>1, ElementOfSeq DEF TypeOK, TokenOf
  <1>3. t \in AnyToken
    BY KnownFacts DEF AnyToken
  <1> QED BY <1>1, <1>2, <1>3

LEMMA IdleTxType == IdleTx \in Tx /\ IdleTx.phase = "idle" /\ IdleTx.kind = "none"
  BY DEF IdleTx, Tx, Phases, Kinds, AnyToken
----------------------------------------------------------------------------
(***************************************************************************)
(* Requests                                                                *)
(***************************************************************************)
LEMMA TurnsInto ==
  ASSUME TypeOK, NEW r \in Requests, NEW x \in Tx, tx' = [tx EXCEPT ![r] = x]
  PROVE  tx' \in [Requests -> Tx] /\ tx'[r] = x /\ \A s \in Requests \ {r} : tx'[s] = tx[s]
  BY DEF TypeOK

LEMMA MoveFacts ==
  ASSUME TypeOK, NEW r \in Requests, NEW p \in Phases, Move(r, p)
  PROVE  /\ tx' \in [Requests -> Tx]
         /\ tx'[r].phase = p /\ tx'[r].kind = tx[r].kind
         /\ tx'[r].token = tx[r].token /\ tx'[r].bearer = tx[r].bearer
         /\ \A s \in Requests \ {r} : tx'[s] = tx[s]
  <1>1. tx \in [Requests -> Tx] BY DEF TypeOK
  <1> QED BY <1>1 DEF Move, Tx

LEMMA FinishFacts ==
  ASSUME TypeOK, NEW r \in Requests, Finish(r)
  PROVE  tx' \in [Requests -> Tx] /\ tx'[r] = IdleTx /\ \A s \in Requests \ {r} : tx'[s] = tx[s]
  BY IdleTxType, TurnsInto DEF Finish

\* The steps of a request that look and lock, and write nothing.
ArriveKinds(r) ==
  \/ tx'[r].phase = "inserted"
  \/ tx'[r].phase = "verified"
  \/ tx'[r].phase = "found" /\ tx'[r].kind \in {"refresh", "logout"} /\ tx'[r].token \in Known
  \/ tx'[r].phase = "borne" /\ tx'[r].kind \in {"logout", "operation"} /\ tx'[r].bearer \in Known

LEMMA ArriveFacts ==
  ASSUME TypeOK, NEW r \in Requests, Arrive(r)
  PROVE  /\ tx' \in [Requests -> Tx] /\ UNCHANGED <<admins, sessions>>
         /\ tx[r].phase = "idle" /\ ArriveKinds(r)
         /\ \A s \in Requests \ {r} : tx'[s] = tx[s]
  <1>1. CASE Bootstrap(r) \/ Login(r)
    <2>1. PICK x \in Tx : /\ tx' = [tx EXCEPT ![r] = x] /\ x.phase \in {"inserted", "verified"}
      <3>1. /\ [IdleTx EXCEPT !.phase = "inserted", !.kind = "bootstrap"] \in Tx
            /\ [IdleTx EXCEPT !.phase = "inserted", !.kind = "bootstrap"].phase = "inserted"
            /\ [IdleTx EXCEPT !.phase = "verified", !.kind = "login"] \in Tx
            /\ [IdleTx EXCEPT !.phase = "verified", !.kind = "login"].phase = "verified"
        BY IdleTxType DEF Tx, Phases, Kinds
      <3> QED BY <1>1, <3>1 DEF Bootstrap, Login, Start
    <2>2. UNCHANGED <<admins, sessions>> /\ tx[r].phase = "idle"
      BY <1>1 DEF Bootstrap, Login
    <2> QED BY <2>1, <2>2, TurnsInto DEF ArriveKinds
  <1>2. CASE Refresh(r)
    <2>1. PICK t \in Known :
            tx' = [tx EXCEPT ![r] =
                     [IdleTx EXCEPT !.phase = "found", !.kind = "refresh", !.token = t]]
      BY <1>2 DEF Refresh, FindPlatformRefreshFamily, Start
    <2>2. [IdleTx EXCEPT !.phase = "found", !.kind = "refresh", !.token = t] \in Tx
      BY TokenType, IdleTxType DEF Tx, Phases, Kinds
    <2>3. UNCHANGED <<admins, sessions>> /\ tx[r].phase = "idle"
      BY <1>2 DEF Refresh
    <2> QED BY <2>1, <2>2, <2>3, TurnsInto, IdleTxType DEF Tx, ArriveKinds
  <1>3. CASE AuthenticatePlatform(r)
    <2>1. PICK t \in Known, kind \in {"logout", "operation"} :
            tx' = [tx EXCEPT ![r] =
                     [IdleTx EXCEPT !.phase = "borne", !.kind = kind, !.bearer = t]]
      BY <1>3 DEF AuthenticatePlatform, Start
    <2>2. [IdleTx EXCEPT !.phase = "borne", !.kind = kind, !.bearer = t] \in Tx
      BY TokenType, IdleTxType DEF Tx, Phases, Kinds
    <2>3. UNCHANGED <<admins, sessions>> /\ tx[r].phase = "idle"
      BY <1>3 DEF AuthenticatePlatform
    <2> QED BY <2>1, <2>2, <2>3, TurnsInto, IdleTxType DEF Tx, ArriveKinds
  <1> QED BY <1>1, <1>2, <1>3 DEF Arrive

LEMMA LogoutFacts ==
  ASSUME TypeOK, NEW r \in Requests, Logout(r)
  PROVE  /\ tx' \in [Requests -> Tx] /\ UNCHANGED <<admins, sessions>>
         /\ tx[r].phase = "borne" /\ ArriveKinds(r)
         /\ \A s \in Requests \ {r} : tx'[s] = tx[s]
  <1>1. tx \in [Requests -> Tx] BY DEF TypeOK
  <1>2. PICK t \in Known : tx' = [tx EXCEPT ![r] = [@ EXCEPT !.phase = "found", !.token = t]]
    BY DEF Logout, FindPlatformRefreshFamily
  <1>3. t \in AnyToken BY TokenType
  <1>4. tx' \in [Requests -> Tx] BY <1>1, <1>2, <1>3 DEF Tx, Phases
  <1> QED BY <1>1, <1>2, <1>4 DEF Tx, Logout, ArriveKinds

\* Those that end with nothing written to families and tokens.
Ends(r) == Bootstrapped(r) \/ platformTx(r) \/ Refuse(r) \/ HangUp(r)

LEMMA EndsFacts ==
  ASSUME NEW r \in Requests, Ends(r)
  PROVE  /\ Finish(r) /\ UNCHANGED sessions
         /\ admins' = admins \/ (tx[r].phase = "inserted" /\ admins' = admins \cup {r})
  BY DEF Ends, Bootstrapped, platformTx, Refuse, HangUp

\* Those that move on.
Moves(r) ==
  LockPlatformSessionFamily(r) \/ GetPlatformRefreshForUpdate(r) \/ SupportGetPlatformFamily(r)

LEMMA MovesFacts ==
  ASSUME TypeOK, NEW r \in Requests, Moves(r)
  PROVE  /\ tx' \in [Requests -> Tx] /\ UNCHANGED <<admins, sessions>>
         /\ tx[r].phase \in {"found", "locked", "borne"}
         /\ tx'[r].phase \in {"locked", "fresh", "replayed", "shared"}
         /\ tx'[r].kind = tx[r].kind
         /\ tx'[r].token = tx[r].token /\ tx'[r].bearer = tx[r].bearer
         /\ \A s \in Requests \ {r} : tx'[s] = tx[s]
  <1>1. PICK p \in {"locked", "fresh", "replayed", "shared"} :
          Move(r, p) /\ UNCHANGED <<admins, sessions>> /\ tx[r].phase \in {"found", "locked", "borne"}
    BY DEF Moves, LockPlatformSessionFamily, GetPlatformRefreshForUpdate, SupportGetPlatformFamily
  <1> QED BY <1>1, MoveFacts DEF Phases
----------------------------------------------------------------------------
(***************************************************************************)
(* The steps that write families and tokens                                *)
(***************************************************************************)
LEMMA EmptyIsLenZero ==
  ASSUME NEW s \in Seq(Token) PROVE s = <<>> <=> Len(s) = 0
  BY EmptySeq, LenProperties

LEMMA NewToken ==
  /\ CreatePlatformRefreshToken \in Token /\ ~ CreatePlatformRefreshToken.used
  /\ <<CreatePlatformRefreshToken>> \in Seq(Token)
  /\ Len(<<CreatePlatformRefreshToken>>) = 1
  BY DEF CreatePlatformRefreshToken, Token

LEMMA CreateSessionFacts ==
  ASSUME TypeOK, NEW r \in Requests, CreateSession(r)
  PROVE  \E f \in Families \ created :
           /\ created' = created \cup {f}
           /\ tokens' \in [Families -> Seq(Token)]
           /\ Len(tokens'[f]) = 1 /\ ~ tokens'[f][1].used
           /\ \A g \in Families \ {f} : tokens'[g] = tokens[g]
           /\ Finish(r) /\ UNCHANGED <<admins, revoked>>
  <1>1. PICK f \in Families \ created :
          /\ created' = created \cup {f}
          /\ tokens' = [tokens EXCEPT ![f] = <<CreatePlatformRefreshToken>>]
    BY DEF CreateSession, CreatePlatformSessionFamily
  <1>2. /\ tokens' \in [Families -> Seq(Token)]
        /\ tokens'[f] = <<CreatePlatformRefreshToken>>
        /\ \A g \in Families \ {f} : tokens'[g] = tokens[g]
    BY <1>1, NewToken DEF TypeOK
  <1>3. Len(tokens'[f]) = 1 /\ ~ tokens'[f][1].used
    BY <1>2, NewToken
  <1>4. Finish(r) /\ UNCHANGED <<admins, revoked>>
    BY DEF CreateSession
  <1> QED BY <1>1, <1>2, <1>3, <1>4

\* Whoever rotates holds the family of a token it knows.
LEMMA RotateFacts ==
  ASSUME TypeOK, SessionsInv, OneLiveToken, NEW r \in Requests, Rotate(r)
  PROVE  \E f \in created \ revoked :
           /\ Holds(r) /\ FamilyOf(r) = f
           /\ tokens' \in [Families -> Seq(Token)]
           /\ Len(tokens[f]) \in Nat /\ Len(tokens[f]) < MaxTokens
           /\ Len(tokens'[f]) = Len(tokens[f]) + 1
           /\ \A j \in 1 .. Len(tokens[f]) : tokens'[f][j].used
           /\ ~ tokens'[f][Len(tokens[f]) + 1].used
           /\ \A g \in Families \ {f} : tokens'[g] = tokens[g]
           /\ Finish(r) /\ UNCHANGED <<admins, created, revoked>>
  <1> DEFINE f == tx[r].token[1]
             i == tx[r].token[2]
             S == tokens[f]
             T == [S EXCEPT ![i] = [S[i] EXCEPT !.used = TRUE]]
             e == CreatePlatformRefreshToken
  <1>1. /\ tx[r].phase = "fresh" /\ Len(S) < MaxTokens /\ ~ S[i].used
        /\ tokens' = [tokens EXCEPT ![f] = Append(T, e)]
        /\ Finish(r) /\ UNCHANGED <<admins, created, revoked>>
    BY DEF Rotate, RevokePlatformRefreshToken, TokenOf
  <1>2. /\ tx[r].token \in Known /\ Holds(r) /\ tx[r].kind = "refresh"
        /\ FamilyOf(r) = f /\ f \notin revoked
    BY <1>1 DEF SessionsInv, Current, Holds, FamilyOf
  <1>3. f \in Families /\ f \in created /\ i \in 1 .. Len(S)
    BY <1>2, KnownFacts
  <1>4. S \in Seq(Token) /\ Len(S) \in Nat /\ S[i] \in Token
    BY <1>3, LenProperties, ElementOfSeq DEF TypeOK
  <1>5. \A j \in 1 .. Len(S) : S[j].used <=> j < Len(S)
    BY <1>3 DEF OneLiveToken
  <1>6. i = Len(S)
    <2>1. ~ (i < Len(S))
      BY <1>1, <1>3, <1>5
    <2>2. Len(S) \in Nat /\ i \in 1 .. Len(S)
      BY <1>3, <1>4
    <2> QED BY <2>1, <2>2
  <1>7. e \in Token /\ ~ e.used /\ [S[i] EXCEPT !.used = TRUE] \in Token
        /\ [S[i] EXCEPT !.used = TRUE].used
    BY <1>4, NewToken DEF Token
  <1> HIDE DEF e, S, f, i
  <1>8. /\ T \in Seq(Token) /\ Len(T) = Len(S)
        /\ \A j \in 1 .. Len(S) : T[j] = IF j = i THEN [S[i] EXCEPT !.used = TRUE] ELSE S[j]
    BY <1>3, <1>4, <1>7, ExceptSeq
  <1> HIDE DEF T
  <1>9. /\ Append(T, e) \in Seq(Token) /\ Len(Append(T, e)) = Len(S) + 1
        /\ \A j \in 1 .. Len(S) : Append(T, e)[j] = T[j]
        /\ Append(T, e)[Len(S) + 1] = e
    BY <1>7, <1>8, AppendProperties
  <1>10. ASSUME NEW j \in 1 .. Len(S) PROVE T[j].used
    <2>1. CASE j = i
      <3>1. T[j] = [S[i] EXCEPT !.used = TRUE]
        BY <1>8, <2>1
      <3> QED BY <1>7, <3>1
    <2>2. CASE j # i
      <3>1. T[j] = S[j]
        BY <1>8, <2>2
      <3>2. Len(S) \in Nat /\ j \in 1 .. Len(S) /\ j # Len(S)
        BY <1>4, <1>6, <2>2
      <3>3. j < Len(S)
        BY <3>2
      <3> QED BY <1>5, <3>1, <3>3
    <2> QED BY <2>1, <2>2
  <1>11. /\ tokens' \in [Families -> Seq(Token)] /\ tokens'[f] = Append(T, e)
         /\ \A g \in Families \ {f} : tokens'[g] = tokens[g]
    BY <1>1, <1>3, <1>9 DEF TypeOK
  <1> QED BY <1>1, <1>2, <1>3, <1>4, <1>7, <1>9, <1>10, <1>11 DEF f, S, i

LEMMA ExpireFacts ==
  ASSUME TypeOK, NEW t \in Known, Expire(t)
  PROVE  /\ tokens' \in [Families -> Seq(Token)]
         /\ \A f \in Families :
              /\ Len(tokens'[f]) = Len(tokens[f])
              /\ \A j \in 1 .. Len(tokens[f]) : tokens'[f][j].used = tokens[f][j].used
         /\ UNCHANGED <<admins, created, revoked, tx>>
  <1> DEFINE f == t[1]
             i == t[2]
             S == tokens[f]
             T == [S EXCEPT ![i] = [S[i] EXCEPT !.stale = TRUE]]
  <1>1. tokens' = [tokens EXCEPT ![f] = T] /\ UNCHANGED <<admins, created, revoked, tx>>
    BY DEF Expire
  <1>2. f \in Families /\ i \in 1 .. Len(S)
    BY KnownFacts
  <1>3. S \in Seq(Token) /\ S[i] \in Token
    BY <1>2, ElementOfSeq DEF TypeOK
  <1>4. [S[i] EXCEPT !.stale = TRUE] \in Token /\ [S[i] EXCEPT !.stale = TRUE].used = S[i].used
    BY <1>3 DEF Token
  <1> HIDE DEF S, f, i
  <1>5. /\ T \in Seq(Token) /\ Len(T) = Len(S)
        /\ \A j \in 1 .. Len(S) : T[j] = IF j = i THEN [S[i] EXCEPT !.stale = TRUE] ELSE S[j]
    BY <1>2, <1>3, <1>4, ExceptSeq
  <1>6. \A j \in 1 .. Len(S) : T[j].used = S[j].used
    BY <1>4, <1>5
  <1> HIDE DEF T
  <1>7. /\ tokens' \in [Families -> Seq(Token)] /\ tokens'[f] = T
        /\ \A g \in Families \ {f} : tokens'[g] = tokens[g]
    BY <1>1, <1>2, <1>5 DEF TypeOK
  <1> QED BY <1>1, <1>5, <1>6, <1>7 DEF S

\* Those that revoke the family they hold.
Revokes(r) == Contain(r) \/ EndSession(r)

LEMMA RevokesFacts ==
  ASSUME TypeOK, SessionsInv, NEW r \in Requests, Revokes(r)
  PROVE  /\ Holds(r) /\ FamilyOf(r) \in created \ revoked
         /\ revoked' = revoked \cup {FamilyOf(r)}
         /\ Finish(r) /\ UNCHANGED <<admins, created, tokens>>
  <1>1. /\ tx[r].phase \in {"locked", "replayed"}
        /\ FamilyOf(r) \notin revoked /\ revoked' = revoked \cup {FamilyOf(r)}
        /\ Finish(r) /\ UNCHANGED <<admins, created, tokens>>
    BY DEF Revokes, Contain, EndSession, RevokePlatformSessionFamily
  <1>2. tx[r].token \in Known /\ FamilyOf(r) = tx[r].token[1]
    BY <1>1 DEF SessionsInv, Current, FamilyOf
  <1> QED BY <1>1, <1>2, KnownFacts DEF Holds
----------------------------------------------------------------------------
(***************************************************************************)
(* Types                                                                   *)
(***************************************************************************)
LEMMA TypeQuiet ==
  ASSUME TypeOK, UNCHANGED sessions, admins' \subseteq Requests, tx' \in [Requests -> Tx]
  PROVE  TypeOK'
  BY DEF TypeOK, sessions

LEMMA TypeNext ==
  ASSUME TypeOK, SessionsInv, OneLiveToken, [Next]_vars PROVE TypeOK'
  <1>1. ASSUME NEW r \in Requests, Arrive(r) \/ Logout(r) \/ Moves(r) PROVE TypeOK'
    <2>1. tx' \in [Requests -> Tx] /\ UNCHANGED <<admins, sessions>>
      BY <1>1, ArriveFacts, LogoutFacts, MovesFacts
    <2> QED BY <2>1, TypeQuiet DEF TypeOK
  <1>2. ASSUME NEW r \in Requests, Ends(r) PROVE TypeOK'
    <2>1. tx' \in [Requests -> Tx] /\ UNCHANGED sessions /\ admins' \subseteq Requests
      BY <1>2, EndsFacts, FinishFacts DEF TypeOK
    <2> QED BY <2>1, TypeQuiet
  <1>3. ASSUME NEW r \in Requests, CreateSession(r) PROVE TypeOK'
    <2>1. PICK f \in Families \ created :
            /\ created' = created \cup {f}
            /\ tokens' \in [Families -> Seq(Token)]
            /\ Len(tokens'[f]) = 1
            /\ \A g \in Families \ {f} : tokens'[g] = tokens[g]
            /\ Finish(r) /\ UNCHANGED <<admins, revoked>>
      BY <1>3, CreateSessionFacts
    <2>2. 1 <= MaxTokens
      BY PlatformAssumption
    <2>3. tokens'[f] # <<>>
      <3>1. Len(tokens'[f]) = 1
        BY <2>1
      <3>2. ASSUME tokens'[f] = <<>> PROVE FALSE
        <4>1. Len(<<>>) = 1
          BY <3>1, <3>2
        <4>2. Len(<<>>) = 0
          BY EmptySeq
        <4> QED BY <4>1, <4>2
      <3> QED BY <3>2
    <2>4. \A g \in Families : /\ Len(tokens'[g]) <= MaxTokens
                              /\ tokens'[g] = <<>> <=> g \notin created'
      BY <2>1, <2>2, <2>3 DEF TypeOK
    <2> QED BY <2>1, <2>4, FinishFacts DEF TypeOK
  <1>4. ASSUME NEW r \in Requests, Revokes(r) PROVE TypeOK'
    BY <1>4, RevokesFacts, FinishFacts DEF TypeOK
  <1>5. ASSUME NEW r \in Requests, Rotate(r) PROVE TypeOK'
    <2>1. PICK f \in created \ revoked :
            /\ tokens' \in [Families -> Seq(Token)]
            /\ Len(tokens[f]) \in Nat /\ Len(tokens[f]) < MaxTokens
            /\ Len(tokens'[f]) = Len(tokens[f]) + 1
            /\ \A g \in Families \ {f} : tokens'[g] = tokens[g]
            /\ Finish(r) /\ UNCHANGED <<admins, created, revoked>>
      BY <1>5, RotateFacts
    <2>2. f \in Families /\ tokens'[f] # <<>> /\ Len(tokens'[f]) <= MaxTokens
      BY <2>1, PlatformAssumption, EmptyIsLenZero DEF TypeOK
    <2>3. \A g \in Families : /\ Len(tokens'[g]) <= MaxTokens
                              /\ tokens'[g] = <<>> <=> g \notin created'
      BY <2>1, <2>2 DEF TypeOK
    <2> QED BY <2>1, <2>3, FinishFacts DEF TypeOK
  <1>6. ASSUME NEW t \in Known, Expire(t) PROVE TypeOK'
    <2>1. /\ tokens' \in [Families -> Seq(Token)]
          /\ \A f \in Families : Len(tokens'[f]) = Len(tokens[f])
          /\ UNCHANGED <<admins, created, revoked, tx>>
      BY <1>6, ExpireFacts
    <2>2. \A f \in Families : tokens'[f] = <<>> <=> tokens[f] = <<>>
      BY <2>1, EmptyIsLenZero DEF TypeOK
    <2> QED BY <2>1, <2>2 DEF TypeOK
  <1>7. CASE UNCHANGED vars
    BY <1>7 DEF vars, TypeOK
  <1> QED BY <1>1, <1>2, <1>3, <1>4, <1>5, <1>6, <1>7 DEF Next, Work, Moves, Revokes, Ends
----------------------------------------------------------------------------
(***************************************************************************)
(* What a request holds or shares stays as it was                          *)
(***************************************************************************)
LEMMA HeldByHolder ==
  ASSUME NEW f
  PROVE  /\ FamilyHeld(f) <=> \E r \in Requests : Holds(r) /\ FamilyOf(r) = f
         /\ FamilyShared(f) <=> \E r \in Requests : Shares(r) /\ FamilyOf(r) = f
  BY DEF FamilyHeld, FamilyShared, Holds, Shares

LEMMA StaysCurrent ==
  ASSUME NEW s \in Requests, Current(s), tx'[s] = tx[s],
         Known \subseteq Known',
         Holds(s) \/ Shares(s) => (FamilyOf(s) \in revoked' <=> FamilyOf(s) \in revoked),
         Shares(s) => TokenOf(tx[s].bearer)'.used = TokenOf(tx[s].bearer).used
  PROVE  Current(s)' /\ FamilyOf(s)' = FamilyOf(s) /\ (Holds(s)' <=> Holds(s)) /\ (Shares(s)' <=> Shares(s))
  <1>1. FamilyOf(s)' = FamilyOf(s) /\ (Holds(s)' <=> Holds(s)) /\ (Shares(s)' <=> Shares(s))
    BY DEF FamilyOf, Holds, Shares
  <1>2. Shares(s) => tx'[s].bearer \in Known' /\ FamilyOf(s)' \notin revoked'
                     /\ ~ TokenOf(tx[s].bearer)'.used
    BY <1>1 DEF Current
  <1>3. Holds(s) => FamilyOf(s)' \notin revoked'
    BY <1>1 DEF Current
  <1> QED BY <1>1, <1>2, <1>3 DEF Current

LEMMA LenOrder ==
  ASSUME TypeOK, NEW f \in Families PROVE Len(tokens[f]) \in Nat /\ Len(tokens[f]) <= Len(tokens[f])
  BY LenProperties DEF TypeOK

LEMMA KnownGrows ==
  ASSUME TypeOK, TypeOK', created \subseteq created',
         \A f \in created : Len(tokens[f]) <= Len(tokens'[f])
  PROVE  Known \subseteq Known'
  <1> SUFFICES ASSUME NEW t \in Known PROVE t \in Known'
    OBVIOUS
  <1>1. t \in Families \X (1 .. MaxTokens) /\ t[1] \in created /\ t[2] \in 1 .. Len(tokens[t[1]])
    BY KnownFacts
  <1>2. tokens'[t[1]] \in Seq(Token) /\ t[1] \in created'
    BY <1>1 DEF TypeOK
  <1>3. DOMAIN tokens'[t[1]] = 1 .. Len(tokens'[t[1]]) /\ Len(tokens'[t[1]]) \in Nat
    BY <1>2, LenProperties
  <1>4. tokens[t[1]] \in Seq(Token) /\ Len(tokens[t[1]]) \in Nat
    BY <1>1, LenProperties DEF TypeOK
  <1>5. t[2] \in DOMAIN tokens'[t[1]]
    BY <1>1, <1>3, <1>4
  <1>6. t \in created' \X (1 .. MaxTokens)
    BY <1>1, <1>2
  <1> QED BY <1>5, <1>6 DEF Known

\* The families are as they were, and request r excludes nobody it should not.
LEMMA InvQuiet ==
  ASSUME SessionsInv, NEW r \in Requests,
         UNCHANGED sessions, \A s \in Requests \ {r} : tx'[s] = tx[s],
         Current(r)',
         Holds(r)' => \A s \in Requests \ {r} : Holds(s) \/ Shares(s) => FamilyOf(s) # FamilyOf(r)',
         Shares(r)' => \A s \in Requests \ {r} : Holds(s) => FamilyOf(s) # FamilyOf(r)'
  PROVE  SessionsInv'
  <1>1. Known' = Known /\ revoked' = revoked /\ tokens' = tokens
    BY DEF Known, sessions
  <1>2. \A s \in Requests \ {r} : TokenOf(tx[s].bearer)' = TokenOf(tx[s].bearer)
    BY <1>1 DEF TokenOf
  <1>3. ASSUME NEW s \in Requests \ {r}
        PROVE  /\ Current(s)' /\ FamilyOf(s)' = FamilyOf(s)
               /\ (Holds(s)' <=> Holds(s)) /\ (Shares(s)' <=> Shares(s))
    <2>1. Current(s) /\ tx'[s] = tx[s]
      BY DEF SessionsInv
    <2> QED BY <1>1, <1>2, <2>1, StaysCurrent
  <1>4. ASSUME NEW p \in Requests, NEW q \in Requests,
               Holds(p)', Holds(q)' \/ Shares(q)', FamilyOf(p)' = FamilyOf(q)'
        PROVE  p = q
    <2>1. CASE p = r \/ q = r
      BY <1>3, <1>4, <2>1
    <2>2. CASE p # r /\ q # r
      BY <1>3, <1>4, <2>2 DEF SessionsInv, Exclusive
    <2> QED BY <2>1, <2>2
  <1>5. Exclusive'
    BY <1>4 DEF Exclusive
  <1> QED BY <1>3, <1>5 DEF SessionsInv

\* Request r ends; what it wrote is not what another holds or shares.
LEMMA InvEnd ==
  ASSUME TypeOK, SessionsInv, NEW r \in Requests, Finish(r), Known \subseteq Known',
         \A s \in Requests \ {r} :
           /\ Holds(s) \/ Shares(s) => (FamilyOf(s) \in revoked' <=> FamilyOf(s) \in revoked)
           /\ Shares(s) => TokenOf(tx[s].bearer)'.used = TokenOf(tx[s].bearer).used
  PROVE  SessionsInv'
  <1>1. tx'[r] = IdleTx /\ \A s \in Requests \ {r} : tx'[s] = tx[s]
    BY FinishFacts
  <1>2. Current(r)' /\ ~ Holds(r)' /\ ~ Shares(r)'
    BY <1>1, IdleTxType DEF Current, Holds, Shares
  <1>3. ASSUME NEW s \in Requests \ {r}
        PROVE  /\ Current(s)' /\ FamilyOf(s)' = FamilyOf(s)
               /\ (Holds(s)' <=> Holds(s)) /\ (Shares(s)' <=> Shares(s))
    <2>1. Current(s) /\ tx'[s] = tx[s]
      BY <1>1 DEF SessionsInv
    <2> QED BY <2>1, StaysCurrent
  <1>4. ASSUME NEW p \in Requests, NEW q \in Requests,
               Holds(p)', Holds(q)' \/ Shares(q)', FamilyOf(p)' = FamilyOf(q)'
        PROVE  p = q
    BY <1>2, <1>3, <1>4 DEF SessionsInv, Exclusive
  <1>5. Exclusive'
    BY <1>4 DEF Exclusive
  <1>6. \A s \in Requests : Current(s)'
    BY <1>2, <1>3
  <1> QED BY <1>5, <1>6 DEF SessionsInv

LEMMA InvNext ==
  ASSUME TypeOK, TypeOK', SessionsInv, OneLiveToken, [Next]_vars PROVE SessionsInv'
  <1>1. ASSUME NEW r \in Requests, Arrive(r) \/ Logout(r) PROVE SessionsInv'
    <2>1. /\ UNCHANGED sessions /\ ArriveKinds(r) /\ \A s \in Requests \ {r} : tx'[s] = tx[s]
      BY <1>1, ArriveFacts, LogoutFacts
    <2>2. Known' = Known
      BY <2>1 DEF Known, sessions
    <2>3. Current(r)' /\ ~ Holds(r)' /\ ~ Shares(r)'
      BY <2>1, <2>2 DEF Current, Holds, Shares, ArriveKinds
    <2> QED BY <2>1, <2>3, InvQuiet
  <1>2. ASSUME NEW r \in Requests, LockPlatformSessionFamily(r) PROVE SessionsInv'
    <2>1. /\ tx[r].phase = "found" /\ Move(r, "locked") /\ UNCHANGED sessions
          /\ ~ FamilyHeld(FamilyOf(r)) /\ ~ FamilyShared(FamilyOf(r)) /\ FamilyOf(r) \notin revoked
      BY <1>2 DEF LockPlatformSessionFamily
    <2>2. /\ tx'[r].phase = "locked" /\ tx'[r].kind = tx[r].kind
          /\ tx'[r].token = tx[r].token /\ tx'[r].bearer = tx[r].bearer
          /\ \A s \in Requests \ {r} : tx'[s] = tx[s]
      BY <2>1, MoveFacts DEF Phases
    <2>3. Known' = Known /\ revoked' = revoked /\ FamilyOf(r)' = FamilyOf(r)
      BY <2>1, <2>2 DEF Known, sessions, FamilyOf
    <2>4. tx[r].token \in Known /\ tx[r].kind \in {"refresh", "logout"}
      BY <2>1 DEF SessionsInv, Current
    <2>5. Current(r)' /\ ~ Shares(r)'
      BY <2>1, <2>2, <2>3, <2>4 DEF Current, Shares, Holds
    <2>6. \A s \in Requests : Holds(s) \/ Shares(s) => FamilyOf(s) # FamilyOf(r)'
      BY <2>1, <2>3, HeldByHolder
    <2> QED BY <2>1, <2>2, <2>5, <2>6, InvQuiet
  <1>3. ASSUME NEW r \in Requests, GetPlatformRefreshForUpdate(r) PROVE SessionsInv'
    <2>1. PICK p \in {"fresh", "replayed"} :
            /\ tx[r].phase = "locked" /\ tx[r].kind = "refresh"
            /\ Move(r, p) /\ UNCHANGED sessions
      BY <1>3 DEF GetPlatformRefreshForUpdate
    <2>2. /\ tx'[r].phase = p /\ tx'[r].kind = "refresh"
          /\ tx'[r].token = tx[r].token /\ tx'[r].bearer = tx[r].bearer
          /\ \A s \in Requests \ {r} : tx'[s] = tx[s]
      BY <2>1, MoveFacts DEF Phases
    <2>3. Known' = Known /\ revoked' = revoked /\ FamilyOf(r)' = FamilyOf(r)
      BY <2>1, <2>2 DEF Known, sessions, FamilyOf
    <2>4. Holds(r) /\ tx[r].token \in Known /\ FamilyOf(r) \notin revoked
      BY <2>1 DEF SessionsInv, Current, Holds
    <2>5. Current(r)' /\ ~ Shares(r)'
      BY <2>1, <2>2, <2>3, <2>4 DEF Current, Shares, Holds
    <2>6. \A s \in Requests \ {r} : Holds(s) \/ Shares(s) => FamilyOf(s) # FamilyOf(r)'
      BY <2>3, <2>4 DEF SessionsInv, Exclusive
    <2> QED BY <2>1, <2>2, <2>5, <2>6, InvQuiet
  <1>4. ASSUME NEW r \in Requests, SupportGetPlatformFamily(r) PROVE SessionsInv'
    <2>1. /\ tx[r].phase = "borne" /\ tx[r].kind = "operation"
          /\ Move(r, "shared") /\ UNCHANGED sessions
          /\ ~ FamilyHeld(FamilyOf(r))
          /\ ~ TokenOf(tx[r].bearer).used /\ tx[r].bearer[1] \notin revoked
      BY <1>4 DEF SupportGetPlatformFamily, GetActivePlatformSession, GetPlatformLogoutSession
    <2>2. /\ tx'[r].phase = "shared" /\ tx'[r].kind = "operation"
          /\ tx'[r].token = tx[r].token /\ tx'[r].bearer = tx[r].bearer
          /\ \A s \in Requests \ {r} : tx'[s] = tx[s]
      BY <2>1, MoveFacts DEF Phases
    <2>3. /\ Known' = Known /\ revoked' = revoked /\ FamilyOf(r)' = FamilyOf(r)
          /\ FamilyOf(r) = tx[r].bearer[1] /\ TokenOf(tx[r].bearer)' = TokenOf(tx[r].bearer)
      BY <2>1, <2>2 DEF Known, sessions, FamilyOf, TokenOf
    <2>4. tx[r].bearer \in Known
      BY <2>1 DEF SessionsInv, Current
    <2>5. Current(r)' /\ ~ Holds(r)'
      BY <2>1, <2>2, <2>3, <2>4 DEF Current, Shares, Holds
    <2>6. \A s \in Requests : Holds(s) => FamilyOf(s) # FamilyOf(r)'
      BY <2>1, <2>3, HeldByHolder
    <2> QED BY <2>1, <2>2, <2>5, <2>6, InvQuiet
  <1>5. ASSUME NEW r \in Requests, Ends(r) PROVE SessionsInv'
    <2>1. Finish(r) /\ UNCHANGED sessions
      BY <1>5, EndsFacts
    <2>2. Known' = Known /\ revoked' = revoked
      BY <2>1 DEF Known, sessions
    <2>3. \A s \in Requests \ {r} : TokenOf(tx[s].bearer)' = TokenOf(tx[s].bearer)
      BY <2>1, FinishFacts DEF TokenOf, sessions
    <2> QED BY <2>1, <2>2, <2>3, InvEnd
  <1>6. ASSUME NEW r \in Requests, CreateSession(r) PROVE SessionsInv'
    <2>1. PICK f \in Families \ created :
            /\ created' = created \cup {f}
            /\ \A g \in Families \ {f} : tokens'[g] = tokens[g]
            /\ Finish(r) /\ UNCHANGED <<admins, revoked>>
      BY <1>6, CreateSessionFacts
    <2>2. \A g \in created : g \in Families \ {f} /\ tokens'[g] = tokens[g]
      BY <2>1 DEF TypeOK
    <2>3. Known \subseteq Known'
      BY <2>1, <2>2, LenOrder, KnownGrows
    <2>4. \A s \in Requests \ {r} : Shares(s) => TokenOf(tx[s].bearer)' = TokenOf(tx[s].bearer)
      BY <2>1, <2>2, FinishFacts, KnownFacts DEF TokenOf, SessionsInv, Current
    <2> QED BY <2>1, <2>3, <2>4, InvEnd
  <1>7. ASSUME NEW r \in Requests, Revokes(r) PROVE SessionsInv'
    <2>1. /\ Holds(r) /\ revoked' = revoked \cup {FamilyOf(r)}
          /\ Finish(r) /\ UNCHANGED <<admins, created, tokens>>
      BY <1>7, RevokesFacts
    <2>2. Known' = Known
      BY <2>1 DEF Known
    <2>3. \A s \in Requests \ {r} :
            /\ Holds(s) \/ Shares(s) => FamilyOf(s) # FamilyOf(r)
            /\ TokenOf(tx[s].bearer)' = TokenOf(tx[s].bearer)
      BY <2>1, FinishFacts DEF TokenOf, SessionsInv, Exclusive
    <2> QED BY <2>1, <2>2, <2>3, InvEnd
  <1>8. ASSUME NEW r \in Requests, Rotate(r) PROVE SessionsInv'
    <2>1. PICK f \in created \ revoked :
            /\ Holds(r) /\ FamilyOf(r) = f
            /\ Len(tokens[f]) \in Nat
            /\ Len(tokens'[f]) = Len(tokens[f]) + 1
            /\ \A g \in Families \ {f} : tokens'[g] = tokens[g]
            /\ Finish(r) /\ UNCHANGED <<admins, created, revoked>>
      BY <1>8, RotateFacts
    <2>2. created \subseteq Families
      BY DEF TypeOK
    <2>3. \A g \in created : Len(tokens[g]) <= Len(tokens'[g])
      BY <2>1, <2>2, LenOrder
    <2>4. Known \subseteq Known'
      BY <2>1, <2>3, KnownGrows
    <2>5. \A s \in Requests \ {r} : Shares(s) =>
            tx[s].bearer \in Known /\ tx[s].bearer[1] # f
      <3>1. \A s \in Requests : Shares(s) => tx[s].bearer \in Known /\ FamilyOf(s) = tx[s].bearer[1]
        BY DEF SessionsInv, Current, FamilyOf
      <3> QED BY <2>1, <3>1 DEF SessionsInv, Exclusive
    <2>6. \A s \in Requests \ {r} : Shares(s) => TokenOf(tx[s].bearer)' = TokenOf(tx[s].bearer)
      BY <2>1, <2>5, FinishFacts, KnownFacts DEF TokenOf
    <2> QED BY <2>1, <2>4, <2>6, InvEnd
  <1>9. ASSUME NEW t \in Known, Expire(t) PROVE SessionsInv'
    <2>1. /\ \A f \in Families :
               /\ Len(tokens'[f]) = Len(tokens[f])
               /\ \A j \in 1 .. Len(tokens[f]) : tokens'[f][j].used = tokens[f][j].used
          /\ UNCHANGED <<admins, created, revoked, tx>>
      BY <1>9, ExpireFacts
    <2>2. created \subseteq Families
      BY DEF TypeOK
    <2>3. Known \subseteq Known'
      BY <2>1, <2>2, LenOrder, KnownGrows
    <2>4. \A s \in Requests : Shares(s) =>
            TokenOf(tx[s].bearer)'.used = TokenOf(tx[s].bearer).used
      BY <2>1, KnownFacts DEF TokenOf, SessionsInv, Current
    <2>5. \A s \in Requests : /\ Current(s)' /\ FamilyOf(s)' = FamilyOf(s)
                              /\ (Holds(s)' <=> Holds(s)) /\ (Shares(s)' <=> Shares(s))
      BY <2>1, <2>3, <2>4, StaysCurrent DEF SessionsInv
    <2> QED BY <2>5 DEF SessionsInv, Exclusive
  <1>10. CASE UNCHANGED vars
    BY <1>10 DEF vars, SessionsInv, Exclusive, Current, Holds, Shares, FamilyOf, Known, TokenOf
  <1> QED BY <1>1, <1>2, <1>3, <1>4, <1>5, <1>6, <1>7, <1>8, <1>9, <1>10
          DEF Next, Work, Revokes, Ends
----------------------------------------------------------------------------
(***************************************************************************)
(* One administrator                                                       *)
(***************************************************************************)
Inserted(r) == tx[r].phase = "inserted"

\* A row that is not committed keeps every other out.
OneInserts ==
  /\ \A r, s \in Requests : Inserted(r) /\ Inserted(s) => r = s
  /\ \A r \in Requests : Inserted(r) => admins = {}
  /\ OneAdministrator

\* Request s became an inserter in no other way than by Bootstrap.
LEMMA InsertsKept ==
  ASSUME OneInserts, NEW r \in Requests, \A s \in Requests \ {r} : tx'[s] = tx[s],
         admins' = admins, ~ Inserted(r)'
  PROVE  OneInserts'
  <1>1. \A s \in Requests : Inserted(s)' => s # r /\ Inserted(s)
    BY DEF Inserted
  <1> QED BY <1>1 DEF OneInserts, OneAdministrator

LEMMA BootstrapNext == ASSUME TypeOK, OneInserts, [Next]_vars PROVE OneInserts'
  <1>1. ASSUME NEW r \in Requests, Bootstrap(r) PROVE OneInserts'
    <2>1. /\ admins' = admins /\ admins = {} /\ \A s \in Requests : ~ Inserted(s)
          /\ \A s \in Requests \ {r} : tx'[s] = tx[s]
      BY <1>1, ArriveFacts DEF Bootstrap, IdTaken, Inserted, Arrive
    <2>2. \A s \in Requests : Inserted(s)' => s = r
      BY <2>1 DEF Inserted
    <2> QED BY <2>1, <2>2 DEF OneInserts, OneAdministrator
  <1>2. ASSUME NEW r \in Requests, Login(r) \/ Refresh(r) \/ AuthenticatePlatform(r)
        PROVE  OneInserts'
    <2>1. admins' = admins /\ \A s \in Requests \ {r} : tx'[s] = tx[s]
      BY <1>2, ArriveFacts DEF Arrive
    <2>2. tx'[r].phase \in {"verified", "found", "borne"}
      <3>1. IdleTx \in Tx /\ tx \in [Requests -> Tx]
        BY IdleTxType DEF TypeOK
      <3>2. CASE Login(r)
        BY <3>1, <3>2 DEF Login, Start, Tx
      <3>3. CASE Refresh(r)
        BY <3>1, <3>3 DEF Refresh, Start, Tx
      <3>4. CASE AuthenticatePlatform(r)
        <4>1. PICK t \in Known, kind \in {"logout", "operation"} :
                tx' = [tx EXCEPT ![r] =
                         [IdleTx EXCEPT !.phase = "borne", !.kind = kind, !.bearer = t]]
          BY <3>4 DEF AuthenticatePlatform, Start
        <4> QED BY <3>1, <4>1 DEF Tx
      <3> QED BY <1>2, <3>2, <3>3, <3>4
    <2> QED BY <2>1, <2>2, InsertsKept DEF Inserted
  <1>3. ASSUME NEW r \in Requests, Logout(r) PROVE OneInserts'
    <2>1. tx'[r].phase = "found"
      BY <1>3 DEF Logout, TypeOK, Tx
    <2> QED BY <1>3, <2>1, LogoutFacts, InsertsKept DEF Inserted
  <1>4. ASSUME NEW r \in Requests, Moves(r) PROVE OneInserts'
    BY <1>4, MovesFacts, InsertsKept DEF Inserted
  <1>5. ASSUME NEW r \in Requests, Ends(r) PROVE OneInserts'
    <2>1. /\ tx'[r].phase = "idle" /\ \A s \in Requests \ {r} : tx'[s] = tx[s]
          /\ admins' = admins \/ (Inserted(r) /\ admins' = admins \cup {r})
      BY <1>5, EndsFacts, FinishFacts, IdleTxType DEF Inserted
    <2>2. CASE admins' = admins
      BY <2>1, <2>2, InsertsKept DEF Inserted
    <2>3. CASE Inserted(r) /\ admins' = admins \cup {r}
      <3>1. admins' = {r}
        BY <2>3 DEF OneInserts
      <3>2. \A s \in Requests : ~ Inserted(s)'
        BY <2>1, <2>3 DEF OneInserts, Inserted
      <3> QED BY <3>1, <3>2 DEF OneInserts, OneAdministrator
    <2> QED BY <2>1, <2>2, <2>3
  <1>6. ASSUME NEW r \in Requests, CreateSession(r) \/ Revokes(r) \/ Rotate(r) PROVE OneInserts'
    <2>1. Finish(r) /\ admins' = admins
      BY <1>6 DEF CreateSession, Revokes, Contain, EndSession, Rotate
    <2>2. ~ Inserted(r)' /\ \A s \in Requests \ {r} : tx'[s] = tx[s]
      BY <2>1, FinishFacts, IdleTxType DEF Inserted
    <2> QED BY <2>1, <2>2, InsertsKept
  <1>7. CASE UNCHANGED <<admins, tx>>
    BY <1>7 DEF OneInserts, OneAdministrator, Inserted
  <1>8. ASSUME NEW t \in Known, Expire(t) PROVE UNCHANGED <<admins, tx>>
    BY <1>8 DEF Expire
  <1> QED BY <1>1, <1>2, <1>3, <1>4, <1>5, <1>6, <1>7, <1>8
          DEF Next, Work, Arrive, Moves, Revokes, Ends, vars
----------------------------------------------------------------------------
(***************************************************************************)
(* One live token                                                          *)
(***************************************************************************)
LEMMA AllInit == Init => TypeOK /\ SessionsInv /\ OneLiveToken /\ OneInserts
  <1> SUFFICES ASSUME Init PROVE TypeOK /\ SessionsInv /\ OneLiveToken /\ OneInserts
    OBVIOUS
  <1>1. tx \in [Requests -> Tx] /\ \A r \in Requests : tx[r].phase = "idle" /\ tx[r].kind = "none"
    BY IdleTxType DEF Init
  <1>2. admins = {} /\ created = {} /\ revoked = {}
    BY DEF Init
  <1>3. tokens \in [Families -> Seq(Token)] /\ \A f \in Families : tokens[f] = <<>> /\ Len(tokens[f]) = 0
    BY EmptySeq DEF Init
  <1>4. \A f \in Families : Len(tokens[f]) <= MaxTokens
    BY <1>3, PlatformAssumption
  <1>5. TypeOK
    BY <1>1, <1>2, <1>3, <1>4 DEF TypeOK
  <1>6. SessionsInv
    BY <1>1 DEF SessionsInv, Exclusive, Current, Holds, Shares
  <1>7. OneLiveToken /\ OneInserts
    BY <1>1, <1>2 DEF OneLiveToken, OneInserts, OneAdministrator, Inserted
  <1> QED BY <1>5, <1>6, <1>7

\* Every step leaves families and tokens alone, or is one of these.
LEMMA Writers ==
  ASSUME TypeOK, [Next]_vars
  PROVE  \/ UNCHANGED sessions
         \/ \E r \in Requests : CreateSession(r) \/ Revokes(r) \/ Rotate(r)
         \/ \E t \in Known : Expire(t)
  <1>1. ASSUME NEW r \in Requests, Arrive(r) \/ Logout(r) \/ Moves(r) \/ Ends(r)
        PROVE  UNCHANGED sessions
    BY <1>1, ArriveFacts, LogoutFacts, MovesFacts, EndsFacts
  <1>2. CASE UNCHANGED vars
    BY <1>2 DEF vars, sessions
  <1> QED BY <1>1, <1>2 DEF Next, Work, Moves, Revokes, Ends

LEMMA OneLiveNext ==
  ASSUME TypeOK, SessionsInv, OneLiveToken, [Next]_vars PROVE OneLiveToken'
  <1>1. CASE UNCHANGED sessions
    BY <1>1 DEF OneLiveToken, sessions
  <1>2. ASSUME NEW r \in Requests, CreateSession(r) PROVE OneLiveToken'
    <2>1. PICK f \in Families \ created :
            /\ created' = created \cup {f}
            /\ Len(tokens'[f]) = 1 /\ ~ tokens'[f][1].used
            /\ \A g \in Families \ {f} : tokens'[g] = tokens[g]
      BY <1>2, CreateSessionFacts
    <2>2. \A g \in created : g \in Families \ {f}
      BY <2>1 DEF TypeOK
    <2>3. \A g \in created : \A i \in 1 .. Len(tokens'[g]) :
            tokens'[g][i].used <=> i < Len(tokens'[g])
      BY <2>1, <2>2 DEF OneLiveToken
    <2>4. \A i \in 1 .. Len(tokens'[f]) : tokens'[f][i].used <=> i < Len(tokens'[f])
      BY <2>1
    <2> QED BY <2>1, <2>3, <2>4 DEF OneLiveToken
  <1>3. ASSUME NEW r \in Requests, Rotate(r) PROVE OneLiveToken'
    <2>1. PICK f \in created \ revoked :
            /\ Len(tokens[f]) \in Nat
            /\ Len(tokens'[f]) = Len(tokens[f]) + 1
            /\ \A j \in 1 .. Len(tokens[f]) : tokens'[f][j].used
            /\ ~ tokens'[f][Len(tokens[f]) + 1].used
            /\ \A g \in Families \ {f} : tokens'[g] = tokens[g]
            /\ UNCHANGED <<admins, created, revoked>>
      BY <1>3, RotateFacts
    <2>2. created' = created /\ created \subseteq Families
      BY <2>1 DEF TypeOK
    <2>3. \A g \in created \ {f} : \A i \in 1 .. Len(tokens'[g]) :
            tokens'[g][i].used <=> i < Len(tokens'[g])
      BY <2>1, <2>2 DEF OneLiveToken
    <2>4. ASSUME NEW i \in 1 .. Len(tokens'[f])
          PROVE  tokens'[f][i].used <=> i < Len(tokens'[f])
      <3>1. CASE i = Len(tokens[f]) + 1
        BY <2>1, <3>1
      <3>2. CASE i # Len(tokens[f]) + 1
        <4>1. i \in 1 .. Len(tokens[f])
          BY <2>1, <3>2
        <4> QED BY <2>1, <4>1
      <3> QED BY <3>1, <3>2
    <2> QED BY <2>2, <2>3, <2>4 DEF OneLiveToken
  <1>4. ASSUME NEW r \in Requests, Revokes(r) PROVE OneLiveToken'
    BY <1>4, RevokesFacts DEF OneLiveToken
  <1>5. ASSUME NEW t \in Known, Expire(t) PROVE OneLiveToken'
    <2>1. /\ \A f \in Families :
               /\ Len(tokens'[f]) = Len(tokens[f])
               /\ \A j \in 1 .. Len(tokens[f]) : tokens'[f][j].used = tokens[f][j].used
          /\ created' = created /\ created \subseteq Families
      BY <1>5, ExpireFacts DEF TypeOK
    <2> QED BY <2>1 DEF OneLiveToken
  <1> QED BY <1>1, <1>2, <1>3, <1>4, <1>5, Writers

\* Every row of every table and every request has its type.
THEOREM TypeCorrect == Spec => []TypeOK
  BY AllInit, TypeNext, InvNext, OneLiveNext, PTL DEF Spec

\* However many bootstraps race, they leave one administrator.
THEOREM OneIsBootstrapped == Spec => []OneAdministrator
  <1>1. OneInserts => OneAdministrator
    BY DEF OneInserts
  <1> QED BY <1>1, AllInit, TypeNext, InvNext, OneLiveNext, BootstrapNext, PTL DEF Spec

\* An operation that runs does so in a family that lives and under the last token
\* of it, whatever logout, refresh and replay race it.
THEOREM OperationsArePrivileged == Spec => []PrivilegedWhileLive
  <1>1. SessionsInv => PrivilegedWhileLive
    BY DEF SessionsInv, Current, Shares, PrivilegedWhileLive
  <1> QED BY <1>1, AllInit, TypeNext, InvNext, OneLiveNext, PTL DEF Spec

\* However refreshes race, of the tokens of a family only the last is unused.
THEOREM OnlyTheLastLives == Spec => []OneLiveToken
  BY AllInit, TypeNext, InvNext, OneLiveNext, PTL DEF Spec
----------------------------------------------------------------------------
(***************************************************************************)
(* The lineages that the sessions implement                                *)
(***************************************************************************)
LEMMA UnusedIsLast ==
  ASSUME NEW S \in Seq(Token), S # <<>>, \A i \in 1 .. Len(S) : S[i].used <=> i < Len(S)
  PROVE  {i \in DOMAIN S : ~ S[i].used} = {Len(S)}
  <1>1. DOMAIN S = 1 .. Len(S) /\ Len(S) \in Nat \ {0}
    BY LenProperties, EmptySeq
  <1> QED BY <1>1

\* A row of the lineage that the sessions stand for.
State(f) == IF f \in revoked THEN "revoked" ELSE IF f \in created THEN "live" ELSE "none"
Unused(f) == {i \in DOMAIN tokens[f] : ~ tokens[f][i].used}
Lin == [f \in Families |-> [state |-> State(f), unused |-> Unused(f)]]

LEMMA UnusedFacts ==
  ASSUME TypeOK, OneLiveToken, NEW f \in Families
  PROVE  /\ f \in created => Unused(f) = {Len(tokens[f])}
         /\ f \notin created => Unused(f) = {}
  <1>1. CASE f \in created
    BY <1>1, UnusedIsLast DEF TypeOK, OneLiveToken, Unused
  <1>2. CASE f \notin created
    <2>1. tokens[f] = <<>>
      BY <1>2 DEF TypeOK
    <2>2. DOMAIN tokens[f] = {}
      BY <2>1
    <2> QED BY <1>2, <2>2 DEF Unused
  <1> QED BY <1>1, <1>2

LEMMA UnusedNext ==
  ASSUME TypeOK', OneLiveToken', NEW f \in Families
  PROVE  f \in created' => Unused(f)' = {Len(tokens'[f])}
  BY UnusedIsLast DEF TypeOK, OneLiveToken, Unused

LEMMA LinFacts ==
  ASSUME NEW f \in Families
  PROVE  /\ Lin[f] = [state |-> State(f), unused |-> Unused(f)]
         /\ Lin[f].state = State(f) /\ Lin[f].unused = Unused(f)
         /\ [Lin[f] EXCEPT !.state = "revoked"] = [state |-> "revoked", unused |-> Unused(f)]
  BY DEF Lin

LEMMA LineageInit == Init => Lineage!Init
  <1> SUFFICES ASSUME Init PROVE Lineage!Init
    OBVIOUS
  <1>1. ASSUME NEW f \in Families PROVE State(f) = "none" /\ Unused(f) = {}
    <2>1. tokens[f] = <<>> /\ revoked = {} /\ created = {}
      BY DEF Init
    <2>2. DOMAIN tokens[f] = {}
      BY <2>1
    <2> QED BY <2>1, <2>2 DEF State, Unused
  <1>2. Lin = [f \in Families |-> Lineage!Blank]
    BY <1>1 DEF Lin, Lineage!Blank
  <1> QED BY <1>2 DEF Lineage!Init, Lin, State, Unused

LEMMA LineageNext ==
  ASSUME TypeOK, TypeOK', SessionsInv, OneLiveToken, OneLiveToken', [Next]_vars
  PROVE  Lineage!Next \/ Lin' = Lin
  <1>lin. /\ \A f \in Families : Lin[f] = [state |-> State(f), unused |-> Unused(f)]
          /\ Lin' = [f \in Families |-> [state |-> State(f)', unused |-> Unused(f)']]
    BY DEF Lin
  <1>1. CASE UNCHANGED sessions
    BY <1>1 DEF sessions, Lin, State, Unused
  <1>2. ASSUME NEW r \in Requests, CreateSession(r) PROVE Lineage!Next
    <2>1. PICK f \in Families \ created :
            /\ created' = created \cup {f}
            /\ Len(tokens'[f]) = 1
            /\ \A g \in Families \ {f} : tokens'[g] = tokens[g]
            /\ UNCHANGED <<admins, revoked>>
      BY <1>2, CreateSessionFacts
    <2>2. f \notin revoked
      BY <2>1 DEF TypeOK
    <2>3. State(f) = "none" /\ Unused(f) = {}
      BY <2>1, <2>2, UnusedFacts DEF State
    <2>4. State(f)' = "live" /\ Unused(f)' = {1}
      BY <2>1, <2>2, UnusedNext DEF State
    <2>5. \A g \in Families \ {f} : State(g)' = State(g) /\ Unused(g)' = Unused(g)
      BY <2>1 DEF State, Unused
    <2>6. Lin[f] = Lineage!Blank
      BY <1>lin, <2>3 DEF Lineage!Blank
    <2>7. Lin' = [Lin EXCEPT ![f] = [state |-> "live", unused |-> {1}]]
      BY <1>lin, <2>4, <2>5 DEF Lin
    <2>8. Lineage!Open(f)
      BY <2>6, <2>7 DEF Lineage!Open, Lin, State, Unused
    <2> QED BY <2>8 DEF Lineage!Next
  <1>3. ASSUME NEW r \in Requests, Rotate(r) PROVE Lineage!Next
    <2>1. PICK f \in created \ revoked :
            /\ Len(tokens'[f]) = Len(tokens[f]) + 1
            /\ \A g \in Families \ {f} : tokens'[g] = tokens[g]
            /\ UNCHANGED <<admins, created, revoked>>
      BY <1>3, RotateFacts
    <2>2. created' = created /\ f \in Families
      BY <2>1 DEF TypeOK
    <2>3. \A g \in Families : State(g)' = State(g)
      BY <2>1 DEF State
    <2>4. \A g \in Families \ {f} : Unused(g)' = Unused(g)
      BY <2>1 DEF Unused
    <2>5. Unused(f) = {Len(tokens[f])} /\ Unused(f)' = {Len(tokens[f]) + 1} /\ State(f) = "live"
      BY <2>1, <2>2, UnusedFacts, UnusedNext DEF State
    <2> DEFINE n == Len(tokens[f])
    <2> HIDE DEF n
    <2>6. Unused(f)' = (Unused(f) \ {n}) \cup {n + 1} /\ n \in Unused(f)
      BY <2>5 DEF n
    <2>7. Lin[f].state = "live" /\ n \in Lin[f].unused
      BY <2>2, <2>5, <2>6, LinFacts
    <2>8. Lin' = [Lin EXCEPT ![f].unused = (@ \ {n}) \cup {n + 1}]
      BY <1>lin, <2>2, <2>3, <2>4, <2>6 DEF Lin
    <2>9. Lineage!Rotate(f)
      BY <2>7, <2>8 DEF Lineage!Rotate, Lin, State, Unused
    <2> QED BY <2>2, <2>9 DEF Lineage!Next
  <1>4. ASSUME NEW r \in Requests, Revokes(r) PROVE Lineage!Next
    <2>1. PICK f \in created \ revoked :
            revoked' = revoked \cup {f} /\ UNCHANGED <<admins, created, tokens>>
      BY <1>4, RevokesFacts
    <2>2. f \in Families /\ State(f) = "live"
      BY <2>1 DEF TypeOK, State
    <2>3. \A g \in Families : Unused(g)' = Unused(g)
      BY <2>1 DEF Unused
    <2>4. \A g \in Families : State(g)' = IF g \in {f} THEN "revoked" ELSE State(g)
      BY <2>1 DEF State
    <2>5. \A g \in {f} : Lin[g].state = "live"
      BY <2>2, LinFacts
    <2>6. ASSUME NEW g \in Families
          PROVE  [state |-> State(g)', unused |-> Unused(g)'] =
                   IF g \in {f} THEN [Lin[g] EXCEPT !.state = "revoked"] ELSE Lin[g]
      <3>1. CASE g = f
        BY <2>3, <2>4, <3>1, LinFacts
      <3>2. CASE g # f
        BY <2>3, <2>4, <3>2, LinFacts
      <3> QED BY <3>1, <3>2
    <2>7. Lin' = [g \in Families |->
                   IF g \in {f} THEN [Lin[g] EXCEPT !.state = "revoked"] ELSE Lin[g]]
      BY <1>lin, <2>6
    <2>8. Lineage!Revoke({f})
      BY <2>5, <2>7 DEF Lineage!Revoke, Lin, State, Unused
    <2>9. {f} \in SUBSET Families
      BY <2>2
    <2> QED BY <2>8, <2>9 DEF Lineage!Next
  <1>5. ASSUME NEW t \in Known, Expire(t) PROVE Lin' = Lin
    <2>1. /\ \A f \in Families : Len(tokens'[f]) = Len(tokens[f])
          /\ UNCHANGED <<admins, created, revoked>>
      BY <1>5, ExpireFacts
    <2>2. \A f \in Families : State(f)' = State(f)
      BY <2>1 DEF State
    <2>3. ASSUME NEW f \in Families PROVE Unused(f)' = Unused(f)
      <3>1. CASE f \in created
        BY <2>1, <3>1, UnusedFacts, UnusedNext
      <3>2. CASE f \notin created
        <4>1. tokens[f] = <<>> /\ tokens'[f] = <<>>
          BY <2>1, <3>2 DEF TypeOK
        <4> QED BY <4>1 DEF Unused
      <3> QED BY <3>1, <3>2
    <2> QED BY <1>lin, <2>2, <2>3 DEF Lin
  <1> QED BY <1>1, <1>2, <1>3, <1>4, <1>5, Writers

\* The platform's sessions implement the lineages of RefreshLineage: whatever races,
\* a family opens, rotates and is revoked one step at a time.
THEOREM SessionsImplementLineage == Spec => ImplementsLineage
  <1>1. Lin' = Lin => UNCHANGED [f \in Families |->
                 [state |-> IF f \in revoked THEN "revoked"
                            ELSE IF f \in created THEN "live" ELSE "none",
                  unused |-> {i \in DOMAIN tokens[f] : ~ tokens[f][i].used}]]
    BY DEF Lin, State, Unused
  <1> QED BY <1>1, AllInit, TypeNext, InvNext, OneLiveNext, LineageInit, LineageNext, PTL
          DEF Spec, ImplementsLineage, Lineage!Spec
=============================================================================
