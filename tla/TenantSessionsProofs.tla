------------------------ MODULE TenantSessionsProofs ------------------------
(***************************************************************************)
(* Proofs about TenantSessions, for any number of requests, users,         *)
(* families and tokens.                                                    *)
(*                                                                         *)
(* A request that locked a family is alone in it, so that what it read of  *)
(* the family and its token is so when it writes (ReadsStayCurrent); with  *)
(* that a rotation only ever replaces the last token of a line.            *)
(***************************************************************************)
EXTENDS TenantSessions, SequenceTheorems, TLAPS

\* The kind of a request goes with how far it got, and its user is one.
KindsMatch ==
  \A r \in Requests :
    /\ tx[r].phase \in {"found", "locked"} => tx[r].kind \in {"refresh", "logout"}
    /\ tx[r].phase \in {"fresh", "replayed"} => tx[r].kind = "refresh"
    /\ tx[r].phase = "authorized" => tx[r].kind \in {"login", "refresh"}
    /\ tx[r].phase = "verified" => tx[r].kind = "login"
    /\ tx[r].phase = "borne" => tx[r].kind \in {"logout", "call"}
    /\ tx[r].phase # "idle" => tx[r].user \in Users

Holds(r) ==
  /\ tx[r].kind \in {"refresh", "logout"}
  /\ tx[r].phase \in {"locked", "fresh", "replayed", "authorized"}

LEMMA HeldByHolder ==
  ASSUME NEW f PROVE FamilyHeld(f) <=> \E r \in Requests : Holds(r) /\ tx[r].token[1] = f
  BY DEF FamilyHeld, Holds

LEMMA CurrentFacts ==
  ReadsStayCurrent <=>
    /\ \A r \in Requests : Current(r)
    /\ \A r, s \in Requests : Holds(r) /\ Holds(s) /\ tx[r].token[1] = tx[s].token[1] => r = s
  BY DEF ReadsStayCurrent, Holds

LEMMA KnownFacts ==
  ASSUME TypeOK, NEW t
  PROVE  t \in Known <=> /\ t \in Families \X (1 .. MaxTokens)
                         /\ t[1] \in Existing /\ t[2] \in 1 .. Len(tokens[t[1]])
  <1>1. ASSUME NEW f \in Families PROVE DOMAIN tokens[f] = 1 .. Len(tokens[f])
    BY LenProperties DEF TypeOK
  <1>2. Existing \subseteq Families
    BY DEF Existing
  <1> QED BY <1>1, <1>2 DEF Known

LEMMA TokenType ==
  ASSUME TypeOK, NEW t \in Known
  PROVE  TokenOf(t) \in Token /\ t[1] \in Families /\ owner[t[1]] \in Users /\ t \in AnyToken
  <1>1. t[1] \in Existing /\ t[1] \in Families /\ t[2] \in 1 .. Len(tokens[t[1]])
    BY KnownFacts
  <1>2. TokenOf(t) \in Token
    BY <1>1, ElementOfSeq DEF TypeOK, TokenOf
  <1>3. t \in AnyToken
    BY KnownFacts DEF AnyToken
  <1> QED BY <1>1, <1>2, <1>3 DEF Existing, TypeOK

LEMMA IdleTxType == IdleTx \in Tx /\ IdleTx.phase = "idle" /\ IdleTx.kind = "none"
  BY SessionsAssumption DEF IdleTx, Tx, Phases, Kinds, AnyToken
----------------------------------------------------------------------------
(***************************************************************************)
(* Requests                                                                *)
(***************************************************************************)
\* A step of one request turns its record into another.
LEMMA TurnsInto ==
  ASSUME TypeOK, NEW r \in Requests, NEW x \in Tx, tx' = [tx EXCEPT ![r] = x]
  PROVE  tx' \in [Requests -> Tx] /\ tx'[r] = x /\ \A s \in Requests \ {r} : tx'[s] = tx[s]
  BY DEF TypeOK

LEMMA MoveFacts ==
  ASSUME TypeOK, NEW r \in Requests, NEW p \in Phases, Move(r, p)
  PROVE  /\ tx' \in [Requests -> Tx]
         /\ tx'[r].phase = p /\ tx'[r].kind = tx[r].kind /\ tx'[r].user = tx[r].user
         /\ tx'[r].token = tx[r].token
         /\ \A s \in Requests \ {r} : tx'[s] = tx[s]
  <1>1. tx \in [Requests -> Tx] BY DEF TypeOK
  <1> QED BY <1>1 DEF Move, Tx

LEMMA FinishFacts ==
  ASSUME TypeOK, NEW r \in Requests, Finish(r)
  PROVE  tx' \in [Requests -> Tx] /\ tx'[r] = IdleTx /\ \A s \in Requests \ {r} : tx'[s] = tx[s]
  BY IdleTxType, TurnsInto DEF Finish

\* What the steps before the writing ones do to the request that takes them.
LEMMA ArriveFacts ==
  ASSUME TypeOK, NEW r \in Requests, Arrive(r)
  PROVE  /\ tx' \in [Requests -> Tx] /\ UNCHANGED <<sessions, shop>>
         /\ tx'[r].user \in Users
         /\ \/ tx'[r].phase = "verified" /\ tx'[r].kind = "login"
            \/ tx'[r].phase = "found" /\ tx'[r].kind = "refresh" /\ tx'[r].token \in Known
            \/ tx'[r].phase = "borne" /\ tx'[r].kind \in {"logout", "call"}
         /\ \A s \in Requests \ {r} : tx'[s] = tx[s]
  <1>1. CASE Login(r)
    <2>1. PICK u \in Users :
            tx' = [tx EXCEPT ![r] =
                     [IdleTx EXCEPT !.phase = "verified", !.kind = "login", !.user = u]]
      BY <1>1 DEF Login, Start
    <2>2. [IdleTx EXCEPT !.phase = "verified", !.kind = "login", !.user = u] \in Tx
      BY IdleTxType DEF Tx, Phases, Kinds
    <2>3. UNCHANGED <<sessions, shop>>
      BY <1>1 DEF Login
    <2> QED BY <2>1, <2>2, <2>3, TurnsInto, IdleTxType DEF Tx
  <1>2. CASE Refresh(r)
    <2>1. PICK t \in Known :
            tx' = [tx EXCEPT ![r] =
                     [IdleTx EXCEPT !.phase = "found", !.kind = "refresh", !.token = t,
                                    !.user = owner[t[1]]]]
      BY <1>2 DEF Refresh, FindRefreshTokenFamily, Start
    <2>2. owner[t[1]] \in Users /\ t \in AnyToken
      BY TokenType
    <2>3. [IdleTx EXCEPT !.phase = "found", !.kind = "refresh", !.token = t,
                         !.user = owner[t[1]]] \in Tx
      BY <2>2, IdleTxType DEF Tx, Phases, Kinds
    <2>4. UNCHANGED <<sessions, shop>>
      BY <1>2 DEF Refresh
    <2> QED BY <2>1, <2>2, <2>3, <2>4, TurnsInto, IdleTxType DEF Tx
  <1>3. CASE Bear(r)
    <2>1. PICK t \in Known, kind \in {"logout", "call"} :
            tx' = [tx EXCEPT ![r] =
                     [IdleTx EXCEPT !.phase = "borne", !.kind = kind, !.bearer = t,
                                    !.user = owner[t[1]]]]
      BY <1>3 DEF Bear, Start
    <2>2. owner[t[1]] \in Users /\ t \in AnyToken
      BY TokenType
    <2>3. [IdleTx EXCEPT !.phase = "borne", !.kind = kind, !.bearer = t,
                         !.user = owner[t[1]]] \in Tx
      BY <2>2, IdleTxType DEF Tx, Phases, Kinds
    <2>4. UNCHANGED <<sessions, shop>>
      BY <1>3 DEF Bear
    <2> QED BY <2>1, <2>2, <2>3, <2>4, TurnsInto, IdleTxType DEF Tx
  <1> QED BY <1>1, <1>2, <1>3 DEF Arrive

LEMMA AuthorizeFacts ==
  ASSUME TypeOK, KindsMatch, NEW r \in Requests, Authorize(r)
  PROVE  /\ tx' \in [Requests -> Tx] /\ UNCHANGED <<sessions, shop>>
         /\ tx'[r].phase = "authorized" /\ tx'[r].kind = tx[r].kind
         /\ tx'[r].user = tx[r].user /\ tx'[r].token = tx[r].token
         /\ \A s \in Requests \ {r} : tx'[s] = tx[s]
  <1> DEFINE outs == ListUserOutletIDs(tx[r].user)
  <1>1. tx \in [Requests -> Tx] BY DEF TypeOK
  <1>2. outs \in Assignments
    BY DEF Authorize, KindsMatch, TypeOK, ListUserOutletIDs
  <1>3. tx' = [tx EXCEPT ![r] = [@ EXCEPT !.phase = "authorized", !.outs = outs]]
    BY DEF Authorize
  <1> HIDE DEF outs
  <1>4. tx' \in [Requests -> Tx] BY <1>1, <1>2, <1>3 DEF Tx, Phases
  <1> QED BY <1>1, <1>3, <1>4 DEF Tx, Authorize

LEMMA LogoutFacts ==
  ASSUME TypeOK, NEW r \in Requests, Logout(r)
  PROVE  /\ tx' \in [Requests -> Tx] /\ UNCHANGED <<sessions, shop>>
         /\ tx'[r].phase = "found" /\ tx'[r].kind = tx[r].kind
         /\ tx'[r].user = tx[r].user /\ tx'[r].token \in Known
         /\ \A s \in Requests \ {r} : tx'[s] = tx[s]
  <1>1. tx \in [Requests -> Tx] BY DEF TypeOK
  <1>2. PICK t \in Known : tx' = [tx EXCEPT ![r] = [@ EXCEPT !.phase = "found", !.token = t]]
    BY DEF Logout, FindRefreshTokenFamily
  <1>3. t \in AnyToken BY TokenType
  <1>4. tx' \in [Requests -> Tx] BY <1>1, <1>2, <1>3 DEF Tx, Phases
  <1> QED BY <1>1, <1>2, <1>4 DEF Tx, Logout
----------------------------------------------------------------------------
(***************************************************************************)
(* The steps that write families and tokens                                *)
(***************************************************************************)
LEMMA EmptyIsLenZero ==
  ASSUME NEW s \in Seq(Token) PROVE s = <<>> <=> Len(s) = 0
  BY EmptySeq, LenProperties

LEMMA NewToken ==
  ASSUME NEW outs \in Assignments
  PROVE  /\ CreateRefreshToken(outs) \in Token /\ ~ CreateRefreshToken(outs).used
         /\ <<CreateRefreshToken(outs)>> \in Seq(Token)
         /\ Len(<<CreateRefreshToken(outs)>>) = 1
  BY DEF CreateRefreshToken, Token

LEMMA IssueFacts ==
  ASSUME TypeOK, KindsMatch, NEW r \in Requests, Issue(r)
  PROVE  \E f \in Families \ Existing :
           /\ owner' \in [Families -> Users \cup {"NONE"}]
           /\ Existing' = Existing \cup {f}
           /\ tokens' \in [Families -> Seq(Token)]
           /\ Len(tokens'[f]) = 1 /\ ~ tokens'[f][1].used
           /\ \A g \in Families \ {f} : tokens'[g] = tokens[g]
           /\ Finish(r) /\ UNCHANGED <<revoked, shop>>
  <1>1. PICK f \in Families \ Existing :
          /\ owner' = [owner EXCEPT ![f] = tx[r].user]
          /\ tokens' = [tokens EXCEPT ![f] = <<CreateRefreshToken(tx[r].outs)>>]
    BY DEF Issue, CreateSessionFamily
  <1>2. tx[r].user \in Users /\ tx[r].user # "NONE" /\ tx[r].outs \in Assignments
    BY SessionsAssumption DEF Issue, KindsMatch, TypeOK, Tx
  <1>3. owner' \in [Families -> Users \cup {"NONE"}] /\ Existing' = Existing \cup {f}
    BY <1>1, <1>2 DEF TypeOK, Existing
  <1>4. /\ tokens' \in [Families -> Seq(Token)]
        /\ tokens'[f] = <<CreateRefreshToken(tx[r].outs)>>
        /\ \A g \in Families \ {f} : tokens'[g] = tokens[g]
    BY <1>1, <1>2, NewToken DEF TypeOK
  <1>5. Len(tokens'[f]) = 1 /\ ~ tokens'[f][1].used
    BY <1>2, <1>4, NewToken
  <1>6. Finish(r) /\ UNCHANGED <<revoked, shop>>
    BY DEF Issue
  <1> QED BY <1>3, <1>4, <1>5, <1>6

\* Whoever rotates holds the family of a token it knows.
LEMMA RotateFacts ==
  ASSUME TypeOK, ReadsStayCurrent, OneLiveToken, NEW r \in Requests, Rotate(r)
  PROVE  \E f \in Existing \ revoked :
           /\ Holds(r) /\ tx[r].token[1] = f
           /\ tokens' \in [Families -> Seq(Token)]
           /\ Len(tokens[f]) \in Nat /\ Len(tokens[f]) < MaxTokens
           /\ Len(tokens'[f]) = Len(tokens[f]) + 1
           /\ \A j \in 1 .. Len(tokens[f]) : tokens'[f][j].used
           /\ ~ tokens'[f][Len(tokens[f]) + 1].used
           /\ tx[r].token[2] = Len(tokens[f])
           /\ \A g \in Families \ {f} : tokens'[g] = tokens[g]
           /\ Finish(r) /\ UNCHANGED <<owner, revoked, shop>>
  <1> DEFINE f == tx[r].token[1]
             i == tx[r].token[2]
             S == tokens[f]
             T == [S EXCEPT ![i] = [S[i] EXCEPT !.used = TRUE]]
             e == CreateRefreshToken(tx[r].outs)
  <1>1. /\ tx[r].phase = "authorized" /\ tx[r].kind = "refresh"
        /\ Len(S) < MaxTokens /\ ~ S[i].used
        /\ tokens' = [tokens EXCEPT ![f] = Append(T, e)]
        /\ Finish(r) /\ UNCHANGED <<owner, revoked, shop>>
    BY DEF Rotate, RevokeRefreshToken
  <1>2. tx[r].token \in Known /\ f \notin revoked /\ tx[r].outs \in Assignments
    BY <1>1 DEF ReadsStayCurrent, Current, TypeOK, Tx
  <1>3. f \in Families /\ f \in Existing /\ i \in 1 .. Len(S)
    BY <1>2, KnownFacts
  <1>4. S \in Seq(Token) /\ Len(S) \in Nat /\ DOMAIN S = 1 .. Len(S) /\ S[i] \in Token
    BY <1>3, LenProperties, ElementOfSeq DEF TypeOK
  <1>5. \A j \in 1 .. Len(S) : S[j].used <=> j < Len(S)
    BY <1>3, <1>4 DEF OneLiveToken
  <1>6. i = Len(S)
    <2>1. ~ (i < Len(S))
      BY <1>1, <1>3, <1>5
    <2>2. Len(S) \in Nat /\ i \in 1 .. Len(S)
      BY <1>3, <1>4
    <2> QED BY <2>1, <2>2
  <1>7. e \in Token /\ ~ e.used /\ [S[i] EXCEPT !.used = TRUE] \in Token
        /\ [S[i] EXCEPT !.used = TRUE].used
    BY <1>2, <1>4, NewToken DEF Token
  <1> HIDE DEF e, S, f, i
  <1>8. /\ T \in Seq(Token) /\ Len(T) = Len(S)
        /\ \A j \in 1 .. Len(S) : T[j] = IF j = i THEN [S[i] EXCEPT !.used = TRUE] ELSE S[j]
    BY <1>3, <1>4, <1>7, ExceptSeq
  <1> HIDE DEF T
  <1>9. /\ Append(T, e) \in Seq(Token) /\ Len(Append(T, e)) = Len(S) + 1
        /\ \A j \in 1 .. Len(S) : Append(T, e)[j] = T[j]
        /\ Append(T, e)[Len(S) + 1] = e
    BY <1>7, <1>8, AppendProperties
  <1>10. ASSUME NEW j \in 1 .. Len(S) PROVE T[j].used
    <2>1. CASE j = i
      <3>1. T[j] = [S[i] EXCEPT !.used = TRUE]
        BY <1>8, <2>1
      <3> QED BY <1>7, <3>1
    <2>2. CASE j # i
      <3>1. T[j] = S[j]
        BY <1>8, <2>2
      <3>2. Len(S) \in Nat /\ j \in 1 .. Len(S) /\ j # Len(S)
        BY <1>4, <1>6, <2>2
      <3>3. j < Len(S)
        BY <3>2
      <3> QED BY <1>5, <3>1, <3>3
    <2> QED BY <2>1, <2>2
  <1>11. /\ tokens' \in [Families -> Seq(Token)] /\ tokens'[f] = Append(T, e)
         /\ \A g \in Families \ {f} : tokens'[g] = tokens[g]
    BY <1>1, <1>3, <1>9 DEF TypeOK
  <1> QED BY <1>1, <1>2, <1>3, <1>4, <1>6, <1>7, <1>9, <1>10, <1>11 DEF Holds, f, S, i

LEMMA ExpireFacts ==
  ASSUME TypeOK, NEW t \in Known, Expire(t)
  PROVE  /\ tokens' \in [Families -> Seq(Token)]
         /\ \A f \in Families :
              /\ Len(tokens'[f]) = Len(tokens[f])
              /\ \A j \in 1 .. Len(tokens[f]) : tokens'[f][j].used = tokens[f][j].used
         /\ UNCHANGED <<owner, revoked, shop, tx>>
  <1> DEFINE f == t[1]
             i == t[2]
             S == tokens[f]
             T == [S EXCEPT ![i] = [S[i] EXCEPT !.stale = TRUE]]
  <1>1. tokens' = [tokens EXCEPT ![f] = T] /\ UNCHANGED <<owner, revoked, shop, tx>>
    BY DEF Expire
  <1>2. f \in Families /\ i \in 1 .. Len(S)
    BY KnownFacts
  <1>3. S \in Seq(Token) /\ S[i] \in Token
    BY <1>2, ElementOfSeq DEF TypeOK
  <1>4. [S[i] EXCEPT !.stale = TRUE] \in Token /\ [S[i] EXCEPT !.stale = TRUE].used = S[i].used
    BY <1>3 DEF Token
  <1> HIDE DEF S, f, i
  <1>5. /\ T \in Seq(Token) /\ Len(T) = Len(S)
        /\ \A j \in 1 .. Len(S) : T[j] = IF j = i THEN [S[i] EXCEPT !.stale = TRUE] ELSE S[j]
    BY <1>2, <1>3, <1>4, ExceptSeq
  <1>6. \A j \in 1 .. Len(S) : T[j].used = S[j].used
    BY <1>4, <1>5
  <1> HIDE DEF T
  <1>7. /\ tokens' \in [Families -> Seq(Token)] /\ tokens'[f] = T
        /\ \A g \in Families \ {f} : tokens'[g] = tokens[g]
    BY <1>1, <1>2, <1>5 DEF TypeOK
  <1> QED BY <1>1, <1>5, <1>6, <1>7 DEF S
----------------------------------------------------------------------------
(***************************************************************************)
(* Types and kinds                                                         *)
(***************************************************************************)
LEMMA KindsKept ==
  ASSUME KindsMatch, NEW r \in Requests,
         \A s \in Requests \ {r} : tx'[s] = tx[s],
         /\ tx'[r].phase \in {"found", "locked"} => tx'[r].kind \in {"refresh", "logout"}
         /\ tx'[r].phase \in {"fresh", "replayed"} => tx'[r].kind = "refresh"
         /\ tx'[r].phase = "authorized" => tx'[r].kind \in {"login", "refresh"}
         /\ tx'[r].phase = "verified" => tx'[r].kind = "login"
         /\ tx'[r].phase = "borne" => tx'[r].kind \in {"logout", "call"}
         /\ tx'[r].phase # "idle" => tx'[r].user \in Users
  PROVE  KindsMatch'
  BY DEF KindsMatch

LEMMA FinishKeepsKinds ==
  ASSUME TypeOK, KindsMatch, NEW r \in Requests, Finish(r) PROVE KindsMatch'
  BY FinishFacts, IdleTxType, KindsKept

LEMMA TypeQuiet ==
  ASSUME TypeOK, UNCHANGED <<sessions, shop>>, tx' \in [Requests -> Tx] PROVE TypeOK'
  BY DEF TypeOK, sessions, shop, Existing

LEMMA TypeRevoke ==
  ASSUME TypeOK, UNCHANGED <<owner, tokens, outlets, serving>>, trading' \in BOOLEAN,
         revoked' \subseteq Existing, tx' \in [Requests -> Tx]
  PROVE  TypeOK'
  BY DEF TypeOK, Existing

\* A request that only moves on.
Moves(r) ==
  \/ LockSessionFamily(r) \/ GetRefreshTokenForUpdate(r)

LEMMA MovesFacts ==
  ASSUME TypeOK, KindsMatch, NEW r \in Requests, Moves(r)
  PROVE  /\ tx' \in [Requests -> Tx] /\ UNCHANGED <<sessions, shop>> /\ KindsMatch'
         /\ tx'[r].phase \in {"locked", "fresh", "replayed"}
         /\ tx'[r].kind = tx[r].kind /\ tx'[r].token = tx[r].token
         /\ \A s \in Requests \ {r} : tx'[s] = tx[s]
  <1>1. PICK p \in {"locked", "fresh", "replayed"} :
          /\ Move(r, p) /\ UNCHANGED <<sessions, shop>>
          /\ tx[r].phase \in {"found", "locked"} /\ (p # "locked" => tx[r].kind = "refresh")
    BY DEF Moves, LockSessionFamily, GetRefreshTokenForUpdate
  <1>2. /\ tx' \in [Requests -> Tx]
        /\ tx'[r].phase = p /\ tx'[r].kind = tx[r].kind /\ tx'[r].user = tx[r].user
        /\ tx'[r].token = tx[r].token /\ \A s \in Requests \ {r} : tx'[s] = tx[s]
    BY <1>1, MoveFacts DEF Phases
  <1>3. KindsMatch'
    BY <1>1, <1>2, KindsKept DEF KindsMatch
  <1> QED BY <1>1, <1>2, <1>3

\* Those that end without a write.
Ends(r) == Admit(r) \/ Refuse(r) \/ HangUp(r)

LEMMA EndsFacts ==
  ASSUME NEW r \in Requests, Ends(r) PROVE Finish(r) /\ UNCHANGED <<sessions, shop>>
  BY DEF Ends, Admit, Refuse, HangUp

\* Those that revoke the family they hold.
Revokes(r) == Contain(r) \/ EndSession(r)

LEMMA RevokesFacts ==
  ASSUME TypeOK, KindsMatch, ReadsStayCurrent, NEW r \in Requests, Revokes(r)
  PROVE  /\ Holds(r) /\ tx[r].token[1] \in Existing \ revoked
         /\ revoked' = revoked \cup {tx[r].token[1]}
         /\ Finish(r) /\ UNCHANGED <<owner, tokens, shop>>
  <1>1. /\ tx[r].phase \in {"locked", "replayed"} /\ tx[r].kind \in {"refresh", "logout"}
        /\ revoked' = revoked \cup {tx[r].token[1]}
        /\ Finish(r) /\ UNCHANGED <<owner, tokens, shop>>
    BY DEF Revokes, Contain, EndSession, RevokeSessionFamily, KindsMatch
  <1>2. tx[r].token \in Known /\ tx[r].token[1] \notin revoked
    BY <1>1 DEF ReadsStayCurrent, Current
  <1> QED BY <1>1, <1>2, KnownFacts DEF Holds

LEMMA TypeNext ==
  ASSUME TypeOK, KindsMatch, ReadsStayCurrent, OneLiveToken, [Next]_vars
  PROVE  TypeOK' /\ KindsMatch'
  <1>1. ASSUME NEW r \in Requests, Arrive(r) PROVE TypeOK' /\ KindsMatch'
    BY <1>1, ArriveFacts, TypeQuiet, KindsKept
  <1>2. ASSUME NEW r \in Requests, Authorize(r) PROVE TypeOK' /\ KindsMatch'
    <2>1. tx[r].phase \in {"verified", "fresh"}
      BY <1>2 DEF Authorize
    <2>2. tx[r].kind \in {"login", "refresh"} /\ tx[r].user \in Users
      BY <2>1 DEF KindsMatch
    <2> QED BY <1>2, <2>2, AuthorizeFacts, TypeQuiet, KindsKept
  <1>3. ASSUME NEW r \in Requests, Issue(r) PROVE TypeOK' /\ KindsMatch'
    <2>1. PICK f \in Families \ Existing :
            /\ owner' \in [Families -> Users \cup {"NONE"}]
            /\ Existing' = Existing \cup {f}
            /\ tokens' \in [Families -> Seq(Token)]
            /\ Len(tokens'[f]) = 1 /\ ~ tokens'[f][1].used
            /\ \A g \in Families \ {f} : tokens'[g] = tokens[g]
            /\ Finish(r) /\ UNCHANGED <<revoked, shop>>
      BY <1>3, IssueFacts
    <2>2. 1 <= MaxTokens
      BY SessionsAssumption
    <2>3. tokens'[f] # <<>>
      <3>1. Len(tokens'[f]) = 1
        BY <2>1
      <3>2. ASSUME tokens'[f] = <<>> PROVE FALSE
        <4>1. Len(<<>>) = 1
          BY <3>1, <3>2
        <4>2. Len(<<>>) = 0
          BY EmptySeq
        <4> QED BY <4>1, <4>2
      <3> QED BY <3>2
    <2>4. \A g \in Families : /\ Len(tokens'[g]) <= MaxTokens
                              /\ tokens'[g] = <<>> <=> g \notin Existing'
      BY <2>1, <2>2, <2>3 DEF TypeOK
    <2> QED BY <2>1, <2>4, FinishFacts, FinishKeepsKinds DEF TypeOK, shop
  <1>4. ASSUME NEW r \in Requests, Moves(r) PROVE TypeOK' /\ KindsMatch'
    BY <1>4, MovesFacts, TypeQuiet
  <1>5. ASSUME NEW r \in Requests, Revokes(r) PROVE TypeOK' /\ KindsMatch'
    <2>1. revoked' \subseteq Existing
      BY <1>5, RevokesFacts DEF TypeOK
    <2> QED BY <1>5, <2>1, RevokesFacts, FinishFacts, FinishKeepsKinds, TypeRevoke DEF shop, TypeOK
  <1>6. ASSUME NEW r \in Requests, Rotate(r) PROVE TypeOK' /\ KindsMatch'
    <2>1. PICK f \in Existing \ revoked :
            /\ tokens' \in [Families -> Seq(Token)]
            /\ Len(tokens[f]) \in Nat /\ Len(tokens[f]) < MaxTokens
            /\ Len(tokens'[f]) = Len(tokens[f]) + 1
            /\ \A g \in Families \ {f} : tokens'[g] = tokens[g]
            /\ Finish(r) /\ UNCHANGED <<owner, revoked, shop>>
      BY <1>6, RotateFacts
    <2>2. f \in Families /\ tokens'[f] # <<>> /\ Len(tokens'[f]) <= MaxTokens
      BY <2>1, SessionsAssumption, EmptyIsLenZero DEF Existing
    <2>3. Existing' = Existing
      BY <2>1 DEF Existing
    <2>4. \A g \in Families : /\ Len(tokens'[g]) <= MaxTokens
                              /\ tokens'[g] = <<>> <=> g \notin Existing'
      BY <2>1, <2>2, <2>3 DEF TypeOK
    <2> QED BY <2>1, <2>3, <2>4, FinishFacts, FinishKeepsKinds DEF TypeOK, shop
  <1>7. ASSUME NEW r \in Requests, Logout(r) PROVE TypeOK' /\ KindsMatch'
    <2>1. tx[r].kind = "logout" /\ tx[r].user \in Users
      BY <1>7 DEF Logout, Authenticated, KindsMatch
    <2> QED BY <1>7, <2>1, LogoutFacts, TypeQuiet, KindsKept
  <1>8. ASSUME NEW r \in Requests, Ends(r) PROVE TypeOK' /\ KindsMatch'
    BY <1>8, EndsFacts, FinishFacts, FinishKeepsKinds, TypeQuiet
  <1>9. ASSUME Activation PROVE TypeOK' /\ KindsMatch'
    <2>1. /\ UNCHANGED <<owner, tokens, outlets, serving, tx>> /\ trading' \in BOOLEAN
          /\ revoked' \subseteq Existing
      BY <1>9 DEF Activation, RevokeTenantFamilies, Live, TypeOK
    <2> QED BY <2>1, TypeRevoke DEF TypeOK, KindsMatch
  <1>10. ASSUME NEW u \in Users, UpdateStaff(u) \/ ReplaceOutlets(u) PROVE TypeOK' /\ KindsMatch'
    BY <1>10 DEF UpdateStaff, ReplaceOutlets, sessions, TypeOK, KindsMatch, Existing
  <1>11. ASSUME NEW t \in Known, Expire(t) PROVE TypeOK' /\ KindsMatch'
    <2>1. /\ tokens' \in [Families -> Seq(Token)]
          /\ \A f \in Families : Len(tokens'[f]) = Len(tokens[f])
          /\ UNCHANGED <<owner, revoked, shop, tx>>
      BY <1>11, ExpireFacts
    <2>2. \A f \in Families : tokens'[f] = <<>> <=> tokens[f] = <<>>
      BY <2>1, EmptyIsLenZero DEF TypeOK
    <2> QED BY <2>1, <2>2 DEF TypeOK, KindsMatch, Existing, shop
  <1>12. CASE UNCHANGED vars
    BY <1>12 DEF vars, TypeOK, KindsMatch, Existing
  <1> QED BY <1>1, <1>2, <1>3, <1>4, <1>5, <1>6, <1>7, <1>8, <1>9, <1>10, <1>11, <1>12
          DEF Next, Work, Outside, Moves, Revokes, Ends
----------------------------------------------------------------------------
(***************************************************************************)
(* What was read of a family stays so while it is held                     *)
(***************************************************************************)
\* Another step leaves a request current that, of the family it holds, neither
\* revokes nor uses a token.
LEMMA StaysCurrent ==
  ASSUME TypeOK, TypeOK', KindsMatch, NEW s \in Requests, Current(s), tx'[s] = tx[s],
         Known \subseteq Known',
         Holds(s) /\ tx[s].token \in Known =>
           /\ tx[s].token[1] \in revoked' <=> tx[s].token[1] \in revoked
           /\ TokenOf(tx[s].token)'.used = TokenOf(tx[s].token).used
  PROVE  Current(s)'
  <1>1. CASE ~ Holds(s)
    <2>1. tx[s].phase \notin {"locked", "fresh", "replayed"}
      BY <1>1 DEF Holds, KindsMatch
    <2>2. ~ (tx[s].kind = "refresh" /\ tx[s].phase = "authorized")
      BY <1>1 DEF Holds
    <2> QED BY <2>1, <2>2 DEF Current
  <1>2. CASE Holds(s)
    <2>1. tx[s].token \in Known
      BY <1>2 DEF Current, Holds, KindsMatch
    <2>2. /\ tx[s].token[1] \in revoked' <=> tx[s].token[1] \in revoked
          /\ TokenOf(tx[s].token)'.used = TokenOf(tx[s].token).used
          /\ tx[s].token \in Known'
      BY <1>2, <2>1
    <2> QED BY <1>2, <2>1, <2>2 DEF Current, Holds
  <1> QED BY <1>1, <1>2

LEMMA KnownGrows ==
  ASSUME TypeOK, TypeOK', Existing \subseteq Existing',
         \A f \in Existing : Len(tokens[f]) <= Len(tokens'[f])
  PROVE  Known \subseteq Known'
  <1> SUFFICES ASSUME NEW t \in Known PROVE t \in Known'
    OBVIOUS
  <1>1. t \in Families \X (1 .. MaxTokens) /\ t[1] \in Existing /\ t[2] \in 1 .. Len(tokens[t[1]])
    BY KnownFacts
  <1>2. tokens'[t[1]] \in Seq(Token) /\ t[1] \in Existing'
    BY <1>1 DEF TypeOK
  <1>3. DOMAIN tokens'[t[1]] = 1 .. Len(tokens'[t[1]]) /\ Len(tokens'[t[1]]) \in Nat
    BY <1>2, LenProperties
  <1>4. tokens[t[1]] \in Seq(Token) /\ Len(tokens[t[1]]) \in Nat
    BY <1>1, LenProperties DEF TypeOK
  <1>5. t[2] \in DOMAIN tokens'[t[1]]
    BY <1>1, <1>3, <1>4
  <1>6. t \in Existing' \X (1 .. MaxTokens)
    BY <1>1, <1>2
  <1> QED BY <1>5, <1>6 DEF Known

LEMMA LenOrder ==
  ASSUME TypeOK, NEW f \in Families PROVE Len(tokens[f]) \in Nat /\ Len(tokens[f]) <= Len(tokens[f])
  BY LenProperties DEF TypeOK

\* A step that leaves the families alone, and of which request r is current after it.
LEMMA CurrentQuiet ==
  ASSUME TypeOK, TypeOK', KindsMatch, ReadsStayCurrent, NEW r \in Requests,
         UNCHANGED sessions, \A s \in Requests \ {r} : tx'[s] = tx[s],
         Current(r)',
         Holds(r)' => \A s \in Requests \ {r} : ~ (Holds(s) /\ tx[s].token[1] = tx'[r].token[1])
  PROVE  ReadsStayCurrent'
  <1>1. Known' = Known /\ \A s \in Requests : TokenOf(tx[s].token)' = tokens[tx'[s].token[1]][tx'[s].token[2]]
    BY DEF Known, Existing, sessions, TokenOf
  <1>2. \A s \in Requests \ {r} : Current(s)'
    BY <1>1, StaysCurrent DEF ReadsStayCurrent, sessions, TokenOf
  <1>3. \A s \in Requests \ {r} : Holds(s)' <=> Holds(s)
    BY DEF Holds
  <1>4. ASSUME NEW p \in Requests, NEW q \in Requests,
               Holds(p)', Holds(q)', tx'[p].token[1] = tx'[q].token[1]
        PROVE  p = q
    BY <1>3, <1>4, CurrentFacts
  <1>5. \A s \in Requests : Current(s)'
    BY <1>2
  <1> QED BY <1>4, <1>5 DEF ReadsStayCurrent, Holds

\* The holder r of a family ends, having written to that family only.
LEMMA CurrentEnd ==
  ASSUME TypeOK, TypeOK', KindsMatch, ReadsStayCurrent, NEW r \in Requests, Finish(r),
         Known \subseteq Known',
         \A s \in Requests \ {r} :
           Holds(s) /\ tx[s].token \in Known =>
             /\ tx[s].token[1] \in revoked' <=> tx[s].token[1] \in revoked
             /\ TokenOf(tx[s].token)'.used = TokenOf(tx[s].token).used
  PROVE  ReadsStayCurrent'
  <1>1. tx'[r] = IdleTx /\ \A s \in Requests \ {r} : tx'[s] = tx[s]
    BY FinishFacts
  <1>2. Current(r)' /\ ~ Holds(r)'
    BY <1>1, IdleTxType DEF Current, Holds
  <1>3. \A s \in Requests \ {r} : Current(s)' /\ (Holds(s)' <=> Holds(s))
    BY <1>1, StaysCurrent DEF ReadsStayCurrent, Holds
  <1>4. ASSUME NEW p \in Requests, NEW q \in Requests,
               Holds(p)', Holds(q)', tx'[p].token[1] = tx'[q].token[1]
        PROVE  p = q
    BY <1>1, <1>2, <1>3, <1>4, CurrentFacts
  <1>5. \A s \in Requests : Current(s)'
    BY <1>2, <1>3
  <1> QED BY <1>4, <1>5 DEF ReadsStayCurrent, Holds
\* A step outside the requests.
LEMMA CurrentOutside ==
  ASSUME TypeOK, TypeOK', KindsMatch, ReadsStayCurrent, UNCHANGED tx,
         Known \subseteq Known',
         \A s \in Requests :
           Holds(s) /\ tx[s].token \in Known =>
             /\ tx[s].token[1] \in revoked' <=> tx[s].token[1] \in revoked
             /\ TokenOf(tx[s].token)'.used = TokenOf(tx[s].token).used
  PROVE  ReadsStayCurrent'
  <1>1. \A s \in Requests : Current(s)' /\ (Holds(s)' <=> Holds(s))
    BY StaysCurrent DEF ReadsStayCurrent, Holds
  <1> QED BY <1>1, CurrentFacts DEF ReadsStayCurrent, Holds

LEMMA CurrentNext ==
  ASSUME TypeOK, TypeOK', KindsMatch, ReadsStayCurrent, OneLiveToken, [Next]_vars
  PROVE  ReadsStayCurrent'
  <1>1. ASSUME NEW r \in Requests, Arrive(r) \/ Logout(r) PROVE ReadsStayCurrent'
    <2>1. /\ UNCHANGED <<sessions, shop>> /\ \A s \in Requests \ {r} : tx'[s] = tx[s]
          /\ \/ tx'[r].phase = "verified" /\ tx'[r].kind = "login"
             \/ tx'[r].phase = "found" /\ tx'[r].token \in Known
             \/ tx'[r].phase = "borne" /\ tx'[r].kind \in {"logout", "call"}
      BY <1>1, ArriveFacts, LogoutFacts
    <2>2. Known' = Known
      BY <2>1 DEF Known, Existing, sessions
    <2>3. Current(r)' /\ ~ Holds(r)'
      BY <2>1, <2>2 DEF Current, Holds
    <2> QED BY <2>1, <2>3, CurrentQuiet
  <1>2. ASSUME NEW r \in Requests, Authorize(r) PROVE ReadsStayCurrent'
    <2>1. /\ UNCHANGED <<sessions, shop>> /\ \A s \in Requests \ {r} : tx'[s] = tx[s]
          /\ tx'[r].phase = "authorized" /\ tx'[r].kind = tx[r].kind /\ tx'[r].token = tx[r].token
      BY <1>2, AuthorizeFacts
    <2>2. tx[r].kind = "login" \/ (tx[r].kind = "refresh" /\ tx[r].phase = "fresh")
      BY <1>2 DEF Authorize, KindsMatch
    <2>3. /\ Known' = Known /\ revoked' = revoked
          /\ TokenOf(tx[r].token)' = TokenOf(tx'[r].token)
      BY <2>1 DEF Known, Existing, sessions, TokenOf
    <2>4. Current(r) BY DEF ReadsStayCurrent
    <2>5. Current(r)'
      BY <2>1, <2>2, <2>3, <2>4 DEF Current
    <2>6. Holds(r)' => Holds(r)
      BY <2>1, <2>2 DEF Holds
    <2> QED BY <2>1, <2>5, <2>6, CurrentFacts, CurrentQuiet
  <1>3. ASSUME NEW r \in Requests, LockSessionFamily(r) PROVE ReadsStayCurrent'
    <2>1. /\ tx[r].phase = "found" /\ Move(r, "locked") /\ UNCHANGED <<sessions, shop>>
          /\ ~ FamilyHeld(tx[r].token[1]) /\ tx[r].token[1] \notin revoked
      BY <1>3 DEF LockSessionFamily
    <2>2. /\ \A s \in Requests \ {r} : tx'[s] = tx[s]
          /\ tx'[r].phase = "locked" /\ tx'[r].kind = tx[r].kind /\ tx'[r].token = tx[r].token
      BY <2>1, MoveFacts DEF Phases
    <2>3. Known' = Known /\ revoked' = revoked
      BY <2>1 DEF Known, Existing, sessions
    <2>4. tx[r].token \in Known
      BY <2>1 DEF ReadsStayCurrent, Current
    <2>5. Current(r)'
      BY <2>1, <2>2, <2>3, <2>4 DEF Current
    <2>6. \A s \in Requests : ~ (Holds(s) /\ tx[s].token[1] = tx'[r].token[1])
      BY <2>1, <2>2, HeldByHolder
    <2> QED BY <2>1, <2>2, <2>5, <2>6, CurrentQuiet
  <1>4. ASSUME NEW r \in Requests, GetRefreshTokenForUpdate(r) PROVE ReadsStayCurrent'
    <2>1. PICK p \in {"fresh", "replayed"} :
            /\ tx[r].phase = "locked" /\ tx[r].kind = "refresh"
            /\ Move(r, p) /\ UNCHANGED <<sessions, shop>>
            /\ p = "replayed" => TokenOf(tx[r].token).used
            /\ p = "fresh" => ~ TokenOf(tx[r].token).used
      BY <1>4 DEF GetRefreshTokenForUpdate
    <2>2. /\ \A s \in Requests \ {r} : tx'[s] = tx[s]
          /\ tx'[r].phase = p /\ tx'[r].kind = "refresh" /\ tx'[r].token = tx[r].token
      BY <2>1, MoveFacts DEF Phases
    <2>3. /\ Known' = Known /\ revoked' = revoked
          /\ TokenOf(tx[r].token)' = TokenOf(tx'[r].token)
      BY <2>1 DEF Known, Existing, sessions, TokenOf
    <2>4. tx[r].token \in Known /\ tx[r].token[1] \notin revoked /\ Holds(r)
      BY <2>1 DEF ReadsStayCurrent, Current, Holds
    <2>5. Current(r)'
      BY <2>1, <2>2, <2>3, <2>4 DEF Current
    <2> QED BY <2>1, <2>2, <2>4, <2>5, CurrentFacts, CurrentQuiet
  <1>5. ASSUME NEW r \in Requests, Ends(r) PROVE ReadsStayCurrent'
    <2>1. Finish(r) /\ UNCHANGED sessions
      BY <1>5, EndsFacts
    <2>2. Known' = Known /\ revoked' = revoked
      BY <2>1 DEF Known, Existing, sessions
    <2>3. \A s \in Requests \ {r} : TokenOf(tx[s].token)' = TokenOf(tx[s].token)
      BY <2>1, FinishFacts DEF TokenOf, sessions
    <2> QED BY <2>1, <2>2, <2>3, CurrentEnd
  <1>6. ASSUME NEW r \in Requests, Issue(r) PROVE ReadsStayCurrent'
    <2>1. PICK f \in Families \ Existing :
            /\ Existing' = Existing \cup {f}
            /\ \A g \in Families \ {f} : tokens'[g] = tokens[g]
            /\ Finish(r) /\ UNCHANGED <<revoked, shop>>
      BY <1>6, IssueFacts
    <2>2. \A g \in Existing : g \in Families \ {f} /\ tokens'[g] = tokens[g]
      BY <2>1 DEF Existing
    <2>3. Known \subseteq Known'
      BY <2>1, <2>2, LenOrder, KnownGrows
    <2>4. \A s \in Requests \ {r} : tx[s].token \in Known =>
            TokenOf(tx[s].token)' = TokenOf(tx[s].token)
      BY <2>1, <2>2, FinishFacts, KnownFacts DEF TokenOf
    <2> QED BY <2>1, <2>3, <2>4, CurrentEnd
  <1>7. ASSUME NEW r \in Requests, Revokes(r) PROVE ReadsStayCurrent'
    <2>1. /\ Holds(r) /\ revoked' = revoked \cup {tx[r].token[1]}
          /\ Finish(r) /\ UNCHANGED <<owner, tokens, shop>>
      BY <1>7, RevokesFacts
    <2>2. Known' = Known
      BY <2>1 DEF Known, Existing
    <2>3. \A s \in Requests \ {r} :
            /\ Holds(s) => tx[s].token[1] # tx[r].token[1]
            /\ TokenOf(tx[s].token)' = TokenOf(tx[s].token)
      BY <2>1, CurrentFacts, FinishFacts DEF TokenOf
    <2> QED BY <2>1, <2>2, <2>3, CurrentEnd
  <1>8. ASSUME NEW r \in Requests, Rotate(r) PROVE ReadsStayCurrent'
    <2>1. PICK f \in Existing \ revoked :
            /\ Holds(r) /\ tx[r].token[1] = f
            /\ Len(tokens[f]) \in Nat
            /\ Len(tokens'[f]) = Len(tokens[f]) + 1
            /\ \A g \in Families \ {f} : tokens'[g] = tokens[g]
            /\ Finish(r) /\ UNCHANGED <<owner, revoked, shop>>
      BY <1>8, RotateFacts
    <2>2. Existing' = Existing /\ Existing \subseteq Families
      BY <2>1 DEF Existing
    <2>3. \A g \in Existing : Len(tokens[g]) <= Len(tokens'[g])
      BY <2>1, <2>2, LenOrder
    <2>4. Known \subseteq Known'
      BY <2>2, <2>3, KnownGrows
    <2>5. \A s \in Requests \ {r} : Holds(s) /\ tx[s].token \in Known =>
            TokenOf(tx[s].token)' = TokenOf(tx[s].token)
      BY <2>1, CurrentFacts, FinishFacts, KnownFacts DEF TokenOf
    <2> QED BY <2>1, <2>4, <2>5, CurrentEnd
  <1>9. ASSUME Activation PROVE ReadsStayCurrent'
    <2>1. /\ UNCHANGED <<owner, tokens, tx>>
          /\ revoked' = revoked \/ (revoked' = revoked \cup Live /\ \A f \in Live : ~ FamilyHeld(f))
      BY <1>9 DEF Activation, RevokeTenantFamilies
    <2>2. Known' = Known /\ \A s \in Requests : TokenOf(tx[s].token)' = TokenOf(tx[s].token)
      BY <2>1 DEF Known, Existing, TokenOf
    <2>3. revoked' = revoked \/ \A s \in Requests : Holds(s) => tx[s].token[1] \notin Live
      BY <2>1, HeldByHolder
    <2>4. \A s \in Requests : Holds(s) => (tx[s].token[1] \in revoked' <=> tx[s].token[1] \in revoked)
      BY <2>1, <2>3
    <2> QED BY <2>1, <2>2, <2>4, CurrentOutside
  <1>10. CASE (\E u \in Users : UpdateStaff(u) \/ ReplaceOutlets(u)) \/ UNCHANGED vars
    <2>1. UNCHANGED <<sessions, tx>>
      BY <1>10 DEF UpdateStaff, ReplaceOutlets, vars, sessions
    <2>2. Known' = Known /\ \A s \in Requests : TokenOf(tx[s].token)' = TokenOf(tx[s].token)
      BY <2>1 DEF Known, Existing, TokenOf, sessions
    <2> QED BY <2>1, <2>2, CurrentOutside DEF sessions
  <1>11. ASSUME NEW t \in Known, Expire(t) PROVE ReadsStayCurrent'
    <2>1. /\ \A f \in Families :
               /\ Len(tokens'[f]) = Len(tokens[f])
               /\ \A j \in 1 .. Len(tokens[f]) : tokens'[f][j].used = tokens[f][j].used
          /\ UNCHANGED <<owner, revoked, shop, tx>>
      BY <1>11, ExpireFacts
    <2>2. Existing' = Existing /\ Existing \subseteq Families
      BY <2>1 DEF Existing
    <2>3. Known \subseteq Known'
      BY <2>1, <2>2, LenOrder, KnownGrows
    <2>4. \A s \in Requests : tx[s].token \in Known =>
            TokenOf(tx[s].token)'.used = TokenOf(tx[s].token).used
      BY <2>1, KnownFacts DEF TokenOf
    <2> QED BY <2>1, <2>3, <2>4, CurrentOutside
  <1> QED BY <1>1, <1>2, <1>3, <1>4, <1>5, <1>6, <1>7, <1>8, <1>9, <1>10, <1>11
          DEF Next, Work, Outside, Revokes, Ends
----------------------------------------------------------------------------
(***************************************************************************)
(* One live token, and the lineages that the sessions implement            *)
(***************************************************************************)
LEMMA AllInit == Init => TypeOK /\ KindsMatch /\ ReadsStayCurrent /\ OneLiveToken
  <1> SUFFICES ASSUME Init PROVE TypeOK /\ KindsMatch /\ ReadsStayCurrent /\ OneLiveToken
    OBVIOUS
  <1>1. tx \in [Requests -> Tx] /\ \A r \in Requests : tx[r].phase = "idle" /\ tx[r].kind = "none"
    BY IdleTxType DEF Init
  <1>2. Existing = {} /\ revoked = {} /\ owner \in [Families -> Users \cup {"NONE"}]
    BY DEF Init, Existing
  <1>3. tokens \in [Families -> Seq(Token)] /\ \A f \in Families : tokens[f] = <<>> /\ Len(tokens[f]) = 0
    BY EmptySeq DEF Init
  <1>4. \A f \in Families : Len(tokens[f]) <= MaxTokens
    BY <1>3, SessionsAssumption
  <1>5. TypeOK
    BY <1>1, <1>2, <1>3, <1>4 DEF TypeOK, Init
  <1>6. KindsMatch /\ ReadsStayCurrent
    BY <1>1 DEF KindsMatch, ReadsStayCurrent, Current
  <1>7. OneLiveToken
    BY <1>2 DEF OneLiveToken
  <1> QED BY <1>5, <1>6, <1>7

\* The families of which only the last token is unused, put with lengths.
LEMMA OneLiveFacts ==
  ASSUME TypeOK
  PROVE  OneLiveToken <=>
           \A f \in Existing : \A i \in 1 .. Len(tokens[f]) : tokens[f][i].used <=> i < Len(tokens[f])
  <1>1. \A f \in Existing : DOMAIN tokens[f] = 1 .. Len(tokens[f])
    BY LenProperties DEF TypeOK, Existing
  <1> QED BY <1>1 DEF OneLiveToken

LEMMA OneLiveKept ==
  ASSUME TypeOK', \A f \in Existing' : \A i \in 1 .. Len(tokens'[f]) :
                     tokens'[f][i].used <=> i < Len(tokens'[f])
  PROVE  OneLiveToken'
  <1>1. \A f \in Existing' : DOMAIN tokens'[f] = 1 .. Len(tokens'[f])
    BY LenProperties DEF TypeOK, Existing
  <1> QED BY <1>1 DEF OneLiveToken

\* Every step leaves families and tokens alone, or is one of these.
LEMMA Writers ==
  ASSUME TypeOK, KindsMatch, [Next]_vars
  PROVE  \/ UNCHANGED sessions
         \/ \E r \in Requests : Issue(r) \/ Revokes(r) \/ Rotate(r)
         \/ Activation
         \/ \E t \in Known : Expire(t)
  <1>1. ASSUME NEW r \in Requests, Arrive(r) PROVE UNCHANGED sessions
    BY <1>1, ArriveFacts
  <1>2. ASSUME NEW r \in Requests, Authorize(r) \/ Logout(r) PROVE UNCHANGED sessions
    BY <1>2 DEF Authorize, Logout
  <1>3. ASSUME NEW r \in Requests, Moves(r) \/ Ends(r) PROVE UNCHANGED sessions
    BY <1>3, MovesFacts, EndsFacts
  <1>4. CASE (\E u \in Users : UpdateStaff(u) \/ ReplaceOutlets(u)) \/ UNCHANGED vars
    BY <1>4 DEF UpdateStaff, ReplaceOutlets, vars, sessions
  <1> QED BY <1>1, <1>2, <1>3, <1>4 DEF Next, Work, Outside, Moves, Revokes, Ends

LEMMA OneLiveNext ==
  ASSUME TypeOK, TypeOK', KindsMatch, ReadsStayCurrent, OneLiveToken, [Next]_vars
  PROVE  OneLiveToken'
  <1>1. CASE UNCHANGED <<owner, tokens>>
    BY <1>1 DEF OneLiveToken, Existing
  <1>2. ASSUME NEW r \in Requests, Issue(r) PROVE OneLiveToken'
    <2>1. PICK f \in Families \ Existing :
            /\ Existing' = Existing \cup {f}
            /\ Len(tokens'[f]) = 1 /\ ~ tokens'[f][1].used
            /\ \A g \in Families \ {f} : tokens'[g] = tokens[g]
      BY <1>2, IssueFacts
    <2>2. \A g \in Existing : g \in Families \ {f}
      BY <2>1 DEF Existing
    <2>3. \A g \in Existing : \A i \in 1 .. Len(tokens'[g]) :
            tokens'[g][i].used <=> i < Len(tokens'[g])
      BY <2>1, <2>2, OneLiveFacts
    <2>4. \A i \in 1 .. Len(tokens'[f]) : tokens'[f][i].used <=> i < Len(tokens'[f])
      BY <2>1
    <2> QED BY <2>1, <2>3, <2>4, OneLiveKept
  <1>3. ASSUME NEW r \in Requests, Rotate(r) PROVE OneLiveToken'
    <2>1. PICK f \in Existing \ revoked :
            /\ Len(tokens[f]) \in Nat
            /\ Len(tokens'[f]) = Len(tokens[f]) + 1
            /\ \A j \in 1 .. Len(tokens[f]) : tokens'[f][j].used
            /\ ~ tokens'[f][Len(tokens[f]) + 1].used
            /\ \A g \in Families \ {f} : tokens'[g] = tokens[g]
            /\ UNCHANGED <<owner, revoked, shop>>
      BY <1>3, RotateFacts
    <2>2. Existing' = Existing /\ Existing \subseteq Families
      BY <2>1 DEF Existing
    <2>3. \A g \in Existing \ {f} : \A i \in 1 .. Len(tokens'[g]) :
            tokens'[g][i].used <=> i < Len(tokens'[g])
      BY <2>1, <2>2, OneLiveFacts
    <2>4. ASSUME NEW i \in 1 .. Len(tokens'[f])
          PROVE  tokens'[f][i].used <=> i < Len(tokens'[f])
      <3>1. CASE i = Len(tokens[f]) + 1
        BY <2>1, <3>1
      <3>2. CASE i # Len(tokens[f]) + 1
        <4>1. i \in 1 .. Len(tokens[f])
          BY <2>1, <3>2
        <4> QED BY <2>1, <4>1
      <3> QED BY <3>1, <3>2
    <2> QED BY <2>2, <2>3, <2>4, OneLiveKept
  <1>4. ASSUME NEW t \in Known, Expire(t) PROVE OneLiveToken'
    <2>1. /\ \A f \in Families :
               /\ Len(tokens'[f]) = Len(tokens[f])
               /\ \A j \in 1 .. Len(tokens[f]) : tokens'[f][j].used = tokens[f][j].used
          /\ UNCHANGED owner
      BY <1>4, ExpireFacts
    <2>2. Existing' = Existing /\ Existing \subseteq Families
      BY <2>1 DEF Existing
    <2>3. \A g \in Existing : \A i \in 1 .. Len(tokens'[g]) :
            tokens'[g][i].used <=> i < Len(tokens'[g])
      BY <2>1, <2>2, OneLiveFacts
    <2> QED BY <2>2, <2>3, OneLiveKept
  <1> QED BY <1>1, <1>2, <1>3, <1>4, Writers, RevokesFacts DEF Activation, sessions

\* Every row of every table and every request has its type.
THEOREM TypeCorrect == Spec => []TypeOK
  BY AllInit, TypeNext, CurrentNext, OneLiveNext, PTL DEF Spec

\* Who locked a family is alone in it, and what it read of it stays so.
THEOREM HolderIsCurrent == Spec => []ReadsStayCurrent
  BY AllInit, TypeNext, CurrentNext, OneLiveNext, PTL DEF Spec

\* However refreshes race, the tokens of a family are one line of descent of which
\* only the last is unused.
THEOREM OnlyTheLastLives == Spec => []OneLiveToken
  BY AllInit, TypeNext, CurrentNext, OneLiveNext, PTL DEF Spec

----------------------------------------------------------------------------
LEMMA UnusedIsLast ==
  ASSUME NEW S \in Seq(Token), S # <<>>, \A i \in DOMAIN S : S[i].used <=> i < Len(S)
  PROVE  {i \in DOMAIN S : ~ S[i].used} = {Len(S)}
  <1>1. DOMAIN S = 1 .. Len(S) /\ Len(S) \in Nat \ {0}
    BY LenProperties, EmptySeq
  <1> QED BY <1>1

\* A row of the lineage that the sessions stand for.
State(f) == IF f \in revoked THEN "revoked" ELSE IF f \in Existing THEN "live" ELSE "none"
Unused(f) == {i \in DOMAIN tokens[f] : ~ tokens[f][i].used}
Lin == [f \in Families |-> [state |-> State(f), unused |-> Unused(f)]]

LEMMA UnusedFacts ==
  ASSUME TypeOK, OneLiveToken, NEW f \in Families
  PROVE  /\ f \in Existing => Unused(f) = {Len(tokens[f])}
         /\ f \notin Existing => Unused(f) = {}
  <1>1. CASE f \in Existing
    BY <1>1, UnusedIsLast DEF TypeOK, OneLiveToken, Unused
  <1>2. CASE f \notin Existing
    <2>1. tokens[f] = <<>>
      BY <1>2 DEF TypeOK
    <2>2. DOMAIN tokens[f] = {}
      BY <2>1
    <2> QED BY <1>2, <2>2 DEF Unused
  <1> QED BY <1>1, <1>2

LEMMA UnusedNext ==
  ASSUME TypeOK', OneLiveToken', NEW f \in Families
  PROVE  f \in Existing' => Unused(f)' = {Len(tokens'[f])}
  BY UnusedIsLast DEF TypeOK, OneLiveToken, Unused

LEMMA LineageInit == Init => Lineage!Init
  <1> SUFFICES ASSUME Init PROVE Lineage!Init
    OBVIOUS
  <1>1. ASSUME NEW f \in Families PROVE State(f) = "none" /\ Unused(f) = {}
    <2>1. tokens[f] = <<>> /\ revoked = {} /\ f \notin Existing
      BY DEF Init, Existing
    <2>2. DOMAIN tokens[f] = {}
      BY <2>1
    <2> QED BY <2>1, <2>2 DEF State, Unused
  <1>2. Lin = [f \in Families |-> Lineage!Blank]
    BY <1>1 DEF Lin, Lineage!Blank
  <1> QED BY <1>2 DEF Lineage!Init, Lin, State, Unused

\* The steps of the abstract specification, of Lin.
LEMMA OpenIs ==
  ASSUME NEW f \in Families, Lin[f] = Lineage!Blank,
         Lin' = [Lin EXCEPT ![f] = [state |-> "live", unused |-> {1}]]
  PROVE  Lineage!Next
  <1>1. Lineage!Open(f)
    BY DEF Lineage!Open, Lin, State, Unused
  <1> QED BY <1>1 DEF Lineage!Next

LEMMA RotateIs ==
  ASSUME NEW f \in Families, Lin[f].state = "live", NEW n \in Lin[f].unused,
         Lin' = [Lin EXCEPT ![f].unused = (@ \ {n}) \cup {n + 1}]
  PROVE  Lineage!Next
  <1>1. Lineage!Rotate(f)
    BY DEF Lineage!Rotate, Lin, State, Unused
  <1> QED BY <1>1 DEF Lineage!Next

LEMMA RevokeIs ==
  ASSUME NEW families \in SUBSET Families, families # {},
         \A f \in families : Lin[f].state = "live",
         Lin' = [f \in Families |->
                  IF f \in families THEN [Lin[f] EXCEPT !.state = "revoked"] ELSE Lin[f]]
  PROVE  Lineage!Next
  <1>1. Lineage!Revoke(families)
    BY DEF Lineage!Revoke, Lin, State, Unused
  <1> QED BY <1>1 DEF Lineage!Next
LEMMA LinFacts ==
  ASSUME NEW f \in Families
  PROVE  /\ Lin[f] = [state |-> State(f), unused |-> Unused(f)]
         /\ Lin[f].state = State(f) /\ Lin[f].unused = Unused(f)
         /\ [Lin[f] EXCEPT !.state = "revoked"] = [state |-> "revoked", unused |-> Unused(f)]
  BY DEF Lin

\* Revoking families that live, and leaving the tokens as they are.
LEMMA RevokingIs ==
  ASSUME TypeOK, NEW families \in SUBSET (Existing \ revoked), families # {},
         revoked' = revoked \cup families, UNCHANGED <<owner, tokens>>
  PROVE  Lineage!Next
  <1>1. Existing' = Existing /\ families \in SUBSET Families
    BY DEF Existing
  <1>2. \A f \in families : State(f) = "live"
    BY <1>1 DEF State
  <1>3. \A f \in families : Lin[f].state = "live"
    BY <1>1, <1>2, LinFacts
  <1>4. \A f \in Families : Unused(f)' = Unused(f)
    BY DEF Unused
  <1>5. \A f \in Families : State(f)' = IF f \in families THEN "revoked" ELSE State(f)
    BY <1>1 DEF State
  <1>6. Lin' = [f \in Families |-> [state |-> State(f)', unused |-> Unused(f)']]
    BY DEF Lin
  <1>7. ASSUME NEW f \in Families
        PROVE  Lin'[f] = IF f \in families THEN [Lin[f] EXCEPT !.state = "revoked"] ELSE Lin[f]
    <2>1. Lin'[f] = [state |-> State(f)', unused |-> Unused(f)]
      BY <1>4, <1>6
    <2>2. CASE f \in families
      BY <1>5, <2>1, <2>2, LinFacts
    <2>3. CASE f \notin families
      BY <1>5, <2>1, <2>3, LinFacts
    <2> QED BY <2>2, <2>3
  <1>8. Lin' = [f \in Families |->
                 IF f \in families THEN [Lin[f] EXCEPT !.state = "revoked"] ELSE Lin[f]]
    BY <1>6, <1>7
  <1> QED BY <1>1, <1>3, <1>8, RevokeIs

LEMMA LineageNext ==
  ASSUME TypeOK, TypeOK', KindsMatch, ReadsStayCurrent, OneLiveToken, OneLiveToken', [Next]_vars
  PROVE  Lineage!Next \/ Lin' = Lin
  <1>lin. /\ \A f \in Families : Lin[f] = [state |-> State(f), unused |-> Unused(f)]
          /\ Lin' = [f \in Families |-> [state |-> State(f)', unused |-> Unused(f)']]
    BY DEF Lin
  <1>1. CASE UNCHANGED sessions
    BY <1>1 DEF sessions, Lin, State, Unused, Existing
  <1>2. ASSUME NEW r \in Requests, Issue(r) PROVE Lineage!Next
    <2>1. PICK f \in Families \ Existing :
            /\ Existing' = Existing \cup {f}
            /\ Len(tokens'[f]) = 1
            /\ \A g \in Families \ {f} : tokens'[g] = tokens[g]
            /\ UNCHANGED <<revoked, shop>>
      BY <1>2, IssueFacts
    <2>2. f \notin revoked
      BY <2>1 DEF TypeOK
    <2>3. State(f) = "none" /\ Unused(f) = {}
      BY <2>1, <2>2, UnusedFacts DEF State
    <2>4. State(f)' = "live" /\ Unused(f)' = {1}
      BY <2>1, <2>2, UnusedNext DEF State
    <2>5. \A g \in Families \ {f} : State(g)' = State(g) /\ Unused(g)' = Unused(g)
      BY <2>1 DEF State, Unused
    <2>6. Lin[f] = Lineage!Blank
      BY <1>lin, <2>3 DEF Lineage!Blank
    <2>7. Lin' = [Lin EXCEPT ![f] = [state |-> "live", unused |-> {1}]]
      BY <1>lin, <2>4, <2>5 DEF Lin
    <2> QED BY <2>6, <2>7, OpenIs
  <1>3. ASSUME NEW r \in Requests, Rotate(r) PROVE Lineage!Next
    <2>1. PICK f \in Existing \ revoked :
            /\ Len(tokens'[f]) = Len(tokens[f]) + 1
            /\ \A g \in Families \ {f} : tokens'[g] = tokens[g]
            /\ UNCHANGED <<owner, revoked, shop>>
      BY <1>3, RotateFacts
    <2>2. Existing' = Existing /\ f \in Families
      BY <2>1 DEF Existing
    <2>3. \A g \in Families : State(g)' = State(g)
      BY <2>1, <2>2 DEF State
    <2>4. \A g \in Families \ {f} : Unused(g)' = Unused(g)
      BY <2>1 DEF Unused
    <2>5. Unused(f) = {Len(tokens[f])} /\ Unused(f)' = {Len(tokens[f]) + 1} /\ State(f) = "live"
      BY <2>1, <2>2, UnusedFacts, UnusedNext DEF State
    <2> DEFINE n == Len(tokens[f])
    <2> HIDE DEF n
    <2>6. Unused(f)' = (Unused(f) \ {n}) \cup {n + 1} /\ n \in Unused(f)
      BY <2>5 DEF n
    <2>7. Lin[f].state = "live" /\ n \in Lin[f].unused
      BY <2>2, <2>5, <2>6, LinFacts
    <2>8. Lin' = [Lin EXCEPT ![f].unused = (@ \ {n}) \cup {n + 1}]
      BY <1>lin, <2>2, <2>3, <2>4, <2>6 DEF Lin
    <2> QED BY <2>2, <2>7, <2>8, RotateIs
  <1>4. ASSUME NEW r \in Requests, Revokes(r) PROVE Lineage!Next
    <2>1. /\ tx[r].token[1] \in Existing \ revoked
          /\ revoked' = revoked \cup {tx[r].token[1]} /\ UNCHANGED <<owner, tokens, shop>>
      BY <1>4, RevokesFacts
    <2> QED BY <2>1, RevokingIs
  <1>5. CASE Activation
    <2>1. UNCHANGED <<owner, tokens>> /\ (revoked' = revoked \/ revoked' = revoked \cup Live)
      BY <1>5 DEF Activation, RevokeTenantFamilies
    <2>2. CASE revoked' = revoked \/ Live = {}
      BY <2>1, <2>2 DEF Lin, State, Unused, Existing
    <2>3. CASE revoked' = revoked \cup Live /\ Live # {}
      BY <2>1, <2>3, RevokingIs DEF Live
    <2> QED BY <2>1, <2>2, <2>3
  <1>6. ASSUME NEW t \in Known, Expire(t) PROVE Lin' = Lin
    <2>1. /\ \A f \in Families : Len(tokens'[f]) = Len(tokens[f])
          /\ UNCHANGED <<owner, revoked>>
      BY <1>6, ExpireFacts
    <2>2. Existing' = Existing /\ Existing \subseteq Families
      BY <2>1 DEF Existing
    <2>3. \A f \in Families : State(f)' = State(f)
      BY <2>1, <2>2 DEF State
    <2>4. \A f \in Existing : Unused(f)' = Unused(f)
      BY <2>1, <2>2, UnusedFacts, UnusedNext
    <2>5. ASSUME NEW f \in Families \ Existing PROVE Unused(f)' = Unused(f)
      <3>1. tokens[f] = <<>> /\ tokens'[f] = <<>>
        BY <2>2, <2>5 DEF TypeOK
      <3> QED BY <3>1 DEF Unused
    <2> QED BY <1>lin, <2>3, <2>4, <2>5 DEF Lin
  <1> QED BY <1>1, <1>2, <1>3, <1>4, <1>5, <1>6, Writers

\* The sessions of the business implement the lineages of RefreshLineage: whatever
\* races, a family opens, rotates and is revoked one step at a time.
THEOREM SessionsImplementLineage == Spec => ImplementsLineage
  <1>1. Lin' = Lin => UNCHANGED [f \in Families |->
                 [state |-> IF f \in revoked THEN "revoked"
                            ELSE IF f \in Existing THEN "live" ELSE "none",
                  unused |-> {i \in DOMAIN tokens[f] : ~ tokens[f][i].used}]]
    BY DEF Lin, State, Unused
  <1> QED BY <1>1, AllInit, TypeNext, CurrentNext, OneLiveNext, LineageInit, LineageNext, PTL
          DEF Spec, ImplementsLineage, Lineage!Spec
=============================================================================
