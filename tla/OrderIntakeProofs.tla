------------------------- MODULE OrderIntakeProofs -------------------------
(***************************************************************************)
(* Proofs about OrderIntake, for any number of requests, outlets, users    *)
(* and keys, any catalogs, payloads and bounds.                            *)
(***************************************************************************)
EXTENDS OrderIntake, SumTheorems, SequenceTheorems, TLAPS

\* A transaction in progress has a call, and has read rows only once its key was
\* found new, and no more than its payload names.
WellFormed(t) ==
  /\ t.phase # "idle" => t.call \in Calls
  /\ t.phase \notin {"fresh", "numbered"} => t.snapshot = <<>>
  /\ t.phase \in {"fresh", "numbered"} => Len(t.snapshot) <= Len(RowsRead(t.call.payload))
  /\ t.phase = "numbered" => t.number \in Nat \ {0}

\* What most of the proofs need of types.  The total of an order, a recursive sum,
\* comes last.
Shape ==
  /\ \A o \in orders : /\ o.outlet \in Outlets /\ o.key \in Keys
                       /\ o.received \in Times /\ o.number \in Nat \ {0}
  /\ counters \in [Outlets \X Days -> Nat \ {0}]
  /\ catalog \in [Goods -> CatalogRow]
  /\ clock \in Times
  /\ tx \in [Requests -> Tx]
  /\ \A r \in Requests : WellFormed(tx[r])

\* The rows a payload reads: the customer first, and all of them goods.
LEMMA RowsReadType ==
  ASSUME NEW p \in Payloads
  PROVE  /\ RowsRead(p) \in Seq(Goods)
         /\ Len(RowsRead(p)) \in Nat \ {0}
         /\ DOMAIN RowsRead(p) = 1 .. Len(RowsRead(p))
         /\ RowsRead(p)[1] = p.customer
         /\ p.customer \in Goods
  <1>1. p \in Payload
    BY IntakeAssumption
  <1>2. /\ p.customer \in Customers /\ p.perfume \in Perfumes \cup {"NULL"}
        /\ p.items \in Seq([service : Services, milli : Nat \ {0}])
    BY <1>1 DEF Payload
  <1> DEFINE perfume == IF p.perfume = "NULL" THEN <<>> ELSE <<p.perfume>>
             head == <<p.customer>> \o perfume
  <1>3. perfume \in Seq(Goods) /\ <<p.customer>> \in Seq(Goods)
    <2>1. p.customer \in Goods /\ (p.perfume # "NULL" => p.perfume \in Goods)
      BY <1>2 DEF Goods
    <2>2. <<p.customer>> \in Seq(Goods)
      BY <2>1
    <2>3. CASE p.perfume = "NULL"
      BY <2>2, <2>3
    <2>4. CASE p.perfume # "NULL"
      BY <2>1, <2>2, <2>4
    <2> QED BY <2>3, <2>4
  <1>4. ServicesOf(p) \in Seq(Goods)
    <2>1. DOMAIN p.items = 1 .. Len(p.items) /\ Len(p.items) \in Nat
      BY <1>2, LenProperties
    <2>2. \A i \in 1 .. Len(p.items) : p.items[i].service \in Goods
      <3> DEFINE Item == [service : Services, milli : Nat \ {0}]
      <3>1. p.items \in Seq(Item)
        BY <1>2
      <3>2. \A i \in 1 .. Len(p.items) : p.items[i] \in Item
        <4> HIDE DEF Item
        <4> QED BY <3>1, ElementOfSeq
      <3> QED BY <3>2 DEF Goods
    <2> QED BY <2>1, <2>2 DEF ServicesOf
  <1> HIDE DEF perfume
  <1>5. /\ head \in Seq(Goods) /\ Len(head) = 1 + Len(perfume) /\ head[1] = p.customer
        /\ Len(perfume) \in Nat
    <2>1. Len(perfume) \in Nat
      BY <1>3, LenProperties
    <2>2. Len(<<p.customer>>) = 1 /\ <<p.customer>>[1] = p.customer
      OBVIOUS
    <2> QED BY <1>3, <2>1, <2>2, ConcatProperties
  <1>6. RowsRead(p) = head \o ServicesOf(p)
    BY DEF RowsRead, perfume
  <1> HIDE DEF head
  <1>7. Len(ServicesOf(p)) \in Nat
    BY <1>4, LenProperties
  <1>8. /\ RowsRead(p) \in Seq(Goods)
        /\ Len(RowsRead(p)) = Len(head) + Len(ServicesOf(p))
        /\ RowsRead(p)[1] = head[1]
    <2> DEFINE tail == ServicesOf(p)
    <2> HIDE DEF tail
    <2>1. tail \in Seq(Goods) /\ Len(tail) \in Nat
      BY <1>4, <1>7 DEF tail
    <2>2. /\ head \o tail \in Seq(Goods)
          /\ Len(head \o tail) = Len(head) + Len(tail)
          /\ (head \o tail)[1] = head[1]
      <3>1. 1 \in 1 .. Len(head) + Len(tail) /\ 1 <= Len(head)
        BY <1>5, <2>1
      <3> QED BY <1>5, <2>1, <3>1, ConcatProperties
    <2> QED BY <1>6, <2>2 DEF tail
  <1>9. DOMAIN RowsRead(p) = 1 .. Len(RowsRead(p))
    BY <1>8, LenProperties
  <1> QED BY <1>2, <1>5, <1>7, <1>8, <1>9 DEF Goods

----------------------------------------------------------------------------
(***************************************************************************)
(* Types                                                                   *)
(***************************************************************************)
LEMMA CallFields ==
  ASSUME NEW c \in Calls
  PROVE  /\ c.outlet \in Outlets /\ c.user \in Users /\ c.key \in Keys
         /\ c.payload \in Payloads
  BY DEF Calls

LEMMA IdleTxType == IdleTx \in Tx
  BY IntakeAssumption DEF IdleTx, Tx, Times, Phases

LEMMA DayType == ASSUME NEW t \in Times PROVE DayOf(t) \in Days
  BY DEF Days

\* The transaction of r ends, or moves on to another phase.
LEMMA FinishFacts ==
  ASSUME Shape, NEW r \in Requests, Finish(r)
  PROVE  /\ tx' \in [Requests -> Tx] /\ tx'[r] = IdleTx
         /\ \A s \in Requests \ {r} : tx'[s] = tx[s]
  BY IdleTxType DEF Shape, Finish

LEMMA MoveFacts ==
  ASSUME Shape, NEW r \in Requests, NEW phase \in Phases, Move(r, phase)
  PROVE  /\ tx' \in [Requests -> Tx] /\ tx'[r] = [tx[r] EXCEPT !.phase = phase]
         /\ \A s \in Requests \ {r} : tx'[s] = tx[s]
         /\ tx'[r].phase = phase /\ tx'[r].call = tx[r].call /\ tx'[r].at = tx[r].at
         /\ tx'[r].snapshot = tx[r].snapshot
  <1>1. tx \in [Requests -> Tx]
    BY DEF Shape
  <1>2. [tx[r] EXCEPT !.phase = phase] \in Tx
    BY <1>1 DEF Tx
  <1> QED BY <1>1, <1>2 DEF Move, Tx

LEMMA IdleWellFormed == WellFormed(IdleTx)
  BY DEF WellFormed, IdleTx

\* The other transactions are as they were, and the one of r is well formed.
LEMMA ShapeOfOne ==
  ASSUME Shape, NEW r \in Requests, tx' \in [Requests -> Tx],
         \A s \in Requests \ {r} : tx'[s] = tx[s],
         WellFormed(tx'[r]),
         UNCHANGED <<orders, counters, shop>>
  PROVE  Shape'
  BY DEF Shape, shop

\* The next row a call reads is a good.
LEMMA NextRowIsGood ==
  ASSUME Shape, NEW r \in Requests, tx[r].phase = "fresh", ~ AllRead(r)
  PROVE  /\ Len(tx[r].snapshot) \in Nat /\ tx[r].snapshot \in Seq(Contents)
         /\ tx[r].call.payload \in Payloads
         /\ NextRow(r) \in 1 .. Len(RowsRead(tx[r].call.payload))
         /\ RowsRead(tx[r].call.payload)[NextRow(r)] \in Goods
  <1> DEFINE p == tx[r].call.payload
             n == Len(tx[r].snapshot)
  <1>1. /\ tx[r].call \in Calls /\ n <= Len(RowsRead(p))
        /\ tx[r].snapshot \in Seq(Contents)
    BY DEF Shape, WellFormed, Tx
  <1>2. n \in Nat
    BY <1>1, LenProperties
  <1>3. p \in Payloads
    BY <1>1, CallFields
  <1>4. RowsRead(p) \in Seq(Goods) /\ Len(RowsRead(p)) \in Nat
    BY <1>3, RowsReadType
  <1>5. NextRow(r) \in 1 .. Len(RowsRead(p))
    BY <1>1, <1>2, <1>4 DEF NextRow, AllRead
  <1>6. RowsRead(p)[NextRow(r)] \in Goods
    BY <1>4, <1>5, ElementOfSeq
  <1> QED BY <1>1, <1>2, <1>3, <1>5, <1>6

LEMMA ShapeInit == Init => Shape
  <1> SUFFICES ASSUME Init PROVE Shape
    OBVIOUS
  <1>1. tx \in [Requests -> Tx] /\ \A r \in Requests : tx[r] = IdleTx
    BY IdleTxType DEF Init
  <1>2. catalog \in [Goods -> CatalogRow]
    BY DEF Init, CatalogRow
  <1>3. clock \in Times
    BY IntakeAssumption DEF Init, Times
  <1> QED BY <1>1, <1>2, <1>3, IdleWellFormed DEF Init, Shape

LEMMA ShapeNext == Shape /\ [Next]_vars => Shape'
  <1> SUFFICES ASSUME Shape, [Next]_vars PROVE Shape'
    OBVIOUS
  <1>types. /\ tx \in [Requests -> Tx] /\ catalog \in [Goods -> CatalogRow]
            /\ counters \in [Outlets \X Days -> Nat \ {0}] /\ clock \in Times
    BY DEF Shape
  <1>1. ASSUME NEW r \in Requests, Begin(r) PROVE Shape'
    <2>1. PICK c \in Calls :
            tx' = [tx EXCEPT ![r] = [@ EXCEPT !.phase = "begun", !.call = c, !.at = clock]]
      BY <1>1 DEF Begin
    <2> DEFINE new == [tx[r] EXCEPT !.phase = "begun", !.call = c, !.at = clock]
    <2>2. new \in Tx
      BY <1>types DEF Tx, Phases
    <2>3. new.phase = "begun" /\ new.call = c /\ new.snapshot = tx[r].snapshot
      BY <1>types DEF Tx
    <2>4. tx[r].snapshot = <<>>
      BY <1>1 DEF Begin, Shape, WellFormed
    <2>5. tx' \in [Requests -> Tx] /\ tx'[r] = new /\ \A s \in Requests \ {r} : tx'[s] = tx[s]
      BY <1>types, <2>1, <2>2
    <2> QED BY <1>1, <2>2, <2>3, <2>4, <2>5, ShapeOfOne DEF Begin, WellFormed, books
  <1>2. ASSUME NEW r \in Requests, NEW phase \in Phases \ {"numbered"}, Move(r, phase),
               tx[r].phase \notin {"idle", "fresh", "numbered"},
               UNCHANGED <<books, shop>>
        PROVE  Shape'
    <2>1. tx[r].call \in Calls /\ tx[r].snapshot = <<>>
      BY <1>2 DEF Shape, WellFormed
    <2>2. Len(tx[r].snapshot) <= Len(RowsRead(tx[r].call.payload))
      BY <2>1, CallFields, RowsReadType
    <2>3. WellFormed(tx'[r])
      BY <1>2, <2>1, <2>2, MoveFacts DEF WellFormed
    <2> QED BY <1>2, <2>3, MoveFacts, ShapeOfOne DEF books
  <1>3. ASSUME NEW r \in Requests,
               LockKey(r) \/ LockOutlet(r) \/ LockAssignment(r) \/ LookUpKey(r)
        PROVE  Shape'
    BY <1>2, <1>3 DEF LockKey, LockOutlet, LockAssignment, LookUpKey, Phases
  <1>4. ASSUME NEW r \in Requests, Replay(r) \/ Refuse(r) \/ Rollback(r) PROVE Shape'
    <2>1. Finish(r) /\ UNCHANGED <<orders, counters, shop>>
      BY <1>4 DEF Replay, Refuse, Rollback, books
    <2> QED BY <2>1, FinishFacts, IdleWellFormed, ShapeOfOne
  <1>5. ASSUME NEW r \in Requests, LockCatalogRow(r) PROVE Shape'
    <2> DEFINE g == RowsRead(tx[r].call.payload)[NextRow(r)]
               copied == Append(tx[r].snapshot, catalog[g].content)
               new == [tx[r] EXCEPT !.snapshot = copied]
    <2>1. tx[r].call \in Calls /\ tx[r].phase = "fresh" /\ ~ AllRead(r)
      BY <1>5 DEF LockCatalogRow, Shape, WellFormed
    <2>2. g \in Goods
      BY <2>1, NextRowIsGood
    <2>3. catalog[g].content \in Contents
      BY <1>types, <2>2 DEF CatalogRow
    <2> HIDE DEF g
    <2>4. copied \in Seq(Contents) /\ Len(copied) <= Len(RowsRead(tx[r].call.payload))
      <3>1. copied \in Seq(Contents) /\ Len(copied) = Len(tx[r].snapshot) + 1
        BY <2>1, <2>3, NextRowIsGood, AppendProperties
      <3>2. NextRow(r) <= Len(RowsRead(tx[r].call.payload))
        BY <2>1, NextRowIsGood
      <3> QED BY <3>1, <3>2 DEF NextRow
    <2> HIDE DEF copied
    <2>5. new \in Tx /\ new.phase = "fresh" /\ new.call = tx[r].call /\ new.snapshot = copied
      BY <1>types, <2>1, <2>4 DEF Tx
    <2>6. tx' = [tx EXCEPT ![r] = new]
      BY <1>5 DEF LockCatalogRow, copied, g
    <2>7. tx' \in [Requests -> Tx] /\ tx'[r] = new /\ \A s \in Requests \ {r} : tx'[s] = tx[s]
      BY <1>types, <2>5, <2>6
    <2>8. WellFormed(new)
      BY <2>1, <2>4, <2>5 DEF WellFormed
    <2> QED BY <1>5, <2>7, <2>8, ShapeOfOne DEF LockCatalogRow, books
  <1>6. ASSUME NEW r \in Requests, AllocateInvoiceNumber(r) PROVE Shape'
    <2> DEFINE xd == <<tx[r].call.outlet, DayOf(tx[r].at)>>
               new == [tx[r] EXCEPT !.phase = "numbered", !.number = counters[xd]]
    <2>1. /\ tx[r].call \in Calls /\ tx[r].at \in Times
          /\ Len(tx[r].snapshot) <= Len(RowsRead(tx[r].call.payload))
      BY <1>6, <1>types DEF AllocateInvoiceNumber, Shape, WellFormed, Tx
    <2>2. xd \in Outlets \X Days
      BY <2>1, CallFields, DayType
    <2>3. counters[xd] \in Nat \ {0}
      BY <1>types, <2>2
    <2> HIDE DEF xd
    <2>4. /\ new \in Tx /\ new.phase = "numbered" /\ new.call = tx[r].call
          /\ new.snapshot = tx[r].snapshot /\ new.number = counters[xd]
      BY <1>types, <2>3 DEF Tx, Phases
    <2>5. tx' = [tx EXCEPT ![r] = new]
      BY <1>6 DEF AllocateInvoiceNumber, xd
    <2>6. tx' \in [Requests -> Tx] /\ tx'[r] = new /\ \A s \in Requests \ {r} : tx'[s] = tx[s]
      BY <1>types, <2>4, <2>5
    <2>7. WellFormed(new)
      BY <2>1, <2>3, <2>4 DEF WellFormed
    <2> QED BY <1>6, <2>6, <2>7, ShapeOfOne DEF AllocateInvoiceNumber, books
  <1>7. ASSUME NEW r \in Requests, Commit(r) PROVE Shape'
    <2> DEFINE c == tx[r].call
               xd == <<c.outlet, DayOf(tx[r].at)>>
    <2>1. c \in Calls /\ tx[r].at \in Times /\ tx[r].number \in Nat \ {0}
      BY <1>7, <1>types DEF Commit, Shape, WellFormed, Tx
    <2>2. c.outlet \in Outlets /\ c.key \in Keys
      BY <2>1, CallFields
    <2>3. tx' \in [Requests -> Tx] /\ \A s \in Requests : WellFormed(tx'[s])
      BY <1>7, FinishFacts, IdleWellFormed DEF Commit, Shape
    <2>4. counters' \in [Outlets \X Days -> Nat \ {0}]
      <3>1. tx[r].number + 1 \in Nat \ {0}
        BY <2>1
      <3>2. counters' = [counters EXCEPT ![xd] = tx[r].number + 1]
        BY <1>7 DEF Commit
      <3> HIDE DEF xd
      <3> QED BY <1>types, <3>1, <3>2
    <2>5. \A q \in orders' : /\ q.outlet \in Outlets /\ q.key \in Keys
                              /\ q.received \in Times /\ q.number \in Nat \ {0}
      BY <1>7, <2>1, <2>2 DEF Commit, Shape
    <2> QED BY <1>7, <2>3, <2>4, <2>5 DEF Commit, Shape, shop
  <1>8. ASSUME NEW g \in Goods,
               UpdateService(g) \/ UpdatePerfume(g) \/ UpdateCustomer(g) \/ SoftDelete(g)
        PROVE  Shape'
    <2>1. PICK c \in Contents, s \in {"active", "inactive", "deleted"} :
            catalog' = [catalog EXCEPT ![g] = [content |-> c, state |-> s]]
      BY <1>8, <1>types
         DEF UpdateService, UpdatePerfume, UpdateCustomer, SoftDelete, Rewrite, Contents, CatalogRow
    <2>2. catalog' \in [Goods -> CatalogRow]
      BY <1>types, <2>1 DEF CatalogRow
    <2>3. UNCHANGED <<books, clock, tx>>
      BY <1>8 DEF UpdateService, UpdatePerfume, UpdateCustomer, SoftDelete, Rewrite
    <2> QED BY <2>2, <2>3 DEF Shape, books
  <1>9. CASE \/ \E u \in Users : UpdateStaff(u)
             \/ \E u \in Users : \E outlets \in SUBSET Outlets : ReplaceStaffOutlets(u, outlets)
             \/ \E x \in Outlets : UpdateOutlet(x)
    BY <1>9 DEF UpdateStaff, ReplaceStaffOutlets, UpdateOutlet, Shape, books
  <1>10. CASE Tick
    BY <1>10, IntakeAssumption DEF Tick, Shape, books, Times
  <1>11. CASE UNCHANGED vars
    BY <1>11 DEF vars, Shape
  <1> QED BY <1>1, <1>3, <1>4, <1>5, <1>6, <1>7, <1>8, <1>9, <1>10, <1>11 DEF Next, Work, Shop

----------------------------------------------------------------------------
(***************************************************************************)
(* What a call read stays so                                               *)
(***************************************************************************)
LEMMA CurrentInit == Init => ReadsStayCurrent
  <1> SUFFICES ASSUME Init, NEW r \in Requests PROVE Current(r) /\ Alone(r)
    BY DEF ReadsStayCurrent
  <1>1. \A s \in Requests : tx[s].phase = "idle" /\ Len(tx[s].snapshot) = 0
    BY DEF Init, IdleTx
  <1> QED BY <1>1 DEF Current, Alone, Past

\* A transaction that ended holds nothing and has read nothing.
LEMMA EndedIsCurrent ==
  ASSUME NEW r \in Requests, tx'[r] = IdleTx PROVE Current(r)' /\ Alone(r)'
  <1>1. tx'[r].phase = "idle" /\ Len(tx'[r].snapshot) = 0
    BY DEF IdleTx
  <1> QED BY <1>1 DEF Current, Alone, Past

\* A step of r that leaves the tables alone disturbs no other transaction.
LEMMA OthersStayCurrent ==
  ASSUME ReadsStayCurrent, NEW r \in Requests,
         \A s \in Requests \ {r} : tx'[s] = tx[s],
         UNCHANGED <<orders, counters, shop>>,
         Current(r)', Alone(r)'
  PROVE  ReadsStayCurrent'
  <1>1. ASSUME NEW s \in Requests \ {r} PROVE Current(s)'
    <2>1. Current(s) /\ tx'[s] = tx[s]
      BY DEF ReadsStayCurrent
    <2> QED BY <2>1 DEF Current, Past, Assigned, KnownOrders, AllRead, shop
  <1>2. ASSUME NEW s \in Requests \ {r} PROVE Alone(s)'
    <2> SUFFICES ASSUME NEW q \in Requests \ {s}
                 PROVE  /\ (Past(s, {}) /\ Past(q, {}) => ~ SameKey(s, q))'
                        /\ (tx[s].phase = "numbered" /\ tx[q].phase = "numbered" => ~ SameBook(s, q))'
      BY DEF Alone
    <2>1. CASE q = r
      BY <2>1 DEF Alone, SameKey, SameBook
    <2>2. CASE q # r
      <3>1. tx'[s] = tx[s] /\ tx'[q] = tx[q] /\ Alone(s)
        BY <2>2 DEF ReadsStayCurrent
      <3> QED BY <3>1 DEF Alone, SameKey, SameBook, Past
    <2> QED BY <2>1, <2>2
  <1> QED BY <1>1, <1>2 DEF ReadsStayCurrent

LEMMA CurrentNext == Shape /\ ReadsStayCurrent /\ [Next]_vars => ReadsStayCurrent'
  <1> SUFFICES ASSUME Shape, ReadsStayCurrent, [Next]_vars PROVE ReadsStayCurrent'
    OBVIOUS
  <1>types. tx \in [Requests -> Tx] /\ catalog \in [Goods -> CatalogRow]
    BY DEF Shape
  <1>1. ASSUME NEW r \in Requests, Begin(r) PROVE ReadsStayCurrent'
    <2>1. tx[r].snapshot = <<>>
      BY <1>1 DEF Begin, Shape, WellFormed
    <2>2. tx'[r].phase = "begun" /\ Len(tx'[r].snapshot) = 0
      BY <1>1, <1>types, <2>1 DEF Begin, Tx
    <2>3. \A s \in Requests \ {r} : tx'[s] = tx[s]
      BY <1>1, <1>types DEF Begin
    <2>4. Current(r)' /\ Alone(r)'
      BY <2>2 DEF Current, Alone, Past
    <2> QED BY <1>1, <2>3, <2>4, OthersStayCurrent DEF Begin, books
  <1>2. ASSUME NEW r \in Requests, LockKey(r) PROVE ReadsStayCurrent'
    <2>1. Len(tx[r].snapshot) = 0
      BY <1>2 DEF LockKey, Shape, WellFormed
    <2>2. /\ tx'[r].phase = "keyed" /\ tx'[r].call = tx[r].call /\ tx'[r].snapshot = tx[r].snapshot
          /\ \A s \in Requests \ {r} : tx'[s] = tx[s]
      BY <1>2, MoveFacts DEF LockKey, Phases
    <2>3. Current(r)'
      BY <2>1, <2>2 DEF Current, Past
    <2>4. Alone(r)'
      BY <1>2, <2>2 DEF LockKey, Alone, KeyHeld, SameKey, Past
    <2> QED BY <1>2, <2>2, <2>3, <2>4, OthersStayCurrent DEF LockKey, books
  <1>3. ASSUME NEW r \in Requests, LockOutlet(r) \/ LockAssignment(r) \/ LookUpKey(r)
        PROVE  ReadsStayCurrent'
    <2>1. Current(r) /\ Alone(r) /\ Len(tx[r].snapshot) = 0
      BY <1>3 DEF LockOutlet, LockAssignment, LookUpKey, ReadsStayCurrent, Shape, WellFormed
    <2>2. /\ tx'[r].call = tx[r].call /\ tx'[r].snapshot = tx[r].snapshot
          /\ tx'[r].at = tx[r].at
          /\ \A s \in Requests \ {r} : tx'[s] = tx[s]
          /\ UNCHANGED <<orders, counters, shop>>
      BY <1>3, MoveFacts DEF LockOutlet, LockAssignment, LookUpKey, Phases, books
    <2>3. \/ tx[r].phase = "keyed" /\ tx'[r].phase = "shared" /\ tx[r].call.outlet \in open
          \/ tx[r].phase = "shared" /\ tx'[r].phase = "scoped" /\ Assigned(tx[r].call)
          \/ tx[r].phase = "scoped" /\ tx'[r].phase = "fresh" /\ KnownOrders(tx[r].call) = {}
      BY <1>3, MoveFacts DEF LockOutlet, LockAssignment, LookUpKey, Phases
    <2>4. Current(r)'
      BY <2>1, <2>2, <2>3 DEF Current, Past, Phases, Assigned, KnownOrders, shop
    <2>5. Alone(r)'
      BY <2>1, <2>2, <2>3 DEF Alone, Past, Phases, SameKey
    <2> QED BY <2>2, <2>4, <2>5, OthersStayCurrent
  <1>4. ASSUME NEW r \in Requests, Replay(r) \/ Refuse(r) \/ Rollback(r) PROVE ReadsStayCurrent'
    <2>1. Finish(r) /\ UNCHANGED <<orders, counters, shop>>
      BY <1>4 DEF Replay, Refuse, Rollback, books
    <2> QED BY <2>1, FinishFacts, EndedIsCurrent, OthersStayCurrent
  <1>5. ASSUME NEW r \in Requests, LockCatalogRow(r) PROVE ReadsStayCurrent'
    <2> DEFINE p == tx[r].call.payload
               n == Len(tx[r].snapshot)
               g == RowsRead(p)[n + 1]
               copied == Append(tx[r].snapshot, catalog[g].content)
    <2>1. tx[r].phase = "fresh" /\ ~ AllRead(r) /\ Current(r) /\ Alone(r)
      BY <1>5 DEF LockCatalogRow, ReadsStayCurrent
    <2>2. g \in Goods /\ n \in Nat /\ tx[r].snapshot \in Seq(Contents)
      BY <2>1, NextRowIsGood DEF NextRow
    <2>3. catalog[g].content \in Contents /\ catalog[g] = [content |-> catalog[g].content, state |-> "active"]
      BY <1>5, <1>types, <2>2 DEF LockCatalogRow, OnSale, NextRow, CatalogRow
    <2>4. /\ Len(copied) = n + 1 /\ copied[n + 1] = catalog[g].content
          /\ \A i \in 1 .. n : copied[i] = tx[r].snapshot[i]
      BY <2>2, <2>3, AppendProperties
    <2>5. tx' = [tx EXCEPT ![r].snapshot = copied]
      BY <1>5 DEF LockCatalogRow, NextRow
    <2> HIDE DEF copied
    <2>6. /\ tx'[r].phase = "fresh" /\ tx'[r].call = tx[r].call /\ tx'[r].snapshot = copied
          /\ \A s \in Requests \ {r} : tx'[s] = tx[s]
      BY <1>types, <2>1, <2>5 DEF Tx
    <2>7. UNCHANGED <<orders, counters, shop>>
      BY <1>5 DEF LockCatalogRow, books
    <2>8. \A i \in 1 .. n + 1 : catalog[RowsRead(p)[i]] = [content |-> copied[i], state |-> "active"]
      <3>1. \A i \in 1 .. n : catalog[RowsRead(p)[i]] = [content |-> copied[i], state |-> "active"]
        BY <2>1, <2>4 DEF Current
      <3>2. catalog[RowsRead(p)[n + 1]] = [content |-> copied[n + 1], state |-> "active"]
        BY <2>3, <2>4
      <3>3. \A i \in 1 .. n + 1 : i \in 1 .. n \/ i = n + 1
        BY <2>2
      <3> QED BY <3>1, <3>2, <3>3
    <2>9. Current(r)'
      BY <2>1, <2>4, <2>6, <2>7, <2>8 DEF Current, Past, Phases, Assigned, KnownOrders, shop
    <2>10. Alone(r)'
      BY <2>1, <2>6 DEF Alone, Past, SameKey
    <2> QED BY <2>6, <2>7, <2>9, <2>10, OthersStayCurrent
  <1>6. ASSUME NEW r \in Requests, AllocateInvoiceNumber(r) PROVE ReadsStayCurrent'
    <2> DEFINE xd == <<tx[r].call.outlet, DayOf(tx[r].at)>>
    <2>1. /\ tx[r].phase = "fresh" /\ AllRead(r) /\ ~ CounterHeld(xd[1], xd[2])
          /\ tx' = [tx EXCEPT ![r] = [@ EXCEPT !.phase = "numbered", !.number = counters[xd]]]
          /\ UNCHANGED <<orders, counters, shop>>
      BY <1>6 DEF AllocateInvoiceNumber, books
    <2>2. Current(r) /\ Alone(r)
      BY DEF ReadsStayCurrent
    <2>3. /\ tx'[r].phase = "numbered" /\ tx'[r].call = tx[r].call /\ tx'[r].at = tx[r].at
          /\ tx'[r].snapshot = tx[r].snapshot /\ tx'[r].number = counters[xd]
          /\ \A s \in Requests \ {r} : tx'[s] = tx[s]
      BY <1>types, <2>1 DEF Tx
    <2>4. Current(r)'
      BY <2>1, <2>2, <2>3 DEF Current, Past, Phases, Assigned, KnownOrders, AllRead, shop
    <2>5. Alone(r)'
      BY <2>1, <2>2, <2>3 DEF Alone, Past, Phases, SameKey, SameBook, CounterHeld
    <2> QED BY <2>1, <2>3, <2>4, <2>5, OthersStayCurrent
  <1>7. ASSUME NEW r \in Requests, Commit(r) PROVE ReadsStayCurrent'
    <2> DEFINE c == tx[r].call
               xd == <<c.outlet, DayOf(tx[r].at)>>
    <2>1. /\ tx[r].phase = "numbered"
          /\ counters' = [counters EXCEPT ![xd] = tx[r].number + 1]
          /\ Finish(r) /\ UNCHANGED shop
      BY <1>7 DEF Commit
    <2>2. \A o \in orders' : o \in orders \/ (o.outlet = c.outlet /\ o.key = c.key)
      BY <1>7 DEF Commit
    <2>3. Current(r)' /\ Alone(r)' /\ \A s \in Requests \ {r} : tx'[s] = tx[s]
      BY <2>1, FinishFacts, EndedIsCurrent
    <2>4. ASSUME NEW s \in Requests \ {r} PROVE Current(s)'
      <3>1. Current(s) /\ tx'[s] = tx[s] /\ Alone(r)
        BY <2>3 DEF ReadsStayCurrent
      <3>2. Past(s, {"keyed", "shared", "scoped"}) => KnownOrders(tx[s].call)' = {}
        <4> SUFFICES ASSUME Past(s, {"keyed", "shared", "scoped"}) PROVE KnownOrders(tx[s].call)' = {}
          OBVIOUS
        <4>1. Past(s, {}) /\ Past(r, {}) /\ KnownOrders(tx[s].call) = {}
          BY <2>1, <3>1 DEF Past, Phases, Current
        <4>2. ~ SameKey(r, s)
          BY <3>1, <4>1 DEF Alone
        <4> QED BY <2>2, <3>1, <4>1, <4>2 DEF KnownOrders, SameKey
      <3>3. tx[s].phase = "numbered" =>
              counters'[<<tx[s].call.outlet, DayOf(tx[s].at)>>] =
                counters[<<tx[s].call.outlet, DayOf(tx[s].at)>>]
        <4> SUFFICES ASSUME tx[s].phase = "numbered"
                     PROVE  counters'[<<tx[s].call.outlet, DayOf(tx[s].at)>>] =
                              counters[<<tx[s].call.outlet, DayOf(tx[s].at)>>]
          OBVIOUS
        <4>1. ~ SameBook(r, s)
          BY <2>1, <3>1 DEF Alone
        <4>2. <<tx[s].call.outlet, DayOf(tx[s].at)>> # xd
          BY <4>1 DEF SameBook
        <4>3. <<tx[s].call.outlet, DayOf(tx[s].at)>> \in Outlets \X Days
          BY <1>types, CallFields, DayType DEF Shape, WellFormed, Tx
        <4> QED BY <2>1, <4>2, <4>3 DEF Shape
      <3> QED BY <2>1, <3>1, <3>2, <3>3 DEF Current, Past, Assigned, AllRead, shop, KnownOrders
    <2>5. ASSUME NEW s \in Requests \ {r} PROVE Alone(s)'
      <3>1. Alone(s) /\ tx'[s] = tx[s] /\ tx'[r].phase = "idle"
        BY <2>1, <2>3, FinishFacts DEF ReadsStayCurrent, IdleTx
      <3> QED BY <2>3, <3>1 DEF Alone, Past, SameKey, SameBook
    <2> QED BY <2>3, <2>4, <2>5 DEF ReadsStayCurrent
  <1>8. ASSUME NEW g \in Goods,
               UpdateService(g) \/ UpdatePerfume(g) \/ UpdateCustomer(g) \/ SoftDelete(g),
               NEW r \in Requests
        PROVE  Current(r)'
    <2>1. Current(r)
      BY DEF ReadsStayCurrent
    <2>2. ~ Shared(g) /\ UNCHANGED <<orders, counters, assigned, open, tx>>
      BY <1>8 DEF UpdateService, UpdatePerfume, UpdateCustomer, SoftDelete, Rewrite, books
    <2>3. \A h \in Goods \ {g} : catalog'[h] = catalog[h]
      BY <1>8, <1>types DEF UpdateService, UpdatePerfume, UpdateCustomer, SoftDelete, Rewrite
    <2>4. ASSUME NEW i \in 1 .. Len(tx[r].snapshot)
          PROVE  RowsRead(tx[r].call.payload)[i] \in Goods \ {g}
      <3>1. RowsRead(tx[r].call.payload)[i] # g
        BY <2>2 DEF Shared
      <3>2. tx[r].phase \in {"fresh", "numbered"}
        <4>1. tx[r].snapshot # <<>>
          OBVIOUS
        <4> QED BY <4>1 DEF Shape, WellFormed
      <3>3. /\ tx[r].call \in Calls /\ tx[r].snapshot \in Seq(Contents)
            /\ Len(tx[r].snapshot) <= Len(RowsRead(tx[r].call.payload))
        BY <1>types, <3>2 DEF Shape, WellFormed, Tx
      <3>4. Len(tx[r].snapshot) \in Nat
        BY <3>3, LenProperties
      <3>5. RowsRead(tx[r].call.payload) \in Seq(Goods) /\ Len(RowsRead(tx[r].call.payload)) \in Nat
        BY <3>3, CallFields, RowsReadType
      <3>6. i \in 1 .. Len(RowsRead(tx[r].call.payload))
        BY <3>3, <3>4, <3>5
      <3>7. RowsRead(tx[r].call.payload)[i] \in Goods
        BY <3>5, <3>6, ElementOfSeq
      <3> QED BY <3>1, <3>7
    <2>5. \A i \in 1 .. Len(tx[r].snapshot) :
            catalog'[RowsRead(tx[r].call.payload)[i]] = catalog[RowsRead(tx[r].call.payload)[i]]
      BY <2>3, <2>4
    <2> QED BY <2>1, <2>2, <2>5 DEF Current, Past, Assigned, KnownOrders, AllRead
  <1>9. ASSUME NEW u \in Users, NEW outlets \in SUBSET Outlets, ReplaceStaffOutlets(u, outlets),
               NEW r \in Requests
        PROVE  Current(r)'
    <2>1. Current(r) /\ ~ AssignmentShared(u) /\ UNCHANGED <<orders, counters, catalog, open, tx>>
      BY <1>9 DEF ReadsStayCurrent, ReplaceStaffOutlets, books
    <2>2. assigned' = {a \in assigned : a[1] # u} \cup ({u} \X outlets)
      BY <1>9 DEF ReplaceStaffOutlets
    <2>3. Past(r, {"keyed", "shared"}) => Assigned(tx[r].call)'
      BY <2>1, <2>2 DEF Current, AssignmentShared, Assigned
    <2> QED BY <2>1, <2>3 DEF Current, Past, Assigned, KnownOrders, AllRead
  <1>10. ASSUME NEW x \in Outlets, UpdateOutlet(x), NEW r \in Requests PROVE Current(r)'
    <2>1. /\ Current(r) /\ ~ OutletShared(x)
          /\ UNCHANGED <<orders, counters, catalog, assigned, tx>>
          /\ open' = open \cup {x} \/ open' = open \ {x}
      BY <1>10 DEF ReadsStayCurrent, UpdateOutlet, books
    <2>2. Past(r, {"keyed"}) => tx[r].call.outlet \in open'
      BY <2>1 DEF Current, OutletShared
    <2> QED BY <2>1, <2>2 DEF Current, Past, Assigned, KnownOrders, AllRead
  <1>11. ASSUME UNCHANGED <<orders, counters, catalog, assigned, open, tx>>, NEW r \in Requests
         PROVE  Current(r)'
    <2>1. Current(r)
      BY DEF ReadsStayCurrent
    <2> QED BY <1>11, <2>1 DEF Current, Past, Assigned, KnownOrders, AllRead
  <1>12. CASE Shop \/ Tick \/ UNCHANGED vars
    <2>1. UNCHANGED tx
      BY <1>12 DEF Shop, Tick, vars, UpdateService, UpdatePerfume, UpdateCustomer, SoftDelete,
                   Rewrite, UpdateStaff, ReplaceStaffOutlets, UpdateOutlet
    <2>2. \A r \in Requests : Alone(r)'
      BY <2>1 DEF ReadsStayCurrent, Alone, Past, SameKey, SameBook
    <2>3. \A u \in Users : UpdateStaff(u) => UNCHANGED <<orders, counters, catalog, assigned, open, tx>>
      BY DEF UpdateStaff, books
    <2>4. Tick \/ UNCHANGED vars => UNCHANGED <<orders, counters, catalog, assigned, open, tx>>
      BY DEF Tick, vars, books
    <2>5. \A r \in Requests : Current(r)'
      BY <1>8, <1>9, <1>10, <1>11, <1>12, <2>3, <2>4 DEF Shop
    <2> QED BY <2>2, <2>5 DEF ReadsStayCurrent
  <1> QED BY <1>1, <1>2, <1>3, <1>4, <1>5, <1>6, <1>7, <1>12 DEF Next, Work

\* What a call read under its locks is still so until it ends.
THEOREM ReadsCurrent == Spec => []ReadsStayCurrent
  <1> QED BY ShapeInit, ShapeNext, CurrentInit, CurrentNext, PTL DEF Spec
----------------------------------------------------------------------------
(***************************************************************************)
(* What follows for the orders                                             *)
(***************************************************************************)
\* The order that the call of r makes of what it read.
OrderOf(r) ==
  LET c == tx[r].call
  IN  [outlet |-> c.outlet, key |-> c.key, payload |-> c.payload, by |-> c.user,
       received |-> tx[r].at, number |-> tx[r].number,
       snapshot |-> [tx[r].snapshot EXCEPT ![1] = catalog[c.payload.customer].content],
       total |-> TotalOf(c.payload, tx[r].snapshot)]

\* Orders come to be in Commit and nowhere else, and never go.
LEMMA OnlyCommitMakesOrders ==
  ASSUME [Next]_vars
  PROVE  \/ \E r \in Requests : Commit(r)
         \/ UNCHANGED <<orders, counters>>
  BY DEF Next, Work, Shop, Begin, LockKey, LockOutlet, LockAssignment, Replay, LookUpKey,
         LockCatalogRow, AllocateInvoiceNumber, Refuse, Rollback, UpdateService, UpdatePerfume,
         UpdateCustomer, SoftDelete, Rewrite, UpdateStaff, ReplaceStaffOutlets, UpdateOutlet, Tick,
         vars, books

LEMMA CommitFacts ==
  ASSUME Shape, ReadsStayCurrent, NEW r \in Requests, Commit(r)
  PROVE  /\ orders' = orders \cup {OrderOf(r)}
         /\ tx[r].call \in Calls /\ tx[r].at \in Times
         /\ KnownOrders(tx[r].call) = {}
         /\ tx[r].number = counters[<<tx[r].call.outlet, DayOf(tx[r].at)>>]
         /\ counters' = [counters EXCEPT ![<<tx[r].call.outlet, DayOf(tx[r].at)>>] = @ + 1]
         /\ Report(tx[r].call, OrderOf(r))
  <1>1. /\ tx[r].phase = "numbered" /\ Current(r) /\ orders' = orders \cup {OrderOf(r)}
        /\ Report(tx[r].call, OrderOf(r))
        /\ counters' = [counters EXCEPT ![<<tx[r].call.outlet, DayOf(tx[r].at)>>] = tx[r].number + 1]
    BY DEF Commit, OrderOf, ReadsStayCurrent
  <1>2. tx[r].call \in Calls /\ tx[r].at \in Times
    BY <1>1 DEF Shape, WellFormed, Tx
  <1>3. /\ KnownOrders(tx[r].call) = {}
        /\ tx[r].number = counters[<<tx[r].call.outlet, DayOf(tx[r].at)>>]
    BY <1>1 DEF Current, Past, Phases
  <1> QED BY <1>1, <1>2, <1>3

LEMMA GaplessInit == Init => NumbersGapless
  BY DEF Init, NumbersGapless, Numbered

LEMMA GaplessNext ==
  Shape /\ ReadsStayCurrent /\ NumbersGapless /\ [Next]_vars => NumbersGapless'
  <1> SUFFICES ASSUME Shape, ReadsStayCurrent, NumbersGapless, [Next]_vars PROVE NumbersGapless'
    OBVIOUS
  <1>1. CASE UNCHANGED <<orders, counters>>
    BY <1>1 DEF NumbersGapless, Numbered
  <1>2. ASSUME NEW r \in Requests, Commit(r) PROVE NumbersGapless'
    <2> DEFINE o == OrderOf(r)
               yd == <<tx[r].call.outlet, DayOf(tx[r].at)>>
    <2>1. /\ orders' = orders \cup {o}
          /\ tx[r].call \in Calls /\ tx[r].at \in Times
          /\ tx[r].number = counters[yd]
          /\ counters' = [counters EXCEPT ![yd] = @ + 1]
      BY <1>2, CommitFacts
    <2>2. o.outlet = tx[r].call.outlet /\ o.received = tx[r].at /\ o.number = counters[yd]
      BY <2>1 DEF OrderOf
    <2>3. yd \in Outlets \X Days /\ yd[1] = tx[r].call.outlet /\ yd[2] = DayOf(tx[r].at)
      BY <2>1, CallFields, DayType
    <2>4. counters \in [Outlets \X Days -> Nat \ {0}]
      BY DEF Shape
    <2> HIDE DEF o
    <2> SUFFICES ASSUME NEW x \in Outlets, NEW d \in Days
                 PROVE  /\ {q.number : q \in Numbered(x, d)'} = 1 .. counters'[<<x, d>>] - 1
                        /\ \A a, b \in Numbered(x, d)' : a.number = b.number => a = b
      BY DEF NumbersGapless
    <2>5. /\ {q.number : q \in Numbered(x, d)} = 1 .. counters[<<x, d>>] - 1
          /\ \A a, b \in Numbered(x, d) : a.number = b.number => a = b
      BY DEF NumbersGapless
    <2>6. CASE <<x, d>> = yd
      <3>1. Numbered(x, d)' = Numbered(x, d) \cup {o}
        BY <2>1, <2>2, <2>6 DEF Numbered
      <3>2. o.number = counters[<<x, d>>] /\ counters'[<<x, d>>] = counters[<<x, d>>] + 1
        BY <2>1, <2>2, <2>3, <2>4, <2>6
      <3>3. counters[<<x, d>>] \in Nat \ {0}
        BY <2>4
      <3>4. {q.number : q \in Numbered(x, d)'} = {q.number : q \in Numbered(x, d)} \cup {o.number}
        BY <3>1
      <3>5. \A a \in Numbered(x, d) : a.number \in 1 .. counters[<<x, d>>] - 1
        BY <2>5
      <3>6. \A a \in Numbered(x, d) : a.number # o.number
        BY <3>2, <3>3, <3>5
      <3>7. \A a, b \in Numbered(x, d)' : a.number = b.number => a = b
        BY <2>5, <3>1, <3>6
      <3>8. 1 .. counters'[<<x, d>>] - 1 = (1 .. counters[<<x, d>>] - 1) \cup {counters[<<x, d>>]}
        BY <3>2, <3>3
      <3> QED BY <2>5, <3>2, <3>4, <3>7, <3>8
    <2>7. CASE <<x, d>> # yd
      <3>1. Numbered(x, d)' = Numbered(x, d)
        BY <2>1, <2>2, <2>7 DEF Numbered
      <3>2. counters'[<<x, d>>] = counters[<<x, d>>]
        BY <2>1, <2>4, <2>7
      <3> QED BY <2>5, <3>1, <3>2
    <2> QED BY <2>6, <2>7
  <1> QED BY <1>1, <1>2, OnlyCommitMakesOrders

\* The invoice numbers of an outlet and day are 1, 2, 3 and so on, each given
\* once.
THEOREM NumbersAlwaysGapless == Spec => []NumbersGapless
  <1> QED BY ShapeInit, ShapeNext, CurrentInit, CurrentNext, GaplessInit, GaplessNext, PTL DEF Spec

LEMMA OneOrderInit == Init => OneOrderPerKey
  BY DEF Init, OneOrderPerKey

LEMMA OneOrderNext ==
  Shape /\ ReadsStayCurrent /\ OneOrderPerKey /\ [Next]_vars => OneOrderPerKey'
  <1> SUFFICES ASSUME Shape, ReadsStayCurrent, OneOrderPerKey, [Next]_vars PROVE OneOrderPerKey'
    OBVIOUS
  <1>1. ASSUME NEW r \in Requests, Commit(r) PROVE OneOrderPerKey'
    <2> DEFINE o == OrderOf(r)
               c == tx[r].call
    <2>1. orders' = orders \cup {o} /\ KnownOrders(c) = {} /\ Report(c, o)
      BY <1>1, CommitFacts
    <2>2. o.outlet = c.outlet /\ o.key = c.key /\ o.payload = c.payload
      BY DEF OrderOf
    <2> HIDE DEF o, c
    <2>3. \A a, b \in orders' : a.outlet = b.outlet /\ a.key = b.key => a = b
      BY <2>1, <2>2 DEF OneOrderPerKey, KnownOrders
    <2>4. \A a \in acks' :
            /\ a.order \in orders'
            /\ a.order.outlet = a.outlet /\ a.order.key = a.key /\ a.order.payload = a.payload
      BY <2>1, <2>2 DEF OneOrderPerKey, Report
    <2> QED BY <2>3, <2>4 DEF OneOrderPerKey
  <1>2. ASSUME NEW r \in Requests, Replay(r) PROVE OneOrderPerKey'
    <2>1. PICK o \in KnownOrders(tx[r].call) :
            o.payload = tx[r].call.payload /\ Report(tx[r].call, o)
      BY <1>2 DEF Replay
    <2>2. o \in orders /\ o.outlet = tx[r].call.outlet /\ o.key = tx[r].call.key
      BY <2>1 DEF KnownOrders
    <2>3. UNCHANGED orders
      BY <1>2 DEF Replay
    <2> QED BY <2>1, <2>2, <2>3 DEF OneOrderPerKey, Report
  <1>3. CASE UNCHANGED <<orders, acks>>
    BY <1>3 DEF OneOrderPerKey
  <1>4. \/ \E r \in Requests : Commit(r) \/ Replay(r)
        \/ UNCHANGED <<orders, acks>>
    BY DEF Next, Work, Shop, Begin, LockKey, LockOutlet, LockAssignment, LookUpKey, LockCatalogRow,
           AllocateInvoiceNumber, Refuse, Rollback, UpdateService, UpdatePerfume, UpdateCustomer,
           SoftDelete, Rewrite, UpdateStaff, ReplaceStaffOutlets, UpdateOutlet, Tick, vars, books
  <1> QED BY <1>1, <1>2, <1>3, <1>4

\* A key makes at most one order, and every success reported under it is that
\* order.
THEOREM OneOrderForEveryKey == Spec => []OneOrderPerKey
  <1> QED BY ShapeInit, ShapeNext, CurrentInit, CurrentNext, OneOrderInit, OneOrderNext, PTL DEF Spec

\* The step that makes an order finds what it copied still on offer, the outlet
\* open and its creator entitled.
LEMMA AcceptedStep ==
  ASSUME Shape, ReadsStayCurrent, [Next]_vars, NEW o \in orders' \ orders
  PROVE  /\ \A i \in DOMAIN RowsRead(o.payload) :
              catalog[RowsRead(o.payload)[i]] = [content |-> o.snapshot[i], state |-> "active"]
         /\ o.outlet \in open
         /\ o.by \in Admins \/ <<o.by, o.outlet>> \in assigned
  <1>1. PICK r \in Requests : Commit(r)
    BY OnlyCommitMakesOrders
  <1> DEFINE c == tx[r].call
             p == c.payload
             snapshot == tx[r].snapshot
  <1>2. o = OrderOf(r) /\ c \in Calls
    BY <1>1, CommitFacts
  <1>3. tx[r].phase = "numbered" /\ Current(r)
    BY <1>1 DEF Commit, ReadsStayCurrent
  <1>4. /\ c.outlet \in open /\ Assigned(c) /\ Len(snapshot) = Len(RowsRead(p))
        /\ \A i \in 1 .. Len(snapshot) :
             catalog[RowsRead(p)[i]] = [content |-> snapshot[i], state |-> "active"]
    BY <1>3 DEF Current, Past, Phases, AllRead
  <1>5. /\ o.payload = p /\ o.outlet = c.outlet /\ o.by = c.user
        /\ o.snapshot = [snapshot EXCEPT ![1] = catalog[p.customer].content]
    BY <1>2 DEF OrderOf
  <1>6. /\ DOMAIN RowsRead(p) = 1 .. Len(RowsRead(p)) /\ Len(RowsRead(p)) \in Nat \ {0}
        /\ RowsRead(p)[1] = p.customer
    BY <1>2, CallFields, RowsReadType
  <1>7. DOMAIN snapshot = 1 .. Len(snapshot)
    BY LenProperties DEF Shape, Tx
  <1>8. ASSUME NEW i \in DOMAIN RowsRead(p) PROVE o.snapshot[i] = snapshot[i]
    <2>1. CASE i = 1
      <3>1. catalog[p.customer] = [content |-> snapshot[1], state |-> "active"]
        BY <1>4, <1>6
      <3> QED BY <1>4, <1>5, <1>6, <1>7, <2>1, <3>1
    <2>2. CASE i # 1
      BY <1>4, <1>5, <1>6, <1>7, <2>2
    <2> QED BY <2>1, <2>2
  <1> QED BY <1>4, <1>5, <1>6, <1>8 DEF Assigned

\* An order holds what is on offer at the moment it comes to be.
THEOREM OrdersAsOffered == Spec => AcceptedAsOffered
  <1>1. Shape /\ ReadsStayCurrent /\ [Next]_vars =>
          [\A o \in orders' \ orders :
             /\ \A i \in DOMAIN RowsRead(o.payload) :
                  catalog[RowsRead(o.payload)[i]] = [content |-> o.snapshot[i], state |-> "active"]
             /\ o.outlet \in open
             /\ o.by \in Admins \/ <<o.by, o.outlet>> \in assigned]_vars
    BY AcceptedStep
  <1> QED BY <1>1, ShapeInit, ShapeNext, CurrentInit, CurrentNext, PTL DEF Spec, AcceptedAsOffered
----------------------------------------------------------------------------
(***************************************************************************)
(* The books of InvoiceBook                                                *)
(***************************************************************************)
Entry(o) == [key |-> o.key, payload |-> o.payload]

\* A number that names one member of a set is enough to find it.
LEMMA TheOneNumbered ==
  ASSUME NEW S, NEW o \in S, \A a, b \in S : a.number = b.number => a = b
  PROVE  (CHOOSE q \in S : q.number = o.number) = o
  OBVIOUS

\* Every entry of a book is of an order, and every order has its entry.
LEMMA EntriesAreOrders ==
  ASSUME NumbersGapless, NEW xd \in Outlets \X Days, NEW n \in 1 .. counters[xd] - 1
  PROVE  /\ OrderNumbered(xd, n) \in Numbered(xd[1], xd[2])
         /\ OrderNumbered(xd, n).number = n
  <1>1. xd = <<xd[1], xd[2]>> /\ xd[1] \in Outlets /\ xd[2] \in Days
    OBVIOUS
  <1>2. {o.number : o \in Numbered(xd[1], xd[2])} = 1 .. counters[xd] - 1
    BY <1>1 DEF NumbersGapless
  <1>3. \E o \in Numbered(xd[1], xd[2]) : o.number = n
    BY <1>2
  <1> QED BY <1>3 DEF OrderNumbered

LEMMA BookOfOne ==
  ASSUME NEW xd \in Outlets \X Days
  PROVE  Books[xd] = [n \in 1 .. counters[xd] - 1 |-> Entry(OrderNumbered(xd, n))]
  BY DEF Books, Entry

LEMMA BooksInit == Init => Book!Init
  <1> SUFFICES ASSUME Init PROVE Book!Init
    OBVIOUS
  <1>1. ASSUME NEW xd \in Outlets \X Days PROVE Books[xd] = <<>>
    <2>1. counters[xd] = 1
      BY DEF Init
    <2> DEFINE s == [n \in 1 .. counters[xd] - 1 |-> Entry(OrderNumbered(xd, n))]
    <2>2. s \in Seq({Entry(OrderNumbered(xd, n)) : n \in 1 .. counters[xd] - 1}) /\ Len(s) = 0
      BY <2>1
    <2>3. s = <<>>
      <3> HIDE DEF s
      <3> QED BY <2>2, EmptySeq
    <2> QED BY <2>3, BookOfOne
  <1> QED BY <1>1 DEF Book!Init, Books

\* A function that goes on one place further than a sequence is the longer sequence.
LEMMA OneLonger ==
  ASSUME NEW S, NEW c \in Nat \ {0}, NEW s \in [1 .. c - 1 -> S], NEW t \in [1 .. c -> S],
         \A i \in 1 .. c - 1 : t[i] = s[i]
  PROVE  t = Append(s, t[c])
  <1>1. s \in Seq(S) /\ Len(s) = c - 1 /\ t \in Seq(S) /\ Len(t) = c /\ t[c] \in S
    OBVIOUS
  <1> DEFINE u == Append(s, t[c])
  <1>2. /\ u \in Seq(S) /\ Len(u) = c /\ u[c] = t[c]
        /\ \A i \in 1 .. c - 1 : u[i] = s[i]
    BY <1>1, AppendProperties
  <1>3. \A i \in 1 .. Len(t) : t[i] = u[i]
    BY <1>1, <1>2
  <1> HIDE DEF u
  <1>4. t = u
    BY <1>1, <1>2, <1>3, SeqEqual
  <1> QED BY <1>4 DEF u

\* A commit prolongs the book of its outlet and day by the order it made.
LEMMA CommitProlongs ==
  ASSUME Shape, ReadsStayCurrent, NumbersGapless, NumbersGapless', NEW r \in Requests, Commit(r),
         NEW yd, yd = <<tx[r].call.outlet, DayOf(tx[r].at)>>
  PROVE  Books' = [Books EXCEPT ![yd] = Append(@, Entry(OrderOf(r)))]
  <1> DEFINE o == OrderOf(r)
  <1>1. /\ orders' = orders \cup {o}
        /\ tx[r].call \in Calls /\ tx[r].at \in Times
        /\ tx[r].number = counters[yd]
        /\ counters' = [counters EXCEPT ![yd] = @ + 1]
    BY CommitFacts
  <1>2. o.outlet = tx[r].call.outlet /\ o.received = tx[r].at /\ o.number = counters[yd]
    BY <1>1 DEF OrderOf
  <1>3. yd \in Outlets \X Days /\ yd[1] = tx[r].call.outlet /\ yd[2] = DayOf(tx[r].at)
    BY <1>1, CallFields, DayType
  <1>4. PICK c \in Nat \ {0} : c = counters[yd] /\ counters'[yd] = c + 1
    BY <1>1, <1>3 DEF Shape
  <1>types. counters \in [Outlets \X Days -> Nat \ {0}]
    BY DEF Shape
  <1> HIDE DEF o
  <1>5. ASSUME NEW xd \in Outlets \X Days, xd # yd PROVE Books'[xd] = Books[xd]
    <2>1. Numbered(xd[1], xd[2])' = Numbered(xd[1], xd[2])
      BY <1>1, <1>2, <1>3, <1>5 DEF Numbered
    <2>2. counters'[xd] = counters[xd]
      BY <1>1, <1>types, <1>5
    <2> QED BY <2>1, <2>2 DEF Books, OrderNumbered
  <1>6. Numbered(yd[1], yd[2])' = Numbered(yd[1], yd[2]) \cup {o}
    BY <1>1, <1>2, <1>3 DEF Numbered
  <1>7. \A a, b \in Numbered(yd[1], yd[2])' : a.number = b.number => a = b
    BY <1>3 DEF NumbersGapless
  <1>8. ASSUME NEW n \in 1 .. c - 1 PROVE OrderNumbered(yd, n)' = OrderNumbered(yd, n)
    <2> DEFINE q == OrderNumbered(yd, n)
    <2>1. q \in Numbered(yd[1], yd[2]) /\ q.number = n
      BY <1>3, <1>8, <1>4, EntriesAreOrders
    <2> HIDE DEF q
    <2>2. (CHOOSE a \in Numbered(yd[1], yd[2])' : a.number = n) = q
      BY <1>6, <1>7, <2>1, TheOneNumbered
    <2> QED BY <2>2 DEF q, OrderNumbered
  <1>9. OrderNumbered(yd, c)' = o
    <2>1. (CHOOSE a \in Numbered(yd[1], yd[2])' : a.number = c) = o
      BY <1>2, <1>4, <1>6, <1>7, TheOneNumbered
    <2> QED BY <2>1 DEF OrderNumbered
  <1>10. Books'[yd] = Append(Books[yd], Entry(o))
    <2> DEFINE s == [n \in 1 .. c - 1 |-> Entry(OrderNumbered(yd, n))]
               t == [n \in 1 .. c |-> IF n = c THEN Entry(o) ELSE Entry(OrderNumbered(yd, n))]
    <2>1. Books[yd] = s
      BY <1>3, <1>4, BookOfOne
    <2>2. Books'[yd] = t
      <3>1. Books'[yd] = [n \in 1 .. counters'[yd] - 1 |-> Entry(OrderNumbered(yd, n)')]
        BY <1>3 DEF Books, Entry
      <3>2. counters'[yd] - 1 = c
        BY <1>4
      <3>3. \A n \in 1 .. c : Entry(OrderNumbered(yd, n)') =
                               IF n = c THEN Entry(o) ELSE Entry(OrderNumbered(yd, n))
        <4> SUFFICES ASSUME NEW n \in 1 .. c
                     PROVE  Entry(OrderNumbered(yd, n)') =
                              IF n = c THEN Entry(o) ELSE Entry(OrderNumbered(yd, n))
          OBVIOUS
        <4>1. CASE n = c
          BY <1>9, <4>1
        <4>2. CASE n # c
          <5>1. n \in 1 .. c - 1
            BY <1>4, <4>2
          <5> QED BY <1>8, <4>2, <5>1
        <4> QED BY <4>1, <4>2
      <3> QED BY <3>1, <3>2, <3>3
    <2>3. t = Append(s, Entry(o))
      <3> DEFINE S == {t[n] : n \in 1 .. c}
      <3>1. t \in [1 .. c -> S] /\ t[c] = Entry(o)
        BY <1>4
      <3>2. ASSUME NEW n \in 1 .. c - 1 PROVE t[n] = s[n] /\ s[n] \in S
        <4>1. n \in 1 .. c /\ n # c
          BY <1>4, <3>2
        <4> QED BY <4>1
      <3>3. s \in [1 .. c - 1 -> S]
        BY <3>2
      <3>4. \A n \in 1 .. c - 1 : t[n] = s[n]
        BY <3>2
      <3> HIDE DEF s, t, S
      <3>5. t = Append(s, t[c])
        BY <1>4, <3>1, <3>3, <3>4, OneLonger
      <3> QED BY <3>1, <3>5
    <2> QED BY <2>1, <2>2, <2>3
  <1>11. DOMAIN Books = Outlets \X Days /\ DOMAIN Books' = Outlets \X Days
    BY DEF Books
  <1> QED BY <1>3, <1>5, <1>10, <1>11 DEF o, Books

LEMMA BooksNext ==
  ASSUME Shape, ReadsStayCurrent, NumbersGapless, NumbersGapless', [Next]_vars
  PROVE  [Book!Next]_Books
  <1>1. CASE UNCHANGED <<orders, counters>>
    BY <1>1 DEF Books, OrderNumbered, Numbered
  <1>2. ASSUME NEW r \in Requests, Commit(r) PROVE Book!Next
    <2> DEFINE x == tx[r].call.outlet
               d == DayOf(tx[r].at)
               k == tx[r].call.key
               p == tx[r].call.payload
    <2>1. x \in Outlets /\ d \in Days /\ k \in Keys /\ p \in Payloads
      BY <1>2, CommitFacts, CallFields, DayType
    <2>2. Entry(OrderOf(r)) = [key |-> k, payload |-> p]
      BY DEF Entry, OrderOf
    <2>3. Books' = [Books EXCEPT ![<<x, d>>] = Append(@, [key |-> k, payload |-> p])]
      BY <1>2, <2>2, CommitProlongs
    <2>4. ASSUME NEW e \in Days, NEW n \in DOMAIN Books[<<x, e>>]
          PROVE  Books[<<x, e>>][n].key # k
      <3>1. <<x, e>> \in Outlets \X Days /\ <<x, e>>[1] = x /\ <<x, e>>[2] = e
        BY <2>1
      <3>2. n \in 1 .. counters[<<x, e>>] - 1
        BY <2>4, <3>1, BookOfOne
      <3>3. OrderNumbered(<<x, e>>, n) \in Numbered(x, e)
        BY <3>1, <3>2, EntriesAreOrders
      <3>4. KnownOrders(tx[r].call) = {}
        BY <1>2, CommitFacts
      <3>5. OrderNumbered(<<x, e>>, n).key # k
        BY <3>3, <3>4 DEF KnownOrders, Numbered
      <3>6. Books[<<x, e>>][n] = Entry(OrderNumbered(<<x, e>>, n))
        BY <3>1, <3>2, BookOfOne
      <3> QED BY <3>5, <3>6 DEF Entry
    <2>5. Book!Enter(x, d, k, p)
      BY <2>3, <2>4 DEF Book!Enter, Book!UsedIn
    <2> QED BY <2>1, <2>5 DEF Book!Next
  <1> QED BY <1>1, <1>2, OnlyCommitMakesOrders

\* The calls of Create, interleaved as they may be, write the books of InvoiceBook:
\* each at its end, one entry at a time, a key at most once in an outlet.
THEOREM IntakeImplementsBook == Spec => ImplementsBook
  BY ShapeInit, ShapeNext, CurrentInit, CurrentNext, GaplessInit, GaplessNext, BooksInit,
     BooksNext, PTL DEF Spec, ImplementsBook, Book!Spec
----------------------------------------------------------------------------
(***************************************************************************)
(* The total of an order                                                   *)
(*                                                                         *)
(* TotalOf adds up its lines by a recursive function.  That there is such  *)
(* a function, and that it yields numbers, are inductions on the length,   *)
(* argued by the least length for which it would fail.                     *)
(***************************************************************************)
\* There is a function of the partial sums of any terms.
LEMMA SumsExist ==
  ASSUME NEW t, NEW n \in Nat
  PROVE  \E f : f = [i \in 0 .. n |-> IF i = 0 THEN 0 ELSE f[i - 1] + t[i]]
  <1> DEFINE IsSum(f, m) == f = [i \in 0 .. m |-> IF i = 0 THEN 0 ELSE f[i - 1] + t[i]]
             Bad == {m \in Nat : ~ \E f : IsSum(f, m)}
  <1>1. ASSUME Bad # {} PROVE FALSE
    <2>1. PICK m \in Bad : \A k \in Nat : k < m => k \notin Bad
      BY <1>1, LeastNumber
    <2>2. CASE m = 0
      <3>1. IsSum([i \in 0 .. 0 |-> 0], 0)
        OBVIOUS
      <3> QED BY <2>1, <2>2, <3>1
    <2>3. CASE m # 0
      <3>1. m - 1 \in Nat /\ m - 1 < m /\ m \in Nat
        BY <2>1, <2>3
      <3>2. PICK f : IsSum(f, m - 1)
        BY <2>1, <3>1
      <3> DEFINE g == [i \in 0 .. m |-> IF i = m THEN f[m - 1] + t[m] ELSE f[i]]
      <3>3. \A i \in 0 .. m - 1 : f[i] = IF i = 0 THEN 0 ELSE f[i - 1] + t[i]
        BY <3>2
      <3>4. ASSUME NEW i \in 0 .. m PROVE g[i] = IF i = 0 THEN 0 ELSE g[i - 1] + t[i]
        <4>1. CASE i = m
          BY <3>1, <4>1
        <4>2. CASE i # m
          <5>1. i \in 0 .. m - 1
            BY <3>1, <4>2
          <5>2. i = 0 \/ i - 1 \in 0 .. m - 1
            BY <3>1, <5>1
          <5> QED BY <3>1, <3>3, <4>2, <5>1, <5>2
        <4> QED BY <4>1, <4>2
      <3>5. IsSum(g, m)
        BY <3>4
      <3> QED BY <2>1, <3>5
    <2> QED BY <2>2, <2>3
  <1> QED BY <1>1

\* The partial sums of natural numbers are natural numbers.
LEMMA SumsAreNat ==
  ASSUME NEW n \in Nat, NEW t \in [1 .. n -> Nat], NEW f,
         f = [i \in 0 .. n |-> IF i = 0 THEN 0 ELSE f[i - 1] + t[i]]
  PROVE  f[n] \in Nat
  <1> DEFINE Bad == {m \in Nat : m <= n /\ f[m] \notin Nat}
  <1>1. ASSUME Bad # {} PROVE FALSE
    <2>1. PICK m \in Bad : \A k \in Nat : k < m => k \notin Bad
      BY <1>1, LeastNumber
    <2>2. m \in 0 .. n /\ f[m] \notin Nat /\ f[m] = IF m = 0 THEN 0 ELSE f[m - 1] + t[m]
      BY <2>1
    <2>3. m # 0 /\ m \in 1 .. n /\ m - 1 \in Nat /\ m - 1 <= n /\ m - 1 < m
      BY <2>2
    <2>4. f[m - 1] \in Nat
      BY <2>1, <2>3
    <2> QED BY <2>2, <2>3, <2>4
  <1>2. n \in Nat /\ n <= n /\ Bad = {}
    BY <1>1
  <1> QED BY <1>2

\* The services are the last rows a payload reads, line by line.
LEMMA ServiceRows ==
  ASSUME NEW p \in Payloads
  PROVE  /\ p.items \in Seq([service : Services, milli : Nat \ {0}])
         /\ Len(p.items) \in Nat /\ Len(RowsRead(p)) - Len(p.items) \in Nat
         /\ \A i \in 1 .. Len(p.items) :
              RowsRead(p)[Len(RowsRead(p)) - Len(p.items) + i] = p.items[i].service
  <1>1. p \in Payload
    BY IntakeAssumption
  <1>2. /\ p.customer \in Customers /\ p.perfume \in Perfumes \cup {"NULL"}
        /\ p.items \in Seq([service : Services, milli : Nat \ {0}])
    BY <1>1 DEF Payload
  <1> DEFINE perfume == IF p.perfume = "NULL" THEN <<>> ELSE <<p.perfume>>
             head == <<p.customer>> \o perfume
             tail == ServicesOf(p)
             Item == [service : Services, milli : Nat \ {0}]
  <1>3. head \in Seq({p.customer, p.perfume})
    <2>1. perfume \in Seq({p.customer, p.perfume})
      <3>1. <<>> \in Seq({p.customer, p.perfume}) /\ <<p.perfume>> \in Seq({p.customer, p.perfume})
        OBVIOUS
      <3> QED BY <3>1, Zenon
    <2>2. <<p.customer>> \in Seq({p.customer, p.perfume})
      OBVIOUS
    <2> QED BY <2>1, <2>2, ConcatProperties
  <1>4. /\ DOMAIN p.items = 1 .. Len(p.items) /\ Len(p.items) \in Nat
        /\ \A i \in 1 .. Len(p.items) : p.items[i] \in Item
    <2>1. p.items \in Seq(Item)
      BY <1>2
    <2> HIDE DEF Item
    <2> QED BY <2>1, LenProperties, ElementOfSeq
  <1>5. /\ tail \in Seq(Services) /\ Len(tail) = Len(p.items)
        /\ \A i \in 1 .. Len(p.items) : tail[i] = p.items[i].service
    BY <1>4 DEF ServicesOf
  <1>6. RowsRead(p) = head \o tail
    BY DEF RowsRead
  <1> DEFINE Any == {p.customer, p.perfume} \cup Services
  <1>7. head \in Seq(Any) /\ tail \in Seq(Any)
    BY <1>3, <1>5
  <1> HIDE DEF head, tail, Any, perfume
  <1>8. /\ Len(RowsRead(p)) = Len(head) + Len(tail) /\ Len(head) \in Nat
        /\ \A i \in 1 .. Len(head) + Len(tail) :
             RowsRead(p)[i] = IF i <= Len(head) THEN head[i] ELSE tail[i - Len(head)]
    BY <1>6, <1>7, ConcatProperties, LenProperties
  <1>9. ASSUME NEW i \in 1 .. Len(p.items)
        PROVE  RowsRead(p)[Len(RowsRead(p)) - Len(p.items) + i] = p.items[i].service
    <2>1. /\ Len(RowsRead(p)) - Len(p.items) + i = Len(head) + i
          /\ Len(head) + i \in 1 .. Len(head) + Len(tail)
          /\ ~ (Len(head) + i <= Len(head)) /\ Len(head) + i - Len(head) = i
      BY <1>4, <1>5, <1>8
    <2>2. RowsRead(p)[Len(head) + i] = tail[i]
      BY <1>8, <2>1
    <2> QED BY <1>5, <2>1, <2>2
  <1> QED BY <1>2, <1>4, <1>5, <1>8, <1>9

\* Half a rupiah rounds up, and nothing is lost below nothing.
LEMMA LineTotalIsNat ==
  ASSUME NEW milli \in Nat, NEW price \in Nat PROVE LineTotal(milli, price) \in Nat
  <1>1. milli * price \in Nat
    OBVIOUS
  <1> DEFINE n == milli * price
  <1> HIDE DEF n
  <1>2. (n + 500) \div 1000 \in Nat
    BY <1>1 DEF n
  <1> QED BY <1>2 DEF LineTotal, n

LEMMA TotalIsNat ==
  ASSUME NEW p \in Payloads, NEW snapshot,
         \A i \in 1 .. Len(p.items) :
           snapshot[Len(RowsRead(p)) - Len(p.items) + i] \in Offers
  PROVE  TotalOf(p, snapshot) \in Nat
  <1> DEFINE n == Len(p.items)
             priced(i) == snapshot[Len(RowsRead(p)) - n + i].price
             term(i) == LineTotal(p.items[i].milli, priced(i))
             t == [i \in 1 .. n |-> term(i)]
  <1>1. n \in Nat /\ p.items \in Seq([service : Services, milli : Nat \ {0}])
    BY ServiceRows
  <1>2. ASSUME NEW i \in 1 .. n PROVE term(i) \in Nat
    <2>1. p.items[i] \in [service : Services, milli : Nat \ {0}]
      BY <1>1, ElementOfSeq
    <2>2. p.items[i].milli \in Nat
      BY <2>1
    <2>3. priced(i) \in Nat
      BY IntakeAssumption
    <2> HIDE DEF priced
    <2> QED BY <2>2, <2>3, LineTotalIsNat
  <1> DEFINE sum == CHOOSE f : f = [i \in 0 .. n |-> IF i = 0 THEN 0 ELSE f[i - 1] + term(i)]
  <1>3. TotalOf(p, snapshot) = sum[n]
    BY Zenon DEF TotalOf
  <1> HIDE DEF n, term
  <1>4. t \in [1 .. n -> Nat] /\ \A i \in 0 .. n : i # 0 => t[i] = term(i)
    BY <1>1, <1>2
  <1> HIDE DEF t
  <1>5. ASSUME NEW f
        PROVE  [i \in 0 .. n |-> IF i = 0 THEN 0 ELSE f[i - 1] + t[i]] =
               [i \in 0 .. n |-> IF i = 0 THEN 0 ELSE f[i - 1] + term(i)]
    BY <1>4
  <1>6. \E f : f = [i \in 0 .. n |-> IF i = 0 THEN 0 ELSE f[i - 1] + term(i)]
    <2>1. PICK f : f = [i \in 0 .. n |-> IF i = 0 THEN 0 ELSE f[i - 1] + t[i]]
      BY <1>1, SumsExist
    <2>2. [i \in 0 .. n |-> IF i = 0 THEN 0 ELSE f[i - 1] + t[i]] =
          [i \in 0 .. n |-> IF i = 0 THEN 0 ELSE f[i - 1] + term(i)]
      BY <1>5
    <2>3. f = [i \in 0 .. n |-> IF i = 0 THEN 0 ELSE f[i - 1] + term(i)]
      BY <2>1, <2>2, Zenon
    <2> QED BY <2>3, Zenon
  <1>7. sum = [i \in 0 .. n |-> IF i = 0 THEN 0 ELSE sum[i - 1] + term(i)]
    BY <1>6, Zenon
  <1> HIDE DEF sum
  <1>8. sum = [i \in 0 .. n |-> IF i = 0 THEN 0 ELSE sum[i - 1] + t[i]]
    BY <1>5, <1>7, Zenon
  <1> QED BY <1>1, <1>3, <1>4, <1>8, SumsAreNat
----------------------------------------------------------------------------
(***************************************************************************)
(* All of the types                                                        *)
(***************************************************************************)
\* Services carry a price, and a call that took a number has a total that fits.
Priced ==
  /\ \A g \in Services : catalog[g].content \in Offers
  /\ \A r \in Requests :
       tx[r].phase = "numbered" => TotalFits(TotalOf(tx[r].call.payload, tx[r].snapshot))

\* What Shape leaves out of TypeOK.
Rest ==
  /\ orders \subseteq OrderRow
  /\ assigned \subseteq Users \X Outlets
  /\ active \in [Users -> BOOLEAN]
  /\ open \subseteq Outlets
  /\ acks \subseteq [outlet : Outlets, key : Keys, payload : Payloads, order : OrderRow]

LEMMA TypesTogether == Shape /\ Rest => TypeOK
  BY DEF Shape, Rest, TypeOK

LEMMA PricedInit == Init => Priced
  <1> SUFFICES ASSUME Init PROVE Priced
    OBVIOUS
  <1>1. \A g \in Services : catalog[g].content \in Offers
    BY DEF Init, Goods
  <1>2. \A r \in Requests : tx[r].phase = "idle"
    BY DEF Init, IdleTx
  <1> QED BY <1>1, <1>2 DEF Priced

LEMMA PricedNext == Shape /\ Priced /\ [Next]_vars => Priced'
  <1> SUFFICES ASSUME Shape, Priced, [Next]_vars PROVE Priced'
    OBVIOUS
  <1>types. tx \in [Requests -> Tx] /\ catalog \in [Goods -> CatalogRow]
    BY DEF Shape
  <1>1. ASSUME UNCHANGED catalog, NEW r \in Requests,
               \A s \in Requests \ {r} : tx'[s] = tx[s],
               tx'[r].phase = "numbered" => TotalFits(TotalOf(tx'[r].call.payload, tx'[r].snapshot))
        PROVE  Priced'
    <2>1. ASSUME NEW s \in Requests, tx'[s].phase = "numbered"
          PROVE  TotalFits(TotalOf(tx'[s].call.payload, tx'[s].snapshot))
      BY <1>1, <2>1 DEF Priced
    <2> QED BY <1>1, <2>1 DEF Priced
  <1>2. ASSUME NEW r \in Requests, AllocateInvoiceNumber(r) PROVE Priced'
    <2>1. PICK n : tx' = [tx EXCEPT ![r] = [@ EXCEPT !.phase = "numbered", !.number = n]]
      BY <1>2 DEF AllocateInvoiceNumber
    <2>2. /\ tx'[r].call = tx[r].call /\ tx'[r].snapshot = tx[r].snapshot
          /\ \A s \in Requests \ {r} : tx'[s] = tx[s]
      BY <1>types, <2>1 DEF Tx
    <2>3. TotalFits(TotalOf(tx[r].call.payload, tx[r].snapshot)) /\ UNCHANGED catalog
      BY <1>2 DEF AllocateInvoiceNumber, Accepted, shop
    <2> QED BY <1>1, <2>2, <2>3
  <1>3. ASSUME NEW r \in Requests, Begin(r) PROVE Priced'
    <2>1. PICK c \in Calls :
            tx' = [tx EXCEPT ![r] = [@ EXCEPT !.phase = "begun", !.call = c, !.at = clock]]
      BY <1>3 DEF Begin
    <2>2. tx'[r].phase = "begun" /\ \A s \in Requests \ {r} : tx'[s] = tx[s]
      BY <1>types, <2>1 DEF Tx
    <2> QED BY <1>1, <1>3, <2>2 DEF Begin, shop
  <1>4. ASSUME NEW r \in Requests, NEW phase \in Phases \ {"numbered"}, Move(r, phase), UNCHANGED shop
        PROVE  Priced'
    BY <1>1, <1>4, MoveFacts DEF shop
  <1>5. ASSUME NEW r \in Requests, Finish(r), UNCHANGED shop PROVE Priced'
    <2>1. tx'[r].phase = "idle" /\ \A s \in Requests \ {r} : tx'[s] = tx[s]
      BY <1>5, FinishFacts DEF IdleTx
    <2> QED BY <1>1, <1>5, <2>1 DEF shop
  <1>6. ASSUME NEW r \in Requests, LockCatalogRow(r) PROVE Priced'
    <2>1. PICK row : tx' = [tx EXCEPT ![r].snapshot = Append(@, row)]
      BY <1>6 DEF LockCatalogRow
    <2>2. tx'[r].phase = tx[r].phase /\ \A s \in Requests \ {r} : tx'[s] = tx[s]
      BY <1>types, <2>1 DEF Tx
    <2>3. tx[r].phase = "fresh" /\ UNCHANGED catalog
      BY <1>6 DEF LockCatalogRow, shop
    <2> QED BY <1>1, <2>2, <2>3
  <1>7. ASSUME NEW g \in Goods,
               UpdateService(g) \/ UpdatePerfume(g) \/ UpdateCustomer(g) \/ SoftDelete(g)
        PROVE  Priced'
    <2>1. PICK c, s : /\ catalog' = [catalog EXCEPT ![g] = [content |-> c, state |-> s]]
                      /\ g \in Services => c \in Offers
      <3>1. Services \cap Perfumes = {} /\ Services \cap Customers = {}
        BY IntakeAssumption
      <3>2. g \in Services => catalog[g].content \in Offers
        BY DEF Priced
      <3>3. UpdateService(g) \/ SoftDelete(g) \/ g \notin Services
        BY <1>7, <3>1 DEF UpdatePerfume, UpdateCustomer
      <3> QED BY <1>7, <3>2, <3>3
              DEF UpdateService, UpdatePerfume, UpdateCustomer, SoftDelete, Rewrite
    <2>2. \A h \in Services : catalog'[h].content \in Offers
      <3> SUFFICES ASSUME NEW h \in Services PROVE catalog'[h].content \in Offers
        OBVIOUS
      <3>1. h \in Goods /\ catalog[h].content \in Offers
        BY DEF Priced, Goods
      <3>2. CASE h = g
        BY <1>types, <2>1, <3>1, <3>2
      <3>3. CASE h # g
        BY <1>types, <2>1, <3>1, <3>3
      <3> QED BY <3>2, <3>3
    <2>3. UNCHANGED tx
      BY <1>7 DEF UpdateService, UpdatePerfume, UpdateCustomer, SoftDelete, Rewrite
    <2> QED BY <2>2, <2>3 DEF Priced
  <1>8. CASE \/ \E u \in Users : UpdateStaff(u)
             \/ \E u \in Users : \E outlets \in SUBSET Outlets : ReplaceStaffOutlets(u, outlets)
             \/ \E x \in Outlets : UpdateOutlet(x)
             \/ Tick \/ UNCHANGED vars
    BY <1>8 DEF UpdateStaff, ReplaceStaffOutlets, UpdateOutlet, Tick, vars, Priced
  <1>9. ASSUME NEW r \in Requests,
               LockKey(r) \/ LockOutlet(r) \/ LockAssignment(r) \/ LookUpKey(r)
        PROVE  Priced'
    BY <1>4, <1>9 DEF LockKey, LockOutlet, LockAssignment, LookUpKey, Phases
  <1>10. ASSUME NEW r \in Requests, Replay(r) \/ Commit(r) \/ Refuse(r) \/ Rollback(r) PROVE Priced'
    BY <1>5, <1>10 DEF Replay, Commit, Refuse, Rollback
  <1> QED BY <1>2, <1>3, <1>6, <1>7, <1>8, <1>9, <1>10 DEF Next, Work, Shop

\* The order that a commit makes is a row of its table.
LEMMA OrderOfType ==
  ASSUME Shape, ReadsStayCurrent, Priced, NEW r \in Requests, Commit(r)
  PROVE  OrderOf(r) \in OrderRow
  <1> DEFINE c == tx[r].call
             p == c.payload
             snapshot == tx[r].snapshot
  <1>1. /\ tx[r].phase = "numbered" /\ Current(r) /\ c \in Calls /\ tx[r].at \in Times
        /\ tx[r].number \in Nat \ {0} /\ snapshot \in Seq(Contents)
    BY DEF Commit, ReadsStayCurrent, Shape, WellFormed, Tx
  <1>2. c.outlet \in Outlets /\ c.key \in Keys /\ c.user \in Users /\ p \in Payloads
    BY <1>1, CallFields
  <1>3. /\ Len(snapshot) = Len(RowsRead(p))
        /\ \A i \in 1 .. Len(snapshot) :
             catalog[RowsRead(p)[i]] = [content |-> snapshot[i], state |-> "active"]
    BY <1>1 DEF Current, AllRead
  <1>4. Len(RowsRead(p)) \in Nat \ {0} /\ p.customer \in Goods
    BY <1>2, RowsReadType
  <1>5. [snapshot EXCEPT ![1] = catalog[p.customer].content] \in Seq(Contents)
    <2>1. catalog[p.customer].content \in Contents
      BY <1>4 DEF Shape, CatalogRow
    <2>2. 1 \in 1 .. Len(snapshot)
      BY <1>3, <1>4
    <2> QED BY <1>1, <2>1, <2>2, ExceptSeq
  <1>6. TotalOf(p, snapshot) \in 0 .. MaxTotal
    <2>1. ASSUME NEW i \in 1 .. Len(p.items)
          PROVE  snapshot[Len(RowsRead(p)) - Len(p.items) + i] \in Offers
      <3> DEFINE Item == [service : Services, milli : Nat \ {0}]
      <3>1. PICK n \in Nat, j \in Int :
              /\ n = Len(p.items) /\ j = Len(RowsRead(p)) - n + i /\ Len(RowsRead(p)) - n \in Nat
              /\ RowsRead(p)[j] = p.items[i].service /\ p.items \in Seq(Item)
        <4>1. /\ Len(p.items) \in Nat /\ Len(RowsRead(p)) - Len(p.items) \in Nat
              /\ p.items \in Seq(Item)
              /\ RowsRead(p)[Len(RowsRead(p)) - Len(p.items) + i] = p.items[i].service
          BY <1>2, ServiceRows
        <4> HIDE DEF Item, p
        <4>2. i \in Int /\ Len(RowsRead(p)) - Len(p.items) + i \in Int
          BY <4>1
        <4> QED BY <4>1, <4>2
      <3>2. p.items[i] \in Item
        <4> HIDE DEF Item
        <4> QED BY <3>1, ElementOfSeq
      <3>3. RowsRead(p)[j] \in Services
        BY <3>1, <3>2
      <3> HIDE DEF Item
      <3>4. i \in Nat /\ 1 <= i /\ i <= n
        BY <3>1
      <3>5. j \in 1 .. Len(RowsRead(p))
        BY <1>4, <3>1, <3>4
      <3>6. catalog[RowsRead(p)[j]] = [content |-> snapshot[j], state |-> "active"]
        BY <1>3, <3>5
      <3>7. catalog[RowsRead(p)[j]].content = snapshot[j]
        BY <3>6
      <3>8. snapshot[j] \in Offers
        BY <3>3, <3>7 DEF Priced
      <3> QED BY <3>1, <3>8
    <2>2. TotalOf(p, snapshot) \in Nat
      BY <1>2, <2>1, TotalIsNat
    <2>3. TotalFits(TotalOf(p, snapshot))
      BY <1>1 DEF Priced
    <2> HIDE DEF p, snapshot
    <2> QED BY <2>2, <2>3, IntakeAssumption DEF TotalFits
  <1> HIDE DEF snapshot
  <1> QED BY <1>1, <1>2, <1>5, <1>6 DEF OrderOf, OrderRow, snapshot

LEMMA RestInit == Init => Rest
  BY IntakeAssumption DEF Init, Rest

LEMMA ReportType ==
  ASSUME Rest, NEW c \in Calls, NEW o \in OrderRow, Report(c, o)
  PROVE  acks' \subseteq [outlet : Outlets, key : Keys, payload : Payloads, order : OrderRow]
  BY CallFields DEF Report, Rest

LEMMA RestNext == Shape /\ ReadsStayCurrent /\ Priced /\ Rest /\ [Next]_vars => Rest'
  <1> SUFFICES ASSUME Shape, ReadsStayCurrent, Priced, Rest, [Next]_vars PROVE Rest'
    OBVIOUS
  <1>1. ASSUME NEW r \in Requests, Commit(r) PROVE Rest'
    <2>1. orders' = orders \cup {OrderOf(r)} /\ tx[r].call \in Calls /\ Report(tx[r].call, OrderOf(r))
      BY <1>1, CommitFacts
    <2>2. OrderOf(r) \in OrderRow
      BY <1>1, OrderOfType
    <2> QED BY <1>1, <2>1, <2>2, ReportType DEF Commit, shop, Rest
  <1>2. ASSUME NEW r \in Requests, Replay(r) PROVE Rest'
    <2>1. PICK o \in orders : Report(tx[r].call, o)
      BY <1>2 DEF Replay, KnownOrders
    <2>2. tx[r].call \in Calls
      BY <1>2 DEF Replay, Shape, WellFormed
    <2>3. o \in OrderRow
      BY DEF Rest
    <2> QED BY <1>2, <2>1, <2>2, <2>3, ReportType DEF Replay, shop, Rest
  <1>3. ASSUME NEW u \in Users, UpdateStaff(u) PROVE Rest'
    BY <1>3 DEF UpdateStaff, Rest, books
  <1>4. ASSUME NEW u \in Users, NEW outlets \in SUBSET Outlets, ReplaceStaffOutlets(u, outlets)
        PROVE  Rest'
    BY <1>4 DEF ReplaceStaffOutlets, Rest, books
  <1>5. ASSUME NEW x \in Outlets, UpdateOutlet(x) PROVE Rest'
    BY <1>5 DEF UpdateOutlet, Rest, books
  <1>6. ASSUME UNCHANGED <<orders, assigned, active, open, acks>> PROVE Rest'
    BY <1>6 DEF Rest
  <1>7. \/ \E r \in Requests : Commit(r) \/ Replay(r)
        \/ \E u \in Users : UpdateStaff(u)
        \/ \E u \in Users : \E outlets \in SUBSET Outlets : ReplaceStaffOutlets(u, outlets)
        \/ \E x \in Outlets : UpdateOutlet(x)
        \/ UNCHANGED <<orders, assigned, active, open, acks>>
    BY DEF Next, Work, Shop, Begin, LockKey, LockOutlet, LockAssignment, LookUpKey, LockCatalogRow,
           AllocateInvoiceNumber, Refuse, Rollback, UpdateService, UpdatePerfume, UpdateCustomer,
           SoftDelete, Rewrite, Tick, vars, books, shop
  <1> QED BY <1>1, <1>2, <1>3, <1>4, <1>5, <1>6, <1>7

\* Every variable has its type; an order's total, in particular, is a number
\* that an int64 holds.
THEOREM TypeCorrect == Spec => []TypeOK
  BY ShapeInit, ShapeNext, CurrentInit, CurrentNext, PricedInit, PricedNext, RestInit, RestNext,
     TypesTogether, PTL DEF Spec
============================================================================
