---------------------------- MODULE OrderAccount ----------------------------
(***************************************************************************)
(* What the order workflow and the payment ledger promise, without         *)
(* transactions, locks or receipts: every order is an account that         *)
(* advances through its stages, may be cancelled while nothing is paid on  *)
(* it, is credited up to its total and debited down to nothing, each in a  *)
(* single step that also brings its standing up to date.                   *)
(***************************************************************************)
EXTENDS Integers

CONSTANTS Orders, MaxAmount

VARIABLE account  \* per order: its stage, its total, what is paid and its standing

\* The workflow of the order: RECEIVED, PROCESSING, READY_FOR_PICKUP, COMPLETED.
NextStage ==
  [RECEIVED |-> "PROCESSING", PROCESSING |-> "READY_FOR_PICKUP",
   READY_FOR_PICKUP |-> "COMPLETED"]

UnderWay(a) == a.stage \in DOMAIN NextStage

Standing(total, paid) ==
  IF paid = 0 THEN "UNPAID" ELSE IF paid < total THEN "PARTIALLY_PAID" ELSE "PAID"

Opened(total) ==
  [stage |-> "RECEIVED", total |-> total, paid |-> 0, standing |-> Standing(total, 0)]

Init == \E total \in [Orders -> 0 .. MaxAmount] : account = [o \in Orders |-> Opened(total[o])]

Advance(o) ==
  /\ UnderWay(account[o])
  /\ account' = [account EXCEPT ![o].stage = NextStage[@]]

Cancel(o) ==
  /\ UnderWay(account[o])
  /\ account[o].paid = 0
  /\ account' = [account EXCEPT ![o].stage = "CANCELLED"]

SetPaid(o, paid) ==
  account' = [account EXCEPT ![o] =
                [@ EXCEPT !.paid = paid, !.standing = Standing(account[o].total, paid)]]

Credit(o) ==
  /\ account[o].stage # "CANCELLED"
  /\ \E paid \in account[o].paid + 1 .. account[o].total : SetPaid(o, paid)

Debit(o) ==
  \E paid \in 0 .. account[o].paid - 1 : SetPaid(o, paid)

Next == \E o \in Orders : Advance(o) \/ Cancel(o) \/ Credit(o) \/ Debit(o)

Spec == Init /\ [][Next]_account
============================================================================
