---------------------------- MODULE InvoiceBook ----------------------------
(***************************************************************************)
(* What order intake promises, without transactions, locks or counters:    *)
(* every outlet has a book per day whose n-th entry carries the invoice    *)
(* number n.  A book is only ever written at its end, one entry at a time, *)
(* and no Idempotency-Key has two entries in the books of an outlet.       *)
(***************************************************************************)
EXTENDS Naturals, Sequences

CONSTANTS Outlets, Days, Keys, Payloads

VARIABLE book

UsedIn(x, k) ==
  \E d \in Days : \E n \in DOMAIN book[<<x, d>>] : book[<<x, d>>][n].key = k

Init == book = [xd \in Outlets \X Days |-> <<>>]

Enter(x, d, k, p) ==
  /\ ~ UsedIn(x, k)
  /\ book' = [book EXCEPT ![<<x, d>>] = Append(@, [key |-> k, payload |-> p])]

Next ==
  \E x \in Outlets, d \in Days, k \in Keys, p \in Payloads : Enter(x, d, k, p)

Spec == Init /\ [][Next]_book
============================================================================
