--------------------------- MODULE MCOrderIntake ---------------------------
(***************************************************************************)
(* Small instances of OrderIntake for TLC.                                 *)
(***************************************************************************)
EXTENDS OrderIntake, TLC

CONSTANTS r1, r2, x1, x2, adm, staff, k1, k2, c1, f1, s1, n1, n2

Kg(price) == [unit |-> "kg", price |-> price]
Pcs(price) == [unit |-> "pcs", price |-> price]
OneOffer == {Kg(1)}
ThreeOffers == {Kg(1), Kg(3), Pcs(3)}

Line(milli) == [service |-> s1, milli |-> milli]
Order(perfume, due, items) ==
  [customer |-> c1, perfume |-> perfume, due |-> due, items |-> items]

\* One kilogram; two kilograms wanted at once.
Plain == Order("NULL", {}, <<Line(1000)>>)
Urgent == Order("NULL", {0}, <<Line(2000)>>)
PlainAndUrgent == {Plain, Urgent}
\* One and a half and two, perfumed, priced line by line.
PerfumedLines == {Order(f1, {}, <<Line(1500), Line(2000)>>)}

OutletAndNameSymmetry == Permutations({x1, x2}) \cup Permutations({n1, n2})

============================================================================
