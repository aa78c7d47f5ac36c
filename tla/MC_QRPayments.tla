---------------------------- MODULE MC_QRPayments ----------------------------
(* QRPayments on small instances.                                           *)
EXTENDS QRPayments

CONSTANTS i1, i2, s1, s2, p1, p2, o1

TwoInvoices == {i1, i2}
TwoSigs == {s1, s2}
TwoPasses == {p1, p2}
OneOther == {o1}
\* A payment of 999 is enough for the one invoice, and not for the other.
OneIsMore == [i \in Invoices |-> IF i = i1 THEN 1000 ELSE 1400]
=============================================================================
