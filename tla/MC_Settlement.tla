---------------------------- MODULE MC_Settlement ----------------------------
(* Settlement on small instances.  The amounts are those of an invoice of   *)
(* 1 USDC: a subtotal of 10^6 atomic units and a platform fee of 1%.        *)
EXTENDS Settlement, TLC

CONSTANTS r1, r2, r3, s1, s2, i1, i2, c1, c2, p1, p2

TwoRequests == {r1, r2}
ThreeRequests == {r1, r2, r3}
RequestSymmetry == Permutations({r1, r2, r3})
OneInvoice == {i1}
OneSig == {s1}
TwoSigs == {s1, s2}

ToFirst == [i \in Invoices |-> c1]
OneUSDC == [i \in Invoices |-> 1000000]
OnePercent == [i \in Invoices |-> 10000]
WithFee == [i \in Invoices |-> 1010000]

\* A discount that equals the platform fee: the total is the subtotal.
Discounted == OneUSDC

FullAmount == {1010000}
HalfAmount == {505000}
Halves == {505000, 500000}
None == {}

\* The transaction the shipped client builds (pay-invoice.tsx): the subtotal
\* to the payee, the fees to the treasury.
ShippedClient == {[toPayee |-> 1000000, toTreasury |-> 160000]}
\* ... and one that falls short of it by less than the tolerance.
NearlyFull == ShippedClient \cup {[toPayee |-> 1000060, toTreasury |-> 160000]}
=============================================================================
