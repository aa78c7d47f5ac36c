------------------------- MODULE MC_InvoiceCreation -------------------------
(* InvoiceCreation on small instances.                                      *)
EXTENDS InvoiceCreation

CONSTANTS m1, m2, r1, r2, r3, e1

New == [prefix |-> "INV", next |-> 1]

\* The second merchant may be without a profile.
NewOrNone == [m \in Merchants |-> IF m = m1 THEN {New} ELSE {New, NoProfile}]

\* Two requests of the first merchant, one of which may ask for encryption,
\* and one of the second.
TwoAndOne ==
    [r \in Requests |->
      CASE r = r1 -> [merchant : {m1}, privacy : Privacy]
        [] r = r2 -> [merchant : {m1}, privacy : {"plain"}]
        [] r = r3 -> [merchant : {m2}, privacy : {"plain"}]]
=============================================================================
