------------------------ MODULE MC_MarketplaceProgram ------------------------
(* MarketplaceProgram, and with it ArciumMxe, on small instances.            *)
EXTENDS MarketplaceProgram, TLC

CONSTANTS user1, user2, pda1, inv1, inv2, sub1, tree1

OneTree == [i \in Invoices |-> tree1]
OneBuyer == [u \in Users |-> IF u = user1 THEN 100 ELSE 0]
TwoInvoices == Permutations({inv1, inv2})
ItsPda == [t \in Trees |-> pda1]

=============================================================================
