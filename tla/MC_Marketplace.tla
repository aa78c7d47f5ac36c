--------------------------- MODULE MC_Marketplace ---------------------------
(* Marketplace on small instances.                                           *)
EXTENDS Marketplace

CONSTANTS inv1, buyer1, req1, req2

OneInvoice == [l \in Listings |-> inv1]
=============================================================================
