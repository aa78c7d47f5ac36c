---------------------------- MODULE MC_NftService ----------------------------
(* NftService on small instances.                                           *)
EXTENDS NftService

CONSTANTS boot, timer, i1, i2, m1, m2

\* A new installation, and one that was on another network.
NewOrForeign == {[tree |-> a, collection |-> a] : a \in {NoAddress, Foreign}}

\* Another network: before it had a collection, and after.
OtherNetwork == {[tree |-> Foreign, collection |-> a] : a \in {NoAddress, Foreign}}
=============================================================================
