------------------------ MODULE MC_SubscriptionBilling ------------------------
(* SubscriptionBilling on small instances.                                   *)
EXTENDS SubscriptionBilling, TLC

CONSTANTS sub1, cycle1, cycle2, req1, req2

TwoCycles == {cycle1, cycle2}
TwoRequests == {req1, req2}

Weekly == [s \in Subs |-> "weekly"]
Single == [s \in Subs |-> 1]

===============================================================================
