------------------------- MODULE MC_WebhookDelivery -------------------------
(* WebhookDelivery on small instances.                                      *)
EXTENDS WebhookDelivery

CONSTANTS h1, h2, e1, p1, p2

OneHook == {h1}
NoneOfThem == {}
OneEvent == {e1}
TwoPasses == {p1, p2}

=============================================================================
