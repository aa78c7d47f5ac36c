------------------------------- MODULE Renewals -------------------------------
(* What automatic billing promises: the periods of a subscription are billed *)
(* one after another, each one once and none left out.  The promise to a     *)
(* subscription ends when an invoice of its is minted by hand.               *)
EXTENDS Naturals

CONSTANTS
    Subs,
    Length,     \* Length[s]: the days of a renewed period
    NoDay

VARIABLES
    due,        \* due[s]: the end of the first period that has no invoice
    billed,     \* billed[s]: the ends of the periods that have one
    byHand      \* byHand[s]: was an invoice minted by hand?

vars == <<due, billed, byHand>>

Init ==
    /\ due = [s \in Subs |-> NoDay]
    /\ billed = [s \in Subs |-> {}]
    /\ byHand = [s \in Subs |-> FALSE]

Subscribe(s) ==
    /\ due[s] = NoDay
    /\ due'[s] \in Nat
    /\ billed'[s] = billed[s]

Bill(s) ==
    /\ due[s] # NoDay
    /\ billed'[s] = billed[s] \cup {due[s]}
    /\ due'[s] = due[s] + Length[s]

\* A subscription that nobody confirmed is dropped before its first bill.
Abandon(s) ==
    /\ billed[s] = {}
    /\ billed'[s] = {}
    /\ due'[s] = NoDay

Rest(s) == due'[s] = due[s] /\ billed'[s] = billed[s]

Next ==
    \A s \in Subs :
      \/ byHand'[s]
      \/ /\ ~byHand[s]
         /\ Subscribe(s) \/ Bill(s) \/ Abandon(s) \/ Rest(s)

Spec == Init /\ [][Next]_vars
=============================================================================
