------------------------------- MODULE Escrow -------------------------------
(* What the marketplace program promises of an NFT: it is in the hands of a  *)
(* wallet, or in escrow under an offer, from which it goes back to who made  *)
(* the offer or on to who took it.                                           *)

CONSTANTS Assets, Users, NoKey, InEscrow

VARIABLES
    holder,     \* holder[a]: a wallet, InEscrow, or NoKey before the mint
    offer       \* offer[a]: who offers it, or NoKey

vars == <<holder, offer>>

Init ==
    /\ holder = [a \in Assets |-> NoKey]
    /\ offer = [a \in Assets |-> NoKey]

Mint(a, u) ==
    /\ holder[a] = NoKey
    /\ holder' = [holder EXCEPT ![a] = u]
    /\ UNCHANGED offer

Give(a, u, v) ==
    /\ holder[a] = u
    /\ holder' = [holder EXCEPT ![a] = v]
    /\ UNCHANGED offer

Offer(a, u) ==
    /\ holder[a] = u
    /\ holder' = [holder EXCEPT ![a] = InEscrow]
    /\ offer' = [offer EXCEPT ![a] = u]

\* An offer ends with the NFT, in the hands of the seller or of a buyer.
Close(a, u) ==
    /\ holder[a] = InEscrow
    /\ holder' = [holder EXCEPT ![a] = u]
    /\ offer' = [offer EXCEPT ![a] = NoKey]

Withdraw(a) == Close(a, offer[a])
Sell(a, u) == Close(a, u)

Next ==
    \E a \in Assets :
      \/ Withdraw(a)
      \/ \E u \in Users :
           \/ Mint(a, u)
           \/ Offer(a, u)
           \/ Sell(a, u)
           \/ \E v \in Users : Give(a, u, v)

Spec == Init /\ [][Next]_vars
=============================================================================
