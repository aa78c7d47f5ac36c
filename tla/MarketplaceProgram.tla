-------------------------- MODULE MarketplaceProgram --------------------------
(* The marketplace program (marketplace-program/src) over the invoice        *)
(* accounts of ArciumMxe, the compressed NFTs of Bubblegum and a currency of *)
(* SPL tokens.  A listing is an account of its own, found by the Merkle tree *)
(* of the NFT; it takes the NFT into its custody and the invoice account     *)
(* under a lock.  A transaction runs all of its calls or none.               *)
(*                                                                           *)
(* An invoice account and its NFT have one address here: list_invoice checks *)
(* that they belong together.  The other two instructions do not compare the *)
(* account they are given with the listing, so it is a parameter of its own; *)
(* one that is given none fails whole.  The currency is one.                 *)
(*                                                                           *)
(* Where two operators with the same parameters stand one above the other,   *)
(* the first is a fault the second must not have; no action uses it.         *)
EXTENDS ArciumMxe

CONSTANTS
    Trees,
    TreeOf,     \* TreeOf[i]: the Merkle tree of the NFT of invoice i
    PdaOf,      \* PdaOf[t]: the address of the listing of t
    NoListing,
    Prices,
    Treasury,   \* TREASURY_WALLET
    Purse       \* what the wallets have at first

Listing == [seller : Users, price : Nat, asset : Invoices]

ASSUME MarketAssumption ==
    /\ TreeOf \in [Invoices -> Trees]
    /\ PdaOf \in [Trees -> Pdas]
    /\ \A t, u \in Trees : PdaOf[t] = PdaOf[u] => t = u
    /\ NoListing \notin Listing
    /\ Prices \subseteq Nat
    /\ Treasury \in Users
    /\ Purse \in [Users -> Nat]

VARIABLES
    leaf,       \* leaf[i]: who owns the NFT of i
    listing,    \* listing[t]: the listing of tree t
    tokens      \* the token accounts

vars == <<accounts, clock, leaf, listing, tokens>>

Init ==
    /\ MxeInit
    /\ leaf = [i \in Invoices |-> NoKey]
    /\ listing = [t \in Trees |-> NoListing]
    /\ tokens = Purse

Pda(i) == PdaOf[TreeOf[i]]

-----------------------------------------------------------------------------
(* What other programs do.                                                   *)

\* The platform mints the NFT of an invoice to a wallet.
MintLeaf(i, to) ==
    /\ leaf[i] = NoKey
    /\ invoice[i].status # "None"
    /\ leaf' = [leaf EXCEPT ![i] = to]
    /\ UNCHANGED <<accounts, clock, listing, tokens>>

\* A wallet gives its NFT to another wallet.
TransferLeaf(i, from, to) ==
    /\ leaf[i] = from
    /\ leaf' = [leaf EXCEPT ![i] = to]
    /\ UNCHANGED <<accounts, clock, listing, tokens>>

Pay(purse, from, to, n) ==
    LET less == [purse EXCEPT ![from] = purse[from] - n]
    IN [less EXCEPT ![to] = less[to] + n]

-----------------------------------------------------------------------------
(* The instructions.                                                         *)

\* Fault: the listing is of the asset, in a tree with other listings.
NotListedYet(i) ==
    listing[TreeOf[i]] # NoListing => listing[TreeOf[i]].asset # i

\* The listing account is new.
Free(i) == listing[TreeOf[i]] = NoListing

ListInvoice(i, seller, price) ==
    /\ Free(i)
    /\ listing' = [listing EXCEPT ![TreeOf[i]] =
                     [seller |-> seller, price |-> price, asset |-> i]]
    /\ leaf[i] = seller
    /\ leaf' = [leaf EXCEPT ![i] = Pda(i)]
    /\ LockInvoice(i, seller, Pda(i))
    /\ UNCHANGED <<clock, tokens>>

\* Of whatever leaf of the tree the caller names, only one the listing owns
\* can move; of whatever account, the MXE program asks that it be unlocked by
\* its owner.
CancelListing(i, account, seller) ==
    /\ listing[TreeOf[i]] # NoListing
    /\ listing[TreeOf[i]].seller = seller
    /\ listing' = [listing EXCEPT ![TreeOf[i]] = NoListing]
    /\ leaf[i] = Pda(i)
    /\ leaf' = [leaf EXCEPT ![i] = seller]
    /\ UnlockInvoice(account, seller)
    /\ UNCHANGED <<clock, tokens>>

\* Fault: the fee comes on top of the price.
FeeOnTop(purse, buyer, l) ==
    Pay(Pay(purse, buyer, l.seller, l.price), buyer, Treasury, l.price \div 100)

\* The price, of which the treasury has one percent.
Proceeds(purse, buyer, l) ==
    LET fee == l.price \div 100
    IN Pay(Pay(purse, buyer, l.seller, l.price - fee), buyer, Treasury, fee)

\* The account that goes to the buyer is one that the listing's key may transfer.
BuyInvoice(i, account, buyer) ==
    LET l == listing[TreeOf[i]]
    IN /\ l # NoListing
       /\ tokens[buyer] >= l.price
       /\ tokens' = Proceeds(tokens, buyer, l)
       /\ leaf[i] = Pda(i)
       /\ leaf' = [leaf EXCEPT ![i] = buyer]
       /\ CompleteTransfer(account, Pda(i), buyer)
       /\ listing' = [listing EXCEPT ![TreeOf[i]] = NoListing]
       /\ UNCHANGED clock

Next ==
    \/ MxeNext /\ UNCHANGED <<leaf, listing, tokens>>
    \/ \E i \in Invoices :
         \/ \E u \in Users :
              \/ MintLeaf(i, u)
              \/ \E a \in Invoices : CancelListing(i, a, u) \/ BuyInvoice(i, a, u)
              \/ \E p \in Prices : ListInvoice(i, u, p)
              \/ \E v \in Users : TransferLeaf(i, u, v)

Spec == Init /\ [][Next]_vars

-----------------------------------------------------------------------------
(* Properties.                                                               *)

TypeOK ==
    /\ MxeTypeOK
    /\ leaf \in [Invoices -> Keys \cup {NoKey}]
    /\ listing \in [Trees -> Listing \cup {NoListing}]
    /\ tokens \in [Users -> Nat]

\* A listing has the custody of the NFT it is about, and of no other of its
\* tree, whatever leaf a transaction names.
CustodyIsListed ==
    \A i \in Invoices :
      leaf[i] \in Pdas <=>
        /\ listing[TreeOf[i]] # NoListing
        /\ listing[TreeOf[i]].asset = i
        /\ leaf[i] = Pda(i)

\* Whatever leaf and account a transaction names, a listing ends with the NFT it
\* is about back at the seller and nothing paid, or at a buyer who paid no more
\* than the price, of which the seller got all but the fee; nobody else pays.
\* Which invoice account goes with the NFT is up to who ends the listing.
SoldForThePrice ==
    [][\A t \in Trees :
         LET l == listing[t]
             b == leaf'[l.asset]
         IN listing[t] # NoListing /\ listing'[t] = NoListing =>
              \/ b = l.seller /\ tokens' = tokens
              \/ /\ tokens[b] - tokens'[b] <= l.price
                 /\ \A u \in Users \ {b} : tokens'[u] >= tokens[u]
                 /\ b # l.seller =>
                      tokens'[l.seller] >=
                        tokens[l.seller] + l.price - l.price \div 100]_vars

Custody ==
    INSTANCE Escrow WITH
      Assets <- Invoices,
      InEscrow <- "escrow",
      holder <- [i \in Invoices |->
                   IF leaf[i] \in Pdas THEN "escrow" ELSE leaf[i]],
      offer <- [i \in Invoices |->
                  IF leaf[i] \in Pdas /\ listing[TreeOf[i]] # NoListing
                  THEN listing[TreeOf[i]].seller ELSE NoKey]

\* The program holds the NFTs in escrow, as Escrow promises.
ImplementsEscrow == Custody!Spec

-----------------------------------------------------------------------------
(* The inductive invariant.                                                  *)

\* A listing is of an asset of its tree.
ListingInv ==
    \A t \in Trees : listing[t] # NoListing => TreeOf[listing[t].asset] = t

ProgramInv ==
    /\ TypeOK
    /\ MxeInv
    /\ ListingInv
    /\ CustodyIsListed
===============================================================================
