------------------------------ MODULE Marketplace ------------------------------
(* The marketplace of the server (marketplace-routes.ts, marketplace-cron.ts) *)
(* and of the page of a listing (marketplace-listing.tsx), over the escrow of *)
(* the marketplace program.  The server keeps a row for each listing and, on  *)
(* the invoice, its status and the wallet that is to be paid; the NFT moves   *)
(* on the chain when a wallet signs what the server drew up.  A step here is  *)
(* what a handler does between two awaits.                                    *)
(*                                                                            *)
(* Prices, scores, filters and the requests for access to blind listings are  *)
(* left out: none of them changes a row of a listing.  The cron reads the     *)
(* owner of an NFT some time before it writes, which also covers the answers  *)
(* the DAS client caches.                                                     *)
(*                                                                            *)
(* Where two operators with the same parameters stand one above the other,    *)
(* the first is a fault the second must not have; no action uses it.          *)
EXTENDS Naturals

CONSTANTS
    Invoices,       \* invoices with an NFT, all of one seller
    Listings,       \* the ids of the rows
    InvoiceOf,      \* InvoiceOf[l]: the invoice row l is about
    Seller, Buyers,
    NoKey, InEscrow,
    Requests,       \* requests under way at a time
    MaxFaults,      \* bound: crashes and failed statements
    DirectCallers   \* wallets that call confirm-purchase without the page

Users == {Seller} \union Buyers

ASSUME MarketplaceAssumption ==
    /\ InvoiceOf \in [Listings -> Invoices]
    /\ Seller \notin Buyers
    /\ NoKey \notin Users
    /\ InEscrow \notin Users \union {NoKey}
    /\ MaxFaults \in Nat
    /\ DirectCallers \subseteq Users

VARIABLES
    holder, offer,  \* the chain: who holds an NFT, who offers it in escrow
    toSign,         \* toSign[i]: what the seller may still sign for i
    purchase,       \* purchase[l][b]: what became of b's purchase of l
    row,            \* the table invoice_marketplace
    invoice,        \* the table invoices
    request,        \* request[r]: what is left to do of a request
    expiring,       \* rows checkExpiredListings has still to mark
    todo,           \* rows reconcileActiveListings has still to look at
    found,          \* the owner it read of one of them
    faults,
    held,           \* history: the wallets that ever held the NFT of i
    claims,         \* history: <<l, u>> where u confirmed a purchase of l
                    \*   before it ever held the NFT
    halfSold        \* history: rows whose sale failed between its two writes

chain == <<holder, offer, held>>
clients == <<toSign, purchase>>
tables == <<row, invoice>>
cron == <<expiring, todo, found>>
log == <<faults, claims, halfSold>>
vars == <<chain, clients, tables, request, cron, log>>

Chain == INSTANCE Escrow WITH Assets <- Invoices

Row == [status : {"none", "active", "sold", "cancelled", "expired"},
        late : BOOLEAN,                 \* expiresAt is over
        soldTo : Users \union {NoKey}]
Invoice == [status : {"sent", "listed", "paid"},
            payee : Users \union {NoKey}]   \* nftTransferredTo
Request == [at : {"check", "insert", "mark", "sell", "route", "cancel", "revert"},
            listing : Listings, wallet : Users]
Found == [at : {"row", "invoice"}, listing : Listings, owner : Users \union {NoKey}]

Idle == [at |-> "idle"]

Init ==
    /\ holder = [i \in Invoices |-> Seller]
    /\ offer = [i \in Invoices |-> NoKey]
    /\ held = [i \in Invoices |-> {Seller}]
    /\ toSign = [i \in Invoices |-> {}]
    /\ purchase = [l \in Listings |-> [b \in Buyers |-> "none"]]
    /\ row = [l \in Listings |-> [status |-> "none", late |-> FALSE, soldTo |-> NoKey]]
    /\ invoice = [i \in Invoices |-> [status |-> "sent", payee |-> NoKey]]
    /\ request = [r \in Requests |-> Idle]
    /\ expiring = {} /\ todo = {} /\ found = Idle
    /\ faults = 0
    /\ claims = {} /\ halfSold = {}

Active(l) == row[l].status = "active"
ActiveOf(i) == {l \in Listings : InvoiceOf[l] = i /\ Active(l)}
SetStatus(l, s) == row' = [row EXCEPT ![l].status = s]
Sold(l, w) == row' = [row EXCEPT ![l].status = "sold", ![l].soldTo = w]
MarkInvoice(i, s) == invoice' = [invoice EXCEPT ![i].status = s]
PayTo(i, w) == invoice' = [invoice EXCEPT ![i].payee = w]

At(r, place) == request[r].at = place
Goto(r, place) == request' = [request EXCEPT ![r].at = place]
Begin(r, place, l, w) ==
    /\ At(r, "idle")
    /\ request' = [request EXCEPT ![r] = [at |-> place, listing |-> l, wallet |-> w]]
End(r) == request' = [request EXCEPT ![r] = Idle]

-----------------------------------------------------------------------------
(* POST /list: the seller lists an invoice.                                   *)

\* A row that no request has the id of.
Unused(l) ==
    /\ row[l].status = "none"
    /\ \A r \in Requests : ~At(r, "idle") => request[r].listing # l

\* The invoice is read; it has to be sent.
ListRead(r, l) ==
    /\ Unused(l)
    /\ invoice[InvoiceOf[l]].status = "sent"
    /\ Begin(r, "check", l, Seller)
    /\ UNCHANGED <<chain, clients, tables, cron, log>>

\* "Invoice is already listed on marketplace"
ListCheck(r) ==
    /\ At(r, "check")
    /\ IF ActiveOf(InvoiceOf[request[r].listing]) = {} THEN Goto(r, "insert") ELSE End(r)
    /\ UNCHANGED <<chain, clients, tables, cron, log>>

ListInsert(r) ==
    /\ At(r, "insert")
    /\ SetStatus(request[r].listing, "active")
    /\ Goto(r, "mark")
    /\ UNCHANGED <<chain, clients, invoice, cron, log>>

ListMark(r) ==
    LET i == InvoiceOf[request[r].listing]
    IN  /\ At(r, "mark")
        /\ MarkInvoice(i, "listed")
        /\ toSign' = [toSign EXCEPT ![i] = @ \union {"list"}]
        /\ End(r)
        /\ UNCHANGED <<chain, purchase, row, cron, log>>

-----------------------------------------------------------------------------
(* DELETE /listings/:id: the seller cancels a listing.                        *)

CancelRead(r, l) ==
    /\ Active(l)
    /\ Begin(r, "cancel", l, Seller)
    /\ UNCHANGED <<chain, clients, tables, cron, log>>

\* The row is written by its id, whatever became of it since.
CancelRow(r) ==
    /\ At(r, "cancel")
    /\ SetStatus(request[r].listing, "cancelled")
    /\ Goto(r, "revert")
    /\ UNCHANGED <<chain, clients, invoice, cron, log>>

CancelRevert(r) ==
    LET i == InvoiceOf[request[r].listing]
    IN  /\ At(r, "revert")
        /\ MarkInvoice(i, "sent")
        /\ toSign' = [toSign EXCEPT ![i] = @ \union {"cancel"}]
        /\ End(r)
        /\ UNCHANGED <<chain, purchase, row, cron, log>>

-----------------------------------------------------------------------------
(* POST /purchase and /confirm-purchase, and the page that calls them.        *)

\* The page shows active listings; a failed purchase can be tried again.
Purchase(l, b) ==
    /\ Active(l)
    /\ purchase[l][b] \in {"none", "failed"}
    /\ purchase' = [purchase EXCEPT ![l][b] = "sent"]
    /\ UNCHANGED <<chain, toSign, tables, request, cron, log>>

\* The page waits for the transaction, whatever comes of it; the endpoint takes
\* the word of any wallet that is signed in.
MayConfirm(l, u) ==
    \/ u \in DirectCallers
    \/ u \in Buyers /\ purchase[l][u] \in {"landed", "failed"}

\* A signature is refused only if its status is known, and an error: nothing
\* ties it to the listing, whose status is not looked at either.
ConfirmRead(r, l, u) ==
    /\ row[l].status # "none"
    /\ MayConfirm(l, u)
    /\ Begin(r, "sell", l, u)
    /\ claims' = IF u \in held[InvoiceOf[l]] THEN claims ELSE claims \union {<<l, u>>}
    /\ UNCHANGED <<chain, clients, tables, cron, faults, halfSold>>

\* Fault: the invoice is left as it is.
ConfirmRowOnly(r) ==
    /\ At(r, "sell")
    /\ Sold(request[r].listing, request[r].wallet)
    /\ End(r)
    /\ UNCHANGED <<chain, clients, invoice, cron, log>>

ConfirmRow(r) ==
    /\ At(r, "sell")
    /\ Sold(request[r].listing, request[r].wallet)
    /\ Goto(r, "route")
    /\ UNCHANGED <<chain, clients, invoice, cron, log>>

ConfirmRoute(r) ==
    /\ At(r, "route")
    /\ PayTo(InvoiceOf[request[r].listing], request[r].wallet)
    /\ End(r)
    /\ UNCHANGED <<chain, clients, row, cron, log>>

-----------------------------------------------------------------------------
(* The chain, and a payment of the invoice.                                   *)

Moved == held' = [i \in Invoices |-> held[i] \union ({holder'[i]} \intersect Users)]

ListLands(i) ==
    /\ "list" \in toSign[i]
    /\ Chain!Offer(i, Seller) /\ Moved
    /\ toSign' = [toSign EXCEPT ![i] = @ \ {"list"}]
    /\ UNCHANGED <<purchase, tables, request, cron, log>>

CancelLands(i) ==
    /\ "cancel" \in toSign[i]
    /\ Chain!Withdraw(i) /\ Moved
    /\ toSign' = [toSign EXCEPT ![i] = @ \ {"cancel"}]
    /\ UNCHANGED <<purchase, tables, request, cron, log>>

\* The seller does not sign, or the transaction fails.
SellerLapses(i, t) ==
    /\ t \in toSign[i]
    /\ toSign' = [toSign EXCEPT ![i] = @ \ {t}]
    /\ UNCHANGED <<chain, purchase, tables, request, cron, log>>

PurchaseLands(l, b) ==
    /\ purchase[l][b] = "sent"
    /\ Chain!Sell(InvoiceOf[l], b) /\ Moved
    /\ purchase' = [purchase EXCEPT ![l][b] = "landed"]
    /\ UNCHANGED <<toSign, tables, request, cron, log>>

PurchaseFails(l, b) ==
    /\ purchase[l][b] = "sent"
    /\ purchase' = [purchase EXCEPT ![l][b] = "failed"]
    /\ UNCHANGED <<chain, toSign, tables, request, cron, log>>

\* A wallet gives an NFT away.
Give(i, u, v) ==
    /\ Chain!Give(i, u, v) /\ Moved
    /\ UNCHANGED <<clients, tables, request, cron, log>>

\* The customer pays: one active listing of the invoice is cancelled.
SettleInvoice(i) ==
    /\ invoice[i].status # "paid"
    /\ MarkInvoice(i, "paid")
    /\ \/ \E l \in ActiveOf(i) : SetStatus(l, "cancelled")
       \/ ActiveOf(i) = {} /\ UNCHANGED row
    /\ UNCHANGED <<chain, clients, request, cron, log>>

-----------------------------------------------------------------------------
(* checkExpiredListings                                                       *)

\* expiresAt passes.
GetsLate(l) ==
    /\ Active(l) /\ ~row[l].late
    /\ row' = [row EXCEPT ![l].late = TRUE]
    /\ UNCHANGED <<chain, clients, invoice, request, cron, log>>

\* Fault: a listing without a purchase under way only.
OverdueUnlessSought == {l \in Listings : Active(l) /\ row[l].late
                          /\ \A b \in Buyers : purchase[l][b] = "none"}

Overdue == {l \in Listings : Active(l) /\ row[l].late}

ExpireSelect ==
    /\ expiring = {} /\ Overdue # {}
    /\ expiring' = Overdue
    /\ UNCHANGED <<chain, clients, tables, request, todo, found, log>>

\* By the id, whatever became of the row since; the invoice stays 'listed'.
ExpireOne(l) ==
    /\ l \in expiring
    /\ SetStatus(l, "expired")
    /\ expiring' = expiring \ {l}
    /\ UNCHANGED <<chain, clients, invoice, request, todo, found, log>>

ExpireNext == ExpireSelect \/ \E l \in Listings : ExpireOne(l)

-----------------------------------------------------------------------------
(* reconcileActiveListings                                                    *)

ReconcileSelect ==
    /\ todo = {} /\ found = Idle
    /\ todo' = {l \in Listings : Active(l)}
    /\ todo' # {}
    /\ UNCHANGED <<chain, clients, tables, request, expiring, found, log>>

\* Fault: an NFT its seller still holds is taken for one on its way.
HasLeftFor(owner) == owner \notin {InEscrow, Seller}

\* Fault: who holds the NFT is not looked at.
HasLeftAnyway(owner) == TRUE

\* The NFT is not with the PDA of the listing.
HasLeft(owner) == owner # InEscrow

ReconcileRead(l) ==
    /\ l \in todo /\ found = Idle
    /\ todo' = todo \ {l}
    /\ LET owner == holder[InvoiceOf[l]]
       IN  found' = IF HasLeft(owner)
                    THEN [at |-> "row", listing |-> l, owner |-> owner]
                    ELSE Idle
    /\ UNCHANGED <<chain, clients, tables, request, expiring, log>>

ReconcileRow ==
    /\ found.at = "row"
    /\ IF found.owner = Seller
       THEN SetStatus(found.listing, "cancelled")
       ELSE Sold(found.listing, found.owner)
    /\ found' = [found EXCEPT !.at = "invoice"]
    /\ UNCHANGED <<chain, clients, invoice, request, expiring, todo, log>>

ReconcileInvoice ==
    /\ found.at = "invoice"
    /\ IF found.owner = Seller
       THEN MarkInvoice(InvoiceOf[found.listing], "sent")
       ELSE PayTo(InvoiceOf[found.listing], found.owner)
    /\ found' = Idle
    /\ UNCHANGED <<chain, clients, row, request, expiring, todo, log>>

ReconcileNext ==
    \/ ReconcileSelect \/ ReconcileRow \/ ReconcileInvoice
    \/ \E l \in Listings : ReconcileRead(l)

-----------------------------------------------------------------------------
(* Failures.                                                                  *)

Fault == faults < MaxFaults /\ faults' = faults + 1 /\ UNCHANGED claims

\* The rows r and the cron have marked as sold, with the invoice still to do.
HalfDone(r) == {l \in Listings : At(r, "route") /\ request[r].listing = l}
HalfFound == {l \in Listings : /\ found.at = "invoice" /\ found.owner # Seller
                               /\ found.listing = l}

\* A statement or a call of a request fails: the rest of it is not done.
RequestFails(r) ==
    /\ Fault
    /\ ~At(r, "idle") /\ End(r)
    /\ halfSold' = halfSold \union HalfDone(r)
    /\ UNCHANGED <<chain, clients, tables, cron>>

\* The same in the cron, which goes on with the next listing.
ExpireFails(l) ==
    /\ Fault
    /\ l \in expiring /\ expiring' = expiring \ {l}
    /\ UNCHANGED <<chain, clients, tables, request, todo, found, halfSold>>

ReconcileFails ==
    /\ Fault
    /\ found # Idle /\ found' = Idle
    /\ halfSold' = halfSold \union HalfFound
    /\ UNCHANGED <<chain, clients, tables, request, expiring, todo>>

GetAssetFails(l) ==
    /\ Fault
    /\ l \in todo /\ found = Idle
    /\ todo' = todo \ {l}
    /\ UNCHANGED <<chain, clients, tables, request, expiring, found, halfSold>>

\* The server stops; its first cycle comes after the restart.
Crash ==
    /\ Fault
    /\ request' = [r \in Requests |-> Idle]
    /\ expiring' = {} /\ todo' = {} /\ found' = Idle
    /\ halfSold' = halfSold \union HalfFound \union UNION {HalfDone(r) : r \in Requests}
    /\ UNCHANGED <<chain, clients, tables>>

-----------------------------------------------------------------------------

RequestNext(r) ==
    \/ ListCheck(r) \/ ListInsert(r) \/ ListMark(r)
    \/ CancelRow(r) \/ CancelRevert(r)
    \/ ConfirmRow(r) \/ ConfirmRoute(r)

Next ==
    \/ \E r \in Requests :
         \/ RequestNext(r) \/ RequestFails(r)
         \/ \E l \in Listings :
              \/ ListRead(r, l) \/ CancelRead(r, l)
              \/ \E u \in Users : ConfirmRead(r, l, u)
    \/ \E l \in Listings :
         \/ GetsLate(l) \/ ExpireFails(l) \/ GetAssetFails(l)
         \/ \E b \in Buyers : Purchase(l, b) \/ PurchaseLands(l, b) \/ PurchaseFails(l, b)
    \/ \E i \in Invoices :
         \/ ListLands(i) \/ CancelLands(i) \/ SettleInvoice(i)
         \/ \E t \in {"list", "cancel"} : SellerLapses(i, t)
         \/ \E u \in Users, v \in Users : Give(i, u, v)
    \/ ExpireNext \/ ReconcileNext \/ ReconcileFails \/ Crash

\* The two jobs of the cron run again and again, each from end to end.
Fairness == WF_vars(ExpireNext) /\ WF_vars(ReconcileNext)

Spec == Init /\ [][Next]_vars
FairSpec == Spec /\ Fairness

-----------------------------------------------------------------------------
(* Properties.                                                                *)

MarketType ==
    /\ holder \in [Invoices -> Users \union {NoKey, InEscrow}]
    /\ offer \in [Invoices -> Users \union {NoKey}]
    /\ held \in [Invoices -> SUBSET Users]
    /\ toSign \in [Invoices -> SUBSET {"list", "cancel"}]
    /\ purchase \in [Listings -> [Buyers -> {"none", "sent", "landed", "failed"}]]
    /\ row \in [Listings -> Row]
    /\ invoice \in [Invoices -> Invoice]
    /\ request \in [Requests -> Request \union {Idle}]
    /\ expiring \in SUBSET Listings
    /\ todo \in SUBSET Listings
    /\ found \in Found \union {Idle}
    /\ faults \in 0 .. MaxFaults
    /\ claims \subseteq Listings \X Users
    /\ halfSold \subseteq Listings

\* Whoever a listing is recorded as sold to, and whoever is to be paid for an
\* invoice in the seller's place, has held its NFT, or has itself said that it
\* bought it: confirm-purchase takes a wallet's word, for that wallet only, and
\* the cron writes nobody down whom the NFT never came to, however long ago it
\* read the chain.
Vouched(l, u) == u \in held[InvoiceOf[l]] \/ <<l, u>> \in claims
HeldByPayee ==
    /\ \A l \in Listings : row[l].soldTo # NoKey => Vouched(l, row[l].soldTo)
    /\ \A i \in Invoices : invoice[i].payee # NoKey =>
         \E l \in Listings : InvoiceOf[l] = i /\ Vouched(l, invoice[i].payee)

\* Somebody is about to write the wallet of a buyer to the invoice of l.
Routing(l) ==
    \/ \E r \in Requests : l \in HalfDone(r)
    \/ l \in HalfFound

\* The row and the invoice are written by two statements.  A row that is sold has
\* an invoice that is paid to a buyer, or is about to be, unless something failed
\* just between the two: no order of confirmations, cancellations and cron runs,
\* and no failure anywhere else, undoes it.
SoldIsRouted ==
    \A l \in Listings :
        row[l].status = "sold" =>
            \/ invoice[InvoiceOf[l]].payee # NoKey
            \/ Routing(l)
            \/ l \in halfSold

\* No NFT goes into escrow before the server has a row for the listing: what
\* the seller signs comes with the answer, after the insert.
EscrowIsRecorded ==
    \A i \in Invoices :
        holder[i] = InEscrow \/ "list" \in toSign[i] =>
            \E l \in Listings : InvoiceOf[l] = i /\ row[l].status # "none"

\* A listing the seller never signed, withdrew elsewhere, or that was bought
\* without a confirmation does not stay active.
Reconciled ==
    \A l \in Listings :
        (Active(l) /\ holder[InvoiceOf[l]] # InEscrow) ~>
            (~Active(l) \/ holder[InvoiceOf[l]] = InEscrow)

\* A listing that is over does not stay active.
ExpiredIsDelisted ==
    \A l \in Listings : (Active(l) /\ row[l].late) ~> ~Active(l)
=============================================================================
