---------------------------- MODULE MarketProofs ----------------------------
(* Theorems about Marketplace, for any set of invoices, rows, buyers and     *)
(* requests: whoever is written down as a payee held the NFT or said so, a   *)
(* sale is routed unless its second write failed, and an NFT in escrow has a *)
(* row.                                                                      *)
EXTENDS Marketplace, TLAPS

USE MarketplaceAssumption
USE DEF Users

-----------------------------------------------------------------------------
(* What the statements and the steps of a request write.                     *)

Statuses == {"none", "active", "sold", "cancelled", "expired"}

LEMMA SetStatusWrites ==
  ASSUME row \in [Listings -> Row], NEW l \in Listings, NEW s \in Statuses,
         SetStatus(l, s)
  PROVE  /\ row' \in [Listings -> Row]
         /\ row'[l].status = s /\ row'[l].soldTo = row[l].soldTo
         /\ \A k \in Listings \ {l} : row'[k] = row[k]
BY DEF SetStatus, Row, Statuses

LEMMA SoldWrites ==
  ASSUME row \in [Listings -> Row], NEW l \in Listings, NEW w \in Users \union {NoKey},
         Sold(l, w)
  PROVE  /\ row' \in [Listings -> Row]
         /\ row'[l].status = "sold" /\ row'[l].soldTo = w
         /\ \A k \in Listings \ {l} : row'[k] = row[k]
BY DEF Sold, Row

LEMMA LateWrites ==
  ASSUME row \in [Listings -> Row], NEW l \in Listings, GetsLate(l)
  PROVE  /\ row' \in [Listings -> Row]
         /\ \A k \in Listings : /\ row'[k].status = row[k].status
                               /\ row'[k].soldTo = row[k].soldTo
<1>1. row' = [row EXCEPT ![l].late = TRUE]
  BY DEF GetsLate
<1> QED
  BY <1>1 DEF Row

LEMMA MarkWrites ==
  ASSUME invoice \in [Invoices -> Invoice], NEW i \in Invoices,
         NEW s \in {"sent", "listed", "paid"}, MarkInvoice(i, s)
  PROVE  /\ invoice' \in [Invoices -> Invoice]
         /\ \A j \in Invoices : invoice'[j].payee = invoice[j].payee
BY DEF MarkInvoice, Invoice

LEMMA PayWrites ==
  ASSUME invoice \in [Invoices -> Invoice], NEW i \in Invoices,
         NEW w \in Users \union {NoKey}, PayTo(i, w)
  PROVE  /\ invoice' \in [Invoices -> Invoice]
         /\ invoice'[i].payee = w
         /\ \A j \in Invoices \ {i} : invoice'[j] = invoice[j]
BY DEF PayTo, Invoice

Requested == [Requests -> Request \union {Idle}]

LEMMA BeginWrites ==
  ASSUME request \in Requested, NEW r \in Requests, NEW l \in Listings,
         NEW w \in Users, NEW p \in {"check", "sell", "cancel"}, Begin(r, p, l, w)
  PROVE  /\ request' \in Requested
         /\ request'[r] = [at |-> p, listing |-> l, wallet |-> w]
         /\ request[r].at = "idle"
         /\ \A q \in Requests \ {r} : request'[q] = request[q]
BY DEF Begin, At, Requested, Request, Idle

Places == {"check", "insert", "mark", "sell", "route", "cancel", "revert"}

LEMMA AtPlace ==
  ASSUME request \in Requested, NEW r \in Requests, NEW p \in Places, At(r, p)
  PROVE  /\ request[r] \in Request
         /\ request[r].listing \in Listings /\ request[r].wallet \in Users
         /\ InvoiceOf[request[r].listing] \in Invoices
BY DEF At, Requested, Request, Idle, Places

LEMMA GotoWrites ==
  ASSUME request \in Requested, NEW r \in Requests, NEW p \in Places,
         NEW q \in Places, At(r, p), Goto(r, q)
  PROVE  /\ request' \in Requested
         /\ request'[r].at = q
         /\ request'[r].listing = request[r].listing
         /\ request'[r].wallet = request[r].wallet
         /\ \A s \in Requests \ {r} : request'[s] = request[s]
BY AtPlace DEF Goto, Requested, Request, Places

LEMMA EndWrites ==
  ASSUME request \in Requested, NEW r \in Requests, End(r)
  PROVE  /\ request' \in Requested
         /\ request'[r].at = "idle"
         /\ \A s \in Requests \ {r} : request'[s] = request[s]
BY DEF End, Requested, Idle

LEMMA FoundOne ==
  ASSUME found \in Found \union {Idle}, found.at \in {"row", "invoice"}
  PROVE  /\ found \in Found
         /\ found.listing \in Listings /\ InvoiceOf[found.listing] \in Invoices
         /\ found.owner \in Users \union {NoKey}
BY DEF Found, Idle

-----------------------------------------------------------------------------
(* Types.                                                                    *)

LEMMA InitType == Init => MarketType
BY DEF Init, MarketType, Row, Invoice, Request, Found, Idle

LEMMA TypeStep ==
  ASSUME MarketType, [Next]_vars
  PROVE  MarketType'
<1> USE DEF MarketType, Requested, Places, Statuses
<1>1. CASE UNCHANGED vars
  BY <1>1 DEF vars, chain, clients, tables, cron, log
<1>2. ASSUME NEW r \in Requests, ListCheck(r) PROVE MarketType'
  BY <1>2, AtPlace, GotoWrites, EndWrites DEF ListCheck, chain, clients, tables, cron, log
<1>3. ASSUME NEW r \in Requests, ListInsert(r) PROVE MarketType'
  BY <1>3, AtPlace, GotoWrites, SetStatusWrites DEF ListInsert, chain, clients, tables, cron, log
<1>4. ASSUME NEW r \in Requests, ListMark(r) PROVE MarketType'
  BY <1>4, AtPlace, EndWrites, MarkWrites DEF ListMark, chain, clients, tables, cron, log
<1>5. ASSUME NEW r \in Requests, CancelRow(r) PROVE MarketType'
  BY <1>5, AtPlace, GotoWrites, SetStatusWrites DEF CancelRow, chain, clients, tables, cron, log
<1>6. ASSUME NEW r \in Requests, CancelRevert(r) PROVE MarketType'
  BY <1>6, AtPlace, EndWrites, MarkWrites DEF CancelRevert, chain, clients, tables, cron, log
<1>7. ASSUME NEW r \in Requests, ConfirmRow(r) PROVE MarketType'
  BY <1>7, AtPlace, GotoWrites, SoldWrites DEF ConfirmRow, chain, clients, tables, cron, log
<1>8. ASSUME NEW r \in Requests, ConfirmRoute(r) PROVE MarketType'
  BY <1>8, AtPlace, EndWrites, PayWrites DEF ConfirmRoute, chain, clients, tables, cron, log
<1>9. ASSUME NEW r \in Requests, RequestFails(r) PROVE MarketType'
  BY <1>9, EndWrites DEF RequestFails, HalfDone, Fault, chain, clients, tables, cron, log
<1>10. ASSUME NEW r \in Requests, NEW l \in Listings, ListRead(r, l) PROVE MarketType'
  BY <1>10, BeginWrites DEF ListRead, chain, clients, tables, cron, log
<1>11. ASSUME NEW r \in Requests, NEW l \in Listings, CancelRead(r, l) PROVE MarketType'
  BY <1>11, BeginWrites DEF CancelRead, chain, clients, tables, cron, log
<1>12. ASSUME NEW r \in Requests, NEW l \in Listings, NEW u \in Users, ConfirmRead(r, l, u) PROVE MarketType'
  <2>1. claims' \subseteq Listings \X Users
    BY <1>12 DEF ConfirmRead
  <2>2. request' \in Requested
    BY <1>12, BeginWrites DEF ConfirmRead
  <2> QED
    BY <1>12, <2>1, <2>2 DEF ConfirmRead, chain, clients, tables, cron
<1>13. ASSUME NEW l \in Listings, GetsLate(l) PROVE MarketType'
  BY <1>13, LateWrites DEF GetsLate, chain, clients, tables, cron, log
<1>14. ASSUME NEW l \in Listings, ExpireFails(l) PROVE MarketType'
  BY <1>14 DEF ExpireFails, Fault, chain, clients, tables, cron, log
<1>15. ASSUME NEW l \in Listings, GetAssetFails(l) PROVE MarketType'
  BY <1>15 DEF GetAssetFails, Fault, chain, clients, tables, cron, log
<1>16. ASSUME NEW l \in Listings, NEW b \in Buyers, Purchase(l, b) PROVE MarketType'
  BY <1>16 DEF Purchase, chain, clients, tables, cron, log
<1>17. ASSUME NEW l \in Listings, NEW b \in Buyers, PurchaseLands(l, b) PROVE MarketType'
  BY <1>17 DEF PurchaseLands, Moved, Chain!Sell, Chain!Close, chain, clients, tables, cron, log
<1>18. ASSUME NEW l \in Listings, NEW b \in Buyers, PurchaseFails(l, b) PROVE MarketType'
  BY <1>18 DEF PurchaseFails, chain, clients, tables, cron, log
<1>19. ASSUME NEW i \in Invoices, ListLands(i) PROVE MarketType'
  BY <1>19 DEF ListLands, Moved, Chain!Offer, chain, clients, tables, cron, log
<1>20. ASSUME NEW i \in Invoices, CancelLands(i) PROVE MarketType'
  BY <1>20 DEF CancelLands, Moved, Chain!Withdraw, Chain!Close, chain, clients, tables, cron, log
<1>21. ASSUME NEW i \in Invoices, SettleInvoice(i) PROVE MarketType'
  BY <1>21, MarkWrites, SetStatusWrites DEF SettleInvoice, ActiveOf, chain, clients, tables, cron, log
<1>22. ASSUME NEW i \in Invoices, NEW t \in {"list", "cancel"}, SellerLapses(i, t) PROVE MarketType'
  BY <1>22 DEF SellerLapses, chain, clients, tables, cron, log
<1>23. ASSUME NEW i \in Invoices, NEW u \in Users, NEW v \in Users, Give(i, u, v) PROVE MarketType'
  BY <1>23 DEF Give, Moved, Chain!Give, chain, clients, tables, cron, log
<1>24. ASSUME ExpireSelect PROVE MarketType'
  BY <1>24 DEF ExpireSelect, Overdue, chain, clients, tables, cron, log
<1>25. ASSUME NEW l \in Listings, ExpireOne(l) PROVE MarketType'
  BY <1>25, SetStatusWrites DEF ExpireOne, chain, clients, tables, cron, log
<1>26. ASSUME ReconcileSelect PROVE MarketType'
  BY <1>26 DEF ReconcileSelect, chain, clients, tables, cron, log
<1>27. ASSUME ReconcileRow PROVE MarketType'
  BY <1>27, FoundOne, SetStatusWrites, SoldWrites DEF ReconcileRow, chain, clients, tables, cron, log, Found, Idle
<1>28. ASSUME ReconcileInvoice PROVE MarketType'
  BY <1>28, FoundOne, MarkWrites, PayWrites DEF ReconcileInvoice, chain, clients, tables, cron, log, Idle
<1>29. ASSUME NEW l \in Listings, ReconcileRead(l) PROVE MarketType'
  BY <1>29 DEF ReconcileRead, HasLeft, chain, clients, tables, cron, log, Found, Idle
<1>30. ASSUME ReconcileFails PROVE MarketType'
  BY <1>30 DEF ReconcileFails, HalfFound, Fault, chain, clients, tables, cron, log, Idle
<1>31. ASSUME Crash PROVE MarketType'
  BY <1>31 DEF Crash, HalfDone, HalfFound, Fault, chain, clients, tables, cron, log, Idle, Request
<1> QED
  BY <1>1, <1>2, <1>3, <1>4, <1>5, <1>6, <1>7, <1>8, <1>9, <1>10, <1>11, <1>12, <1>13, <1>14, <1>15,
     <1>16, <1>17, <1>18, <1>19, <1>20, <1>21, <1>22, <1>23, <1>24, <1>25, <1>26, <1>27, <1>28, <1>29, <1>30, <1>31
     DEF Next, RequestNext, ExpireNext, ReconcileNext

-----------------------------------------------------------------------------
(* Which action writes what.                                                 *)

LEMMA WritesRow ==
  ASSUME [Next]_vars
  PROVE  \/ UNCHANGED row
         \/ \E r \in Requests : ListInsert(r) \/ CancelRow(r) \/ ConfirmRow(r)
         \/ \E l \in Listings : GetsLate(l) \/ ExpireOne(l)
         \/ \E i \in Invoices : SettleInvoice(i)
         \/ ReconcileRow
<1> USE DEF tables
<1> QED
  BY DEF Next, RequestNext, ExpireNext, ReconcileNext, vars, ListCheck, ListMark,
       CancelRevert, ConfirmRoute, RequestFails, ListRead, CancelRead,
       ConfirmRead, ExpireFails, GetAssetFails, Purchase, PurchaseLands,
       PurchaseFails, ListLands, CancelLands, SellerLapses, Give, ExpireSelect,
       ReconcileSelect, ReconcileInvoice, ReconcileRead, ReconcileFails, Crash

LEMMA WritesInvoice ==
  ASSUME [Next]_vars
  PROVE  \/ UNCHANGED invoice
         \/ \E r \in Requests : ListMark(r) \/ CancelRevert(r) \/ ConfirmRoute(r)
         \/ \E i \in Invoices : SettleInvoice(i)
         \/ ReconcileInvoice
<1> USE DEF tables
<1> QED
  BY DEF Next, RequestNext, ExpireNext, ReconcileNext, vars, ListCheck,
       ListInsert, CancelRow, ConfirmRow, RequestFails, ListRead, CancelRead,
       ConfirmRead, GetsLate, ExpireFails, GetAssetFails, Purchase,
       PurchaseLands, PurchaseFails, ListLands, CancelLands, SellerLapses,
       Give, ExpireSelect, ExpireOne, ReconcileSelect, ReconcileRow,
       ReconcileRead, ReconcileFails, Crash

LEMMA WritesRequest ==
  ASSUME [Next]_vars
  PROVE  \/ UNCHANGED request
         \/ \E r \in Requests : RequestNext(r) \/ RequestFails(r)
         \/ \E r \in Requests, l \in Listings : ListRead(r, l) \/ CancelRead(r, l)
         \/ \E r \in Requests, l \in Listings, u \in Users : ConfirmRead(r, l, u)
         \/ Crash
BY DEF Next, RequestNext, ExpireNext, ReconcileNext, vars, GetsLate,
       ExpireFails, GetAssetFails, Purchase, PurchaseLands, PurchaseFails,
       ListLands, CancelLands, SettleInvoice, SellerLapses, Give, ExpireSelect,
       ExpireOne, ReconcileSelect, ReconcileRow, ReconcileInvoice,
       ReconcileRead, ReconcileFails

LEMMA MovesNfts ==
  ASSUME [Next]_vars
  PROVE  \/ UNCHANGED chain
         \/ \E i \in Invoices : ListLands(i) \/ CancelLands(i)
         \/ \E l \in Listings, b \in Buyers : PurchaseLands(l, b)
         \/ \E i \in Invoices, u \in Users, v \in Users : Give(i, u, v)
BY DEF Next, RequestNext, ExpireNext, ReconcileNext, vars, ListCheck,
       ListInsert, ListMark, CancelRow, CancelRevert, ConfirmRow, ConfirmRoute,
       RequestFails, ListRead, CancelRead, ConfirmRead, GetsLate, ExpireFails,
       GetAssetFails, Purchase, PurchaseFails, SettleInvoice, SellerLapses,
       ExpireSelect, ExpireOne, ReconcileSelect, ReconcileRow,
       ReconcileInvoice, ReconcileRead, ReconcileFails, Crash

LEMMA HistoryGrows ==
  ASSUME [Next]_vars
  PROVE  claims \subseteq claims' /\ halfSold \subseteq halfSold'
<1> USE DEF log
<1> QED
  BY DEF Next, RequestNext, ExpireNext, ReconcileNext, vars, Fault, ListCheck,
       ListInsert, ListMark, CancelRow, CancelRevert, ConfirmRow, ConfirmRoute,
       RequestFails, ListRead, CancelRead, ConfirmRead, GetsLate, ExpireFails,
       GetAssetFails, Purchase, PurchaseLands, PurchaseFails, ListLands,
       CancelLands, SettleInvoice, SellerLapses, Give, ExpireSelect, ExpireOne,
       ReconcileSelect, ReconcileRow, ReconcileInvoice, ReconcileRead,
       ReconcileFails, Crash

LEMMA Finds ==
  ASSUME [Next]_vars
  PROVE  \/ UNCHANGED found
         \/ \E l \in Listings : ReconcileRead(l)
         \/ ReconcileRow \/ ReconcileInvoice
         \/ ReconcileFails \/ Crash
<1> USE DEF cron
<1> QED
  BY DEF Next, RequestNext, ExpireNext, ReconcileNext, vars, ListCheck,
       ListInsert, ListMark, CancelRow, CancelRevert, ConfirmRow, ConfirmRoute,
       RequestFails, ListRead, CancelRead, ConfirmRead, GetsLate, ExpireFails,
       GetAssetFails, Purchase, PurchaseLands, PurchaseFails, ListLands,
       CancelLands, SettleInvoice, SellerLapses, Give, ExpireSelect, ExpireOne,
       ReconcileSelect

-----------------------------------------------------------------------------
(* Who held an NFT.                                                          *)

\* An NFT is with a wallet that held it, or on offer.
ChainInv ==
    \A i \in Invoices :
        /\ holder[i] \in held[i] \union {InEscrow}
        /\ holder[i] = InEscrow => offer[i] \in Users

\* The wallet a request is about to write down held the NFT or said so,
ToldInv ==
    \A r \in Requests :
        request[r].at \in {"sell", "route"} =>
            Vouched(request[r].listing, request[r].wallet)

\* and the one the cron found did hold it.
FoundInv == found # Idle => found.owner \in held[InvoiceOf[found.listing]]

HeldInv == MarketType /\ ChainInv /\ ToldInv /\ FoundInv /\ HeldByPayee

LEMMA InitHeld == Init => HeldInv
BY InitType DEF Init, HeldInv, ChainInv, ToldInv, FoundInv, HeldByPayee, Idle

\* A wallet that held an NFT goes on having held it.
LEMMA ChainStep ==
  ASSUME MarketType, ChainInv, [Next]_vars
  PROVE  ChainInv' /\ \A i \in Invoices : held[i] \subseteq held'[i]
<1>1. /\ holder \in [Invoices -> Users \union {NoKey, InEscrow}]
      /\ offer \in [Invoices -> Users \union {NoKey}]
      /\ held \in [Invoices -> SUBSET Users]
  BY DEF MarketType
<1>2. CASE UNCHANGED chain
  BY <1>2 DEF ChainInv, chain
<1>3. ASSUME NEW i \in Invoices, NEW h \in Users \union {InEscrow},
             NEW o \in Users \union {NoKey}, h = InEscrow => o \in Users,
             holder' = [holder EXCEPT ![i] = h],
             \/ offer' = [offer EXCEPT ![i] = o]
             \/ offer' = offer /\ h # InEscrow,
             Moved
      PROVE  ChainInv' /\ \A j \in Invoices : held[j] \subseteq held'[j]
  BY <1>1, <1>3 DEF ChainInv, Moved
<1>4. ASSUME NEW i \in Invoices, ListLands(i)
      PROVE  ChainInv' /\ \A j \in Invoices : held[j] \subseteq held'[j]
  <2>1. /\ holder' = [holder EXCEPT ![i] = InEscrow]
        /\ offer' = [offer EXCEPT ![i] = Seller]
        /\ Moved
    BY <1>4 DEF ListLands, Chain!Offer
  <2> QED
    BY <1>1, <2>1 DEF ChainInv, Moved
<1>5. ASSUME NEW i \in Invoices, CancelLands(i)
      PROVE  ChainInv' /\ \A j \in Invoices : held[j] \subseteq held'[j]
  <2>1. offer[i] \in Users
    BY <1>5 DEF CancelLands, Chain!Withdraw, Chain!Close, ChainInv
  <2> QED
    BY <1>3, <1>5, <2>1 DEF CancelLands, Chain!Withdraw, Chain!Close
<1>6. ASSUME NEW l \in Listings, NEW b \in Buyers, PurchaseLands(l, b)
      PROVE  ChainInv' /\ \A j \in Invoices : held[j] \subseteq held'[j]
  BY <1>3, <1>6 DEF PurchaseLands, Chain!Sell, Chain!Close
<1>7. ASSUME NEW i \in Invoices, NEW u \in Users, NEW v \in Users, Give(i, u, v)
      PROVE  ChainInv' /\ \A j \in Invoices : held[j] \subseteq held'[j]
  BY <1>3, <1>7 DEF Give, Chain!Give
<1> QED
  BY MovesNfts, <1>2, <1>4, <1>5, <1>6, <1>7

\* What a wallet was once entitled to, it is entitled to for good.
LEMMA VouchedStays ==
  ASSUME MarketType, ChainInv, [Next]_vars, NEW l \in Listings, NEW u \in Users,
         Vouched(l, u)
  PROVE  Vouched(l, u)'
BY ChainStep, HistoryGrows DEF Vouched

LEMMA ToldStep ==
  ASSUME HeldInv, [Next]_vars
  PROVE  ToldInv'
<1>1. /\ request \in Requested /\ ToldInv
      /\ \A l \in Listings, u \in Users : Vouched(l, u) => Vouched(l, u)'
  BY VouchedStays DEF HeldInv, MarketType, Requested
<1>2. CASE UNCHANGED request
  BY <1>1, <1>2, AtPlace DEF ToldInv, At, Places
<1>3. ASSUME NEW r \in Requests, RequestNext(r)
      PROVE  /\ request'[r].at \in {"sell", "route"} =>
                  Vouched(request[r].listing, request[r].wallet)'
             /\ \A q \in Requests \ {r} : request'[q] = request[q]
  <2>1. \/ \E p, q \in Places : At(r, p) /\ Goto(r, q) /\ (q = "route" => p = "sell")
                                /\ q # "sell"
        \/ End(r)
    BY <1>3 DEF RequestNext, ListCheck, ListInsert, ListMark, CancelRow,
         CancelRevert, ConfirmRow, ConfirmRoute, Places
  <2>2. CASE End(r)
    BY <1>1, <2>2, EndWrites
  <2>3. ASSUME NEW p \in Places, NEW q \in Places, At(r, p), Goto(r, q),
               q = "route" => p = "sell", q # "sell"
        PROVE  /\ request'[r].at \in {"sell", "route"} =>
                    Vouched(request[r].listing, request[r].wallet)'
               /\ \A s \in Requests \ {r} : request'[s] = request[s]
    BY <1>1, <2>3, GotoWrites, AtPlace DEF ToldInv, At
  <2> QED
    BY <2>1, <2>2, <2>3
<1>4. ASSUME NEW r \in Requests, RequestNext(r)
      PROVE  ToldInv'
  BY <1>1, <1>3, <1>4, AtPlace DEF ToldInv, At, Places
<1>5. ASSUME NEW r \in Requests, RequestFails(r)
      PROVE  ToldInv'
  BY <1>1, <1>5, EndWrites, AtPlace DEF ToldInv, RequestFails, At, Places
<1>6. ASSUME NEW r \in Requests, NEW l \in Listings, ListRead(r, l) \/ CancelRead(r, l)
      PROVE  ToldInv'
  <2>1. PICK p \in {"check", "sell", "cancel"} : p # "sell" /\ Begin(r, p, l, Seller)
    BY <1>6 DEF ListRead, CancelRead
  <2>2. /\ request'[r].at \notin {"sell", "route"}
        /\ \A q \in Requests \ {r} : request'[q] = request[q]
    BY <1>1, <2>1 DEF Begin, Requested
  <2> QED
    BY <1>1, <2>2, AtPlace DEF ToldInv, At, Places
<1>7. ASSUME NEW r \in Requests, NEW l \in Listings, NEW u \in Users, ConfirmRead(r, l, u)
      PROVE  ToldInv'
  <2>1. Vouched(l, u)'
    <3>1. CASE u \in held[InvoiceOf[l]]
      BY <1>1, <3>1 DEF Vouched
    <3>2. CASE u \notin held[InvoiceOf[l]]
      BY <1>7, <3>2 DEF ConfirmRead, Vouched
    <3> QED
      BY <3>1, <3>2
  <2>2. /\ request'[r] = [at |-> "sell", listing |-> l, wallet |-> u]
        /\ \A q \in Requests \ {r} : request'[q] = request[q]
    BY <1>1, <1>7 DEF ConfirmRead, Begin, Requested
  <2> QED
    BY <1>1, <2>1, <2>2, AtPlace DEF ToldInv, At, Places
<1>8. CASE Crash
  BY <1>8 DEF Crash, ToldInv, Idle
<1> QED
  BY WritesRequest, <1>2, <1>4, <1>5, <1>6, <1>7, <1>8

LEMMA FoundStep ==
  ASSUME HeldInv, [Next]_vars
  PROVE  FoundInv'
<1>1. /\ found \in Found \union {Idle} /\ FoundInv /\ ChainInv
      /\ \A i \in Invoices : held[i] \subseteq held'[i]
  BY ChainStep DEF HeldInv, MarketType
<1>2. found # Idle => found.at \in {"row", "invoice"}
  BY <1>1 DEF Found
<1>3. CASE UNCHANGED found
  BY <1>1, <1>2, <1>3, FoundOne DEF FoundInv
<1>4. ASSUME NEW l \in Listings, ReconcileRead(l)
      PROVE  FoundInv'
  BY <1>1, <1>4 DEF ReconcileRead, HasLeft, FoundInv, ChainInv
<1>5. CASE ReconcileRow
  <2>1. found \in Found /\ found # Idle
    BY <1>1, <1>5, FoundOne DEF ReconcileRow, Idle
  <2>2. found'.owner = found.owner /\ found'.listing = found.listing
    BY <2>1, <1>5 DEF ReconcileRow, Found
  <2> QED
    BY <1>1, <1>2, <2>1, <2>2, FoundOne DEF FoundInv
<1> QED
  BY Finds, <1>3, <1>4, <1>5 DEF FoundInv, ReconcileInvoice, ReconcileFails, Crash

\* A wallet that a listing of i vouches for.
BuyerOf(i, w) == \E l \in Listings : InvoiceOf[l] = i /\ Vouched(l, w)

LEMMA HeldByPayeeStep ==
  ASSUME HeldInv, [Next]_vars
  PROVE  HeldByPayee'
<1>1. /\ row \in [Listings -> Row] /\ invoice \in [Invoices -> Invoice]
      /\ request \in Requested /\ found \in Found \union {Idle}
      /\ HeldByPayee /\ ToldInv /\ FoundInv
      /\ \A l \in Listings, u \in Users : Vouched(l, u) => Vouched(l, u)'
  BY VouchedStays DEF HeldInv, MarketType, Requested
<1>2. found.at \in {"row", "invoice"} =>
        /\ Vouched(found.listing, found.owner)
        /\ found.listing \in Listings
        /\ found.owner \in Users \union {NoKey}
  BY <1>1, FoundOne DEF FoundInv, Idle, Vouched
<1>3. \A l \in Listings :
        \/ row'[l].soldTo \in {NoKey, row[l].soldTo}
        \/ Vouched(l, row'[l].soldTo)
  <2>1. CASE UNCHANGED row
    BY <2>1
  <2>2. ASSUME NEW k \in Listings, NEW s \in Statuses, SetStatus(k, s)
        PROVE  \A l \in Listings : row'[l].soldTo = row[l].soldTo
    BY <1>1, <2>2, SetStatusWrites
  <2>3. ASSUME NEW k \in Listings, NEW w \in Users \union {NoKey}, Sold(k, w),
               Vouched(k, w)
        PROVE  \A l \in Listings :
                 \/ row'[l].soldTo \in {NoKey, row[l].soldTo}
                 \/ Vouched(l, row'[l].soldTo)
    BY <1>1, <2>3, SoldWrites
  <2>4. ASSUME NEW r \in Requests, ListInsert(r) \/ CancelRow(r)
        PROVE  \A l \in Listings :
                 \/ row'[l].soldTo \in {NoKey, row[l].soldTo}
                 \/ Vouched(l, row'[l].soldTo)
    <3>1. request[r].listing \in Listings
      BY <1>1, <2>4, AtPlace DEF ListInsert, CancelRow, Places
    <3> QED
      BY <2>2, <2>4, <3>1 DEF ListInsert, CancelRow, Statuses
  <2>5. ASSUME NEW r \in Requests, ConfirmRow(r)
        PROVE  \A l \in Listings :
                 \/ row'[l].soldTo \in {NoKey, row[l].soldTo}
                 \/ Vouched(l, row'[l].soldTo)
    <3>1. request[r].listing \in Listings /\ request[r].wallet \in Users
      BY <1>1, <2>5, AtPlace DEF ConfirmRow, Places
    <3>2. Vouched(request[r].listing, request[r].wallet)
      BY <1>1, <2>5 DEF ConfirmRow, ToldInv, At
    <3> QED
      BY <2>3, <2>5, <3>1, <3>2 DEF ConfirmRow
  <2>6. ASSUME NEW k \in Listings, GetsLate(k)
        PROVE  \A l \in Listings :
                 \/ row'[l].soldTo \in {NoKey, row[l].soldTo}
                 \/ Vouched(l, row'[l].soldTo)
    BY <1>1, <2>6, LateWrites
  <2>7. ASSUME NEW k \in Listings, ExpireOne(k)
        PROVE  \A l \in Listings :
                 \/ row'[l].soldTo \in {NoKey, row[l].soldTo}
                 \/ Vouched(l, row'[l].soldTo)
    BY <2>2, <2>7 DEF ExpireOne, Statuses
  <2>8. ASSUME NEW i \in Invoices, SettleInvoice(i)
        PROVE  \A l \in Listings :
                 \/ row'[l].soldTo \in {NoKey, row[l].soldTo}
                 \/ Vouched(l, row'[l].soldTo)
    BY <2>2, <2>8 DEF SettleInvoice, ActiveOf, Statuses
  <2>9. CASE ReconcileRow
    BY <1>2, <2>2, <2>3, <2>9 DEF ReconcileRow, Statuses
  <2> QED
    BY WritesRow, <2>1, <2>4, <2>5, <2>6, <2>7, <2>8, <2>9
<1>4. \A i \in Invoices :
        \/ invoice'[i].payee \in {NoKey, invoice[i].payee}
        \/ BuyerOf(i, invoice'[i].payee)
  <2>1. CASE UNCHANGED invoice
    BY <2>1
  <2>2. ASSUME NEW j \in Invoices, NEW s \in {"sent", "listed", "paid"}, MarkInvoice(j, s)
        PROVE  \A i \in Invoices : invoice'[i].payee = invoice[i].payee
    BY <1>1, <2>2, MarkWrites
  <2>3. ASSUME NEW j \in Invoices, NEW w \in Users \union {NoKey}, PayTo(j, w), BuyerOf(j, w)
        PROVE  \A i \in Invoices :
                 \/ invoice'[i].payee \in {NoKey, invoice[i].payee}
                 \/ BuyerOf(i, invoice'[i].payee)
    BY <1>1, <2>3, PayWrites
  <2>4. ASSUME NEW r \in Requests, ListMark(r) \/ CancelRevert(r)
        PROVE  \A i \in Invoices :
                 \/ invoice'[i].payee \in {NoKey, invoice[i].payee}
                 \/ BuyerOf(i, invoice'[i].payee)
    <3>1. InvoiceOf[request[r].listing] \in Invoices
      BY <1>1, <2>4, AtPlace DEF ListMark, CancelRevert, Places
    <3> QED
      BY <2>2, <2>4, <3>1 DEF ListMark, CancelRevert
  <2>5. ASSUME NEW r \in Requests, ConfirmRoute(r)
        PROVE  \A i \in Invoices :
                 \/ invoice'[i].payee \in {NoKey, invoice[i].payee}
                 \/ BuyerOf(i, invoice'[i].payee)
    <3>1. InvoiceOf[request[r].listing] \in Invoices /\ request[r].wallet \in Users
      BY <1>1, <2>5, AtPlace DEF ConfirmRoute, Places
    <3>2. Vouched(request[r].listing, request[r].wallet)
      BY <1>1, <2>5 DEF ConfirmRoute, ToldInv, At
    <3> QED
      BY <1>1, <2>3, <2>5, <3>1, <3>2, AtPlace DEF ConfirmRoute, BuyerOf, Places
  <2>6. ASSUME NEW j \in Invoices, SettleInvoice(j)
        PROVE  \A i \in Invoices :
                 \/ invoice'[i].payee \in {NoKey, invoice[i].payee}
                 \/ BuyerOf(i, invoice'[i].payee)
    BY <2>2, <2>6 DEF SettleInvoice
  <2>7. CASE ReconcileInvoice
    BY <1>2, <2>2, <2>3, <2>7 DEF ReconcileInvoice, BuyerOf
  <2> QED
    BY WritesInvoice, <2>1, <2>4, <2>5, <2>6, <2>7
<1> QED
  <2>1. \A l \in Listings : row[l].soldTo \in Users \union {NoKey}
    BY <1>1 DEF Row
  <2>2. \A i \in Invoices : invoice[i].payee \in Users \union {NoKey}
    BY <1>1 DEF Invoice
  <2>3. MarketType'
    BY TypeStep DEF HeldInv
  <2> QED
    BY <1>1, <1>3, <1>4, <2>1, <2>2, <2>3 DEF HeldByPayee, BuyerOf, MarketType, Row, Invoice

LEMMA HeldStep ==
  ASSUME HeldInv, [Next]_vars
  PROVE  HeldInv'
BY TypeStep, ChainStep, ToldStep, FoundStep, HeldByPayeeStep DEF HeldInv

-----------------------------------------------------------------------------
(* Who is paid.                                                              *)

\* An invoice that is paid to a buyer goes on being paid to one.
LEMMA PayeeStays ==
  ASSUME HeldInv, [Next]_vars, NEW i \in Invoices, invoice[i].payee # NoKey
  PROVE  invoice'[i].payee # NoKey
<1>1. /\ invoice \in [Invoices -> Invoice]
      /\ request \in Requested /\ found \in Found \union {Idle}
      /\ FoundInv /\ held \in [Invoices -> SUBSET Users]
  BY DEF HeldInv, MarketType, Requested
<1>2. CASE UNCHANGED invoice
  BY <1>2
<1>3. ASSUME NEW j \in Invoices, NEW s \in {"sent", "listed", "paid"}, MarkInvoice(j, s)
      PROVE  invoice'[i].payee # NoKey
  BY <1>1, <1>3, MarkWrites
<1>4. ASSUME NEW j \in Invoices, NEW w \in Users, PayTo(j, w)
      PROVE  invoice'[i].payee # NoKey
  BY <1>1, <1>4, PayWrites
<1>5. ASSUME NEW r \in Requests, ListMark(r) \/ CancelRevert(r)
      PROVE  invoice'[i].payee # NoKey
  <2>1. InvoiceOf[request[r].listing] \in Invoices
    BY <1>1, <1>5, AtPlace DEF ListMark, CancelRevert, Places
  <2> QED
    BY <1>3, <1>5, <2>1 DEF ListMark, CancelRevert
<1>6. ASSUME NEW r \in Requests, ConfirmRoute(r)
      PROVE  invoice'[i].payee # NoKey
  <2>1. InvoiceOf[request[r].listing] \in Invoices /\ request[r].wallet \in Users
    BY <1>1, <1>6, AtPlace DEF ConfirmRoute, Places
  <2> QED
    BY <1>4, <1>6, <2>1 DEF ConfirmRoute
<1>7. CASE ReconcileInvoice
  <2>1. InvoiceOf[found.listing] \in Invoices /\ found.owner \in Users
    BY <1>1, <1>7, FoundOne DEF ReconcileInvoice, FoundInv, Idle
  <2> QED
    BY <1>3, <1>4, <1>7, <2>1 DEF ReconcileInvoice
<1> QED
  BY WritesInvoice, <1>2, <1>3, <1>5, <1>6, <1>7 DEF SettleInvoice

\* What is about to be routed is routed, unless that fails.
LEMMA RoutingGoesOn ==
  ASSUME HeldInv, [Next]_vars, NEW l \in Listings, Routing(l),
         l \notin halfSold'
  PROVE  Routing(l)' \/ invoice'[InvoiceOf[l]].payee # NoKey
<1>1. /\ invoice \in [Invoices -> Invoice] /\ InvoiceOf[l] \in Invoices
      /\ request \in Requested /\ found \in Found \union {Idle}
      /\ FoundInv /\ held \in [Invoices -> SUBSET Users]
  BY DEF HeldInv, MarketType, Requested
<1>3. ASSUME NEW r \in Requests, At(r, "route"), request[r].listing = l
      PROVE  Routing(l)' \/ invoice'[InvoiceOf[l]].payee # NoKey
  <2>1. CASE request'[r] = request[r]
    BY <1>3, <2>1 DEF Routing, HalfDone, At
  <2>2. CASE ConfirmRoute(r)
    <3>1. request[r].wallet \in Users
      BY <1>1, <1>3, AtPlace DEF Places
    <3> QED
      BY <1>1, <1>3, <2>2, <3>1, PayWrites DEF ConfirmRoute
  <2>3. ASSUME NEW q \in Requests, RequestNext(q), ~ConfirmRoute(r)
        PROVE  request'[r] = request[r]
    <3>1. q # r
      BY <1>3, <2>3 DEF RequestNext, ListCheck, ListInsert, ListMark, CancelRow,
           CancelRevert, ConfirmRow, At
    <3>2. request'[r] = request[r] \/ \E p \in Places, s \in Places : At(q, p) /\ Goto(q, s)
      BY <1>1, <2>3, <3>1, EndWrites DEF RequestNext, ListCheck, ListInsert,
           ListMark, CancelRow, CancelRevert, ConfirmRow, ConfirmRoute, Places
    <3> QED
      BY <1>1, <3>1, <3>2 DEF Goto, Requested
  <2>4. ASSUME NEW q \in Requests, NEW k \in Listings,
               \/ ListRead(q, k) \/ CancelRead(q, k)
               \/ \E u \in Users : ConfirmRead(q, k, u)
        PROVE  request'[r] = request[r]
    BY <1>1, <1>3, <2>4 DEF ListRead, CancelRead, ConfirmRead, Begin, At, Requested
  <2>5. ~Crash /\ ~RequestFails(r)
    BY <1>3 DEF Crash, RequestFails, HalfDone
  <2>6. ASSUME NEW q \in Requests, RequestFails(q)
        PROVE  request'[r] = request[r]
    BY <1>1, <2>5, <2>6, EndWrites DEF RequestFails
  <2> QED
    BY <2>1, <2>2, <2>3, <2>4, <2>5, <2>6, WritesRequest
<1>4. CASE found.at = "invoice" /\ found.owner # Seller /\ found.listing = l
  <2>1. CASE UNCHANGED found
    BY <1>4, <2>1 DEF Routing, HalfFound
  <2>2. CASE ReconcileInvoice
    <3>1. found.owner \in Users
      BY <1>1, <1>4, FoundOne DEF FoundInv, Idle
    <3> QED
      BY <1>1, <1>4, <2>2, <3>1, PayWrites DEF ReconcileInvoice
  <2>3. ~ReconcileRow /\ \A k \in Listings : ~ReconcileRead(k)
    BY <1>4 DEF ReconcileRow, ReconcileRead, Idle
  <2>4. ~ReconcileFails /\ ~Crash
    BY <1>4 DEF ReconcileFails, Crash, HalfFound
  <2> QED
    BY <2>1, <2>2, <2>3, <2>4, Finds
<1> QED
  BY <1>3, <1>4 DEF Routing, HalfDone, HalfFound

\* A row becomes sold when its buyer is about to be routed.
LEMMA SellingRoutes ==
  ASSUME HeldInv, [Next]_vars, NEW l \in Listings,
         row[l].status # "sold", row'[l].status = "sold"
  PROVE  Routing(l)'
<1>1. /\ row \in [Listings -> Row] /\ request \in Requested
      /\ found \in Found \union {Idle}
  BY DEF HeldInv, MarketType, Requested
<1>2. ASSUME NEW k \in Listings, NEW s \in Statuses \ {"sold"}
      PROVE  ~SetStatus(k, s)
  BY <1>1, <1>2, SetStatusWrites DEF Statuses
<1>3. \A k \in Listings, w \in Users \union {NoKey} : Sold(k, w) => k = l
  BY <1>1, SoldWrites
<1>4. ASSUME NEW r \in Requests, ListInsert(r) \/ CancelRow(r)
      PROVE  FALSE
  <2>1. request[r].listing \in Listings
    BY <1>1, <1>4, AtPlace DEF ListInsert, CancelRow, Places
  <2> QED
    BY <1>2, <1>4, <2>1 DEF ListInsert, CancelRow, Statuses
<1>5. ASSUME NEW r \in Requests, ConfirmRow(r)
      PROVE  Routing(l)'
  <2>1. request[r].listing = l
    BY <1>1, <1>3, <1>5, AtPlace DEF ConfirmRow, Places
  <2>2. request'[r].at = "route" /\ request'[r].listing = l
    BY <1>1, <1>5, <2>1, GotoWrites DEF ConfirmRow, Places
  <2> QED
    BY <2>2 DEF Routing, HalfDone, At
<1>6. CASE ReconcileRow
  <2>1. /\ found \in Found /\ found.listing \in Listings
        /\ found.owner \in Users \union {NoKey}
    BY <1>1, <1>6, FoundOne DEF ReconcileRow
  <2>2. found.owner # Seller /\ found.listing = l
    BY <1>2, <1>3, <1>6, <2>1 DEF ReconcileRow, Statuses
  <2>3. found'.at = "invoice" /\ found'.owner # Seller /\ found'.listing = l
    BY <1>6, <2>1, <2>2 DEF ReconcileRow, Found
  <2> QED
    BY <2>3 DEF Routing, HalfFound
<1>7. \A k \in Listings : ~ExpireOne(k) /\ ~GetsLate(k)
  BY <1>1, <1>2, LateWrites DEF ExpireOne, Statuses
<1>8. \A i \in Invoices : ~SettleInvoice(i)
  BY <1>2 DEF SettleInvoice, ActiveOf, Statuses
<1> QED
  BY WritesRow, <1>4, <1>5, <1>6, <1>7, <1>8

LEMMA RoutedStep ==
  ASSUME HeldInv, SoldIsRouted, [Next]_vars
  PROVE  SoldIsRouted'
<1> SUFFICES ASSUME NEW l \in Listings, row'[l].status = "sold", l \notin halfSold'
             PROVE  invoice'[InvoiceOf[l]].payee # NoKey \/ Routing(l)'
  BY DEF SoldIsRouted
<1>1. l \notin halfSold /\ InvoiceOf[l] \in Invoices
  BY HistoryGrows
<1>2. CASE row[l].status = "sold"
  BY <1>1, <1>2, PayeeStays, RoutingGoesOn DEF SoldIsRouted
<1>3. CASE row[l].status # "sold"
  BY <1>3, SellingRoutes
<1> QED
  BY <1>2, <1>3

-----------------------------------------------------------------------------
(* What is in escrow.                                                        *)

\* The seller signs what a request answers after its insert.
RecordedInv ==
    /\ EscrowIsRecorded
    /\ \A r \in Requests :
         request[r].at = "mark" => row[request[r].listing].status # "none"

\* A row stays.
LEMMA RowsStay ==
  ASSUME MarketType, [Next]_vars, NEW l \in Listings, row[l].status # "none"
  PROVE  row'[l].status # "none"
<1>1. /\ row \in [Listings -> Row] /\ request \in Requested
      /\ found \in Found \union {Idle}
  BY DEF MarketType, Requested
<1>2. ASSUME NEW k \in Listings, NEW s \in Statuses \ {"none"}, SetStatus(k, s)
      PROVE  row'[l].status # "none"
  BY <1>1, <1>2, SetStatusWrites DEF Statuses
<1>3. ASSUME NEW k \in Listings, NEW w \in Users \union {NoKey}, Sold(k, w)
      PROVE  row'[l].status # "none"
  BY <1>1, <1>3, SoldWrites
<1>4. ASSUME NEW r \in Requests, ListInsert(r) \/ CancelRow(r) \/ ConfirmRow(r)
      PROVE  row'[l].status # "none"
  <2>1. request[r].listing \in Listings /\ request[r].wallet \in Users
    BY <1>1, <1>4, AtPlace DEF ListInsert, CancelRow, ConfirmRow, Places
  <2> QED
    BY <1>2, <1>3, <1>4, <2>1 DEF ListInsert, CancelRow, ConfirmRow, Statuses
<1>5. ASSUME NEW k \in Listings, GetsLate(k) \/ ExpireOne(k)
      PROVE  row'[l].status # "none"
  BY <1>1, <1>2, <1>5, LateWrites DEF ExpireOne, Statuses
<1>6. ASSUME NEW i \in Invoices, SettleInvoice(i)
      PROVE  row'[l].status # "none"
  BY <1>2, <1>6 DEF SettleInvoice, ActiveOf, Statuses
<1>7. CASE ReconcileRow
  BY <1>1, <1>2, <1>3, <1>7, FoundOne DEF ReconcileRow, Statuses
<1> QED
  BY WritesRow, <1>4, <1>5, <1>6, <1>7

\* A request is about to mark an invoice as listed once its row is in.
LEMMA MarkStep ==
  ASSUME MarketType, RecordedInv, [Next]_vars, NEW r \in Requests,
         request'[r].at = "mark"
  PROVE  row'[request'[r].listing].status # "none"
<1>1. row \in [Listings -> Row] /\ request \in Requested
  BY DEF MarketType, Requested
<1>2. CASE request'[r] = request[r]
  BY <1>1, <1>2, RowsStay, AtPlace DEF RecordedInv, At, Places
<1>3. CASE ListInsert(r)
  <2>1. request[r].listing \in Listings /\ request'[r].listing = request[r].listing
    BY <1>1, <1>3, AtPlace, GotoWrites DEF ListInsert, Places
  <2> QED
    BY <1>1, <1>3, <2>1, SetStatusWrites DEF ListInsert, Statuses
<1>4. ASSUME NEW q \in Requests, RequestNext(q), ~ListInsert(r)
      PROVE  request'[r] = request[r]
  <2>1. CASE End(q)
    BY <1>1, <2>1, EndWrites
  <2>2. ASSUME NEW p \in Places, NEW s \in Places, At(q, p), Goto(q, s), q = r => s # "mark"
        PROVE  request'[r] = request[r]
    BY <1>1, <2>2, GotoWrites
  <2>3. \/ End(q)
        \/ \E p, s \in Places : At(q, p) /\ Goto(q, s) /\ (q = r => s # "mark")
    BY <1>4 DEF RequestNext, ListCheck, ListInsert, ListMark, CancelRow,
         CancelRevert, ConfirmRow, ConfirmRoute, Places
  <2> QED
    BY <2>1, <2>2, <2>3
<1>5. ASSUME NEW q \in Requests, RequestFails(q)
      PROVE  request'[r] = request[r]
  BY <1>1, <1>5, EndWrites DEF RequestFails
<1>6. ASSUME NEW q \in Requests, NEW l \in Listings,
             \/ ListRead(q, l) \/ CancelRead(q, l)
             \/ \E u \in Users : ConfirmRead(q, l, u)
      PROVE  request'[r] = request[r]
  BY <1>1, <1>6 DEF ListRead, CancelRead, ConfirmRead, Begin, Requested
<1> QED
  BY <1>2, <1>3, <1>4, <1>5, <1>6, WritesRequest DEF Crash, Idle

\* What the seller may sign comes from such a request.
LEMMA SignStep ==
  ASSUME MarketType, RecordedInv, [Next]_vars, NEW i \in Invoices,
         holder'[i] = InEscrow \/ "list" \in toSign'[i]
  PROVE  \/ holder[i] = InEscrow \/ "list" \in toSign[i]
         \/ \E r \in Requests : At(r, "mark") /\ InvoiceOf[request[r].listing] = i
<1>1. /\ holder \in [Invoices -> Users \union {NoKey, InEscrow}]
      /\ offer \in [Invoices -> Users \union {NoKey}]
      /\ toSign \in [Invoices -> SUBSET {"list", "cancel"}]
      /\ request \in Requested
  BY DEF MarketType, Requested
<1>2. holder'[i] = InEscrow => holder[i] = InEscrow \/ "list" \in toSign[i]
  <2>1. CASE UNCHANGED chain
    BY <2>1 DEF chain
  <2>2. ASSUME NEW j \in Invoices, ListLands(j)
        PROVE  holder'[i] = InEscrow => holder[i] = InEscrow \/ "list" \in toSign[i]
    BY <1>1, <2>2 DEF ListLands, Chain!Offer
  <2>3. ASSUME NEW j \in Invoices, CancelLands(j)
        PROVE  holder'[i] = InEscrow => holder[i] = InEscrow \/ "list" \in toSign[i]
    BY <1>1, <2>3 DEF CancelLands, Chain!Withdraw, Chain!Close
  <2>4. ASSUME NEW l \in Listings, NEW b \in Buyers, PurchaseLands(l, b)
        PROVE  holder'[i] = InEscrow => holder[i] = InEscrow \/ "list" \in toSign[i]
    BY <1>1, <2>4 DEF PurchaseLands, Chain!Sell, Chain!Close
  <2>5. ASSUME NEW j \in Invoices, NEW u \in Users, NEW v \in Users, Give(j, u, v)
        PROVE  holder'[i] = InEscrow => holder[i] = InEscrow \/ "list" \in toSign[i]
    BY <1>1, <2>5 DEF Give, Chain!Give
  <2> QED
    BY MovesNfts, <2>1, <2>2, <2>3, <2>4, <2>5
<1>3. ASSUME "list" \in toSign'[i], "list" \notin toSign[i]
      PROVE  \E r \in Requests : ListMark(r) /\ InvoiceOf[request[r].listing] = i
  <2>1. toSign' # toSign
    BY <1>3
  <2>2. \A j \in Invoices, t \in {"list", "cancel"} :
          toSign' # [toSign EXCEPT ![j] = @ \ {t}]
    BY <1>1, <1>3
  <2>3. ASSUME NEW r \in Requests, CancelRevert(r)
        PROVE  FALSE
    <3>1. InvoiceOf[request[r].listing] \in Invoices
      BY <1>1, <2>3, AtPlace DEF CancelRevert, Places
    <3> QED
      BY <1>1, <1>3, <2>3, <3>1 DEF CancelRevert
  <2>4. PICK r \in Requests : ListMark(r)
    BY <2>1, <2>2, <2>3 DEF Next, vars, clients, ListCheck, ListInsert, CancelRow,
       ConfirmRow, ConfirmRoute, ListRead, CancelRead, ConfirmRead, GetsLate,
       Purchase, PurchaseLands, PurchaseFails, ListLands, CancelLands,
       SettleInvoice, SellerLapses, Give, ExpireNext, ExpireSelect, ExpireOne,
       ReconcileNext, ReconcileSelect, ReconcileRead, ReconcileRow,
       ReconcileInvoice, RequestNext, RequestFails, ExpireFails,
       ReconcileFails, GetAssetFails, Crash
  <2>5. InvoiceOf[request[r].listing] \in Invoices
    BY <1>1, <2>4, AtPlace DEF ListMark, Places
  <2> QED
    BY <1>1, <1>3, <2>4, <2>5 DEF ListMark
<1> QED
  BY <1>2, <1>3 DEF ListMark

LEMMA RecordedStep ==
  ASSUME MarketType, RecordedInv, [Next]_vars
  PROVE  RecordedInv'
<1>1. request \in Requested
  BY DEF MarketType, Requested
<1>2. ASSUME NEW i \in Invoices, holder'[i] = InEscrow \/ "list" \in toSign'[i]
      PROVE  \E l \in Listings : InvoiceOf[l] = i /\ row'[l].status # "none"
  <2>1. PICK l \in Listings : InvoiceOf[l] = i /\ row[l].status # "none"
    <3>1. CASE holder[i] = InEscrow \/ "list" \in toSign[i]
      BY <3>1 DEF RecordedInv, EscrowIsRecorded
    <3>2. ASSUME NEW r \in Requests, At(r, "mark"), InvoiceOf[request[r].listing] = i
          PROVE  \E l \in Listings : InvoiceOf[l] = i /\ row[l].status # "none"
      BY <1>1, <3>2, AtPlace DEF RecordedInv, At, Places
    <3> QED
      BY <1>2, <3>1, <3>2, SignStep
  <2> QED
    BY <2>1, RowsStay
<1> QED
  BY <1>2, MarkStep DEF RecordedInv, EscrowIsRecorded

-----------------------------------------------------------------------------
(* The theorems.                                                             *)

\* Every variable of the marketplace stays in its type.
THEOREM MarketTypes == Spec => []MarketType
BY InitType, TypeStep, PTL DEF Spec

\* Of HeldByPayee: whoever is written down as buyer or payee held the NFT, or
\* said itself that it bought it.
THEOREM PayeesHeld == Spec => []HeldByPayee
<1>1. HeldInv => HeldByPayee
  BY DEF HeldInv
<1> QED
  BY InitHeld, HeldStep, <1>1, PTL DEF Spec

\* Of SoldIsRouted: the invoice of a sold listing has a payee in the seller's
\* place, or gets one, unless a failure came just between the two writes.
THEOREM SalesAreRouted == Spec => []SoldIsRouted
<1>1. Init => SoldIsRouted
  BY DEF Init, SoldIsRouted
<1> QED
  BY InitHeld, HeldStep, <1>1, RoutedStep, PTL DEF Spec

\* Of EscrowIsRecorded: an NFT in escrow, or about to go there, has a row.
THEOREM EscrowsAreRecorded == Spec => []EscrowIsRecorded
<1>1. Init => RecordedInv
  BY DEF Init, RecordedInv, EscrowIsRecorded, Idle
<1>2. RecordedInv => EscrowIsRecorded
  BY DEF RecordedInv
<1> QED
  BY InitType, TypeStep, <1>1, <1>2, RecordedStep, PTL DEF Spec
=============================================================================
