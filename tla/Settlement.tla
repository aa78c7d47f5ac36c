----------------------------- MODULE Settlement -----------------------------
(***************************************************************************)
(* How an invoice gets paid by a request.  Each request runs step by step, *)
(* one step per await, over the tables it shares with the others:          *)
(*                                                                         *)
(*   POST   /api/payments        server/invoice-routes.ts ("direct" when   *)
(*                               the payment is on chain, "manual" when    *)
(*                               the invoicer records it)                  *)
(*   POST   /payments/relay      server/payment-routes.ts, which goes on   *)
(*                               as confirmPaymentAndMintOutcome in        *)
(*                               server/payment-confirmation-service.ts    *)
(*   PATCH  /api/invoices/:id    server/invoice-routes.ts                  *)
(*   DELETE /api/invoices/:id    server/invoice-routes.ts                  *)
(*   POST   /api/marketplace/list           server/marketplace-routes.ts   *)
(*                                                                         *)
(* Payments by QR code are in QRPayments.  Of the marketplace, what        *)
(* Marketplace says of one sale is here as two writes: the listing is sold *)
(* and, in a statement of its own, the buyer becomes the payee.  What the  *)
(* seller or a cron job does to end a listing is there.                    *)
(*                                                                         *)
(* The database is Postgres at READ COMMITTED.  What the handlers rely on  *)
(* is modelled, and no more: the unique index on payments.tx_signature     *)
(* (claim), SELECT ... FOR UPDATE on an invoice (excl), the FOR KEY SHARE  *)
(* lock which the payments.invoice_id foreign key takes on it (share), and *)
(* the deadlock detector.  A transaction's writes become visible in its    *)
(* last step, which also releases what it holds.                           *)
(*                                                                         *)
(* Amounts are in atomic units of the currency (10^-6 USDC).               *)
(*                                                                         *)
(* Where two operators with the same parameters stand one above the other, *)
(* the first is a fault the second must not have: no action uses it, the   *)
(* runs show that the properties would notice it.                          *)
(***************************************************************************)
EXTENDS Integers, FiniteSets, Functions

CONSTANTS
    Requests,        \* the HTTP requests that may arrive, each at most once
    Invoices,
    Sigs,            \* transaction signatures
    Customers,       \* wallets that may pay
    Payees,          \* wallets that may own an invoice's proceeds
    Buyers,          \* those of them that buy listed invoices
    NoRequest, NoSig, NoTx, NoPayment, NoSnap,   \* "none" of each
    Invoicee,        \* Invoicee[i]: the customer i is addressed to
    Subtotal,        \* Subtotal[i], PlatformFee[i], Total[i]: the columns
    PlatformFee,     \*   the invoice was created with
    Total,
    InitialStatuses, \* the statuses invoices are found in
    GasFee,          \* GAS_FEE_USDC
    Tolerance,       \* the slack of verifyStablecoinPayment
    Endpoints,       \* the kinds of requests that arrive
    DirectAmounts,   \* what a customer may pay directly
    ManualAmounts,   \* what an invoicer may record by hand
    RelayTransfers,  \* [toPayee, toTreasury] of a transaction to be relayed
    PatchStatuses,   \* statuses a PATCH may set
    PatchTotals,     \* totals a PATCH may set
    ServiceFeeSigs,  \* signatures spent on x402 service fees
    MintMayFail,     \* whether the NFT service may be down or fail a mint
    MaxFaults        \* bound on crashes of the server and on statements and
                     \*   calls that fail

Statuses == {"draft", "sent", "viewed", "partial", "paid", "overdue",
             "cancelled", "listed", "deleted"}
Kinds == {"direct", "manual", "relay", "patch", "delete", "list"}

Invoice == [status : Statuses, total : Nat, paid : Nat, remaining : Nat,
            payee : Payees, owners : SUBSET Payees]
Payment == [invoice : Invoices, amount : Nat, method : {"chain", "manual"},
            receipt : BOOLEAN]
Transfer == [toPayee : Nat, toTreasury : Nat]
Tx == [status : {"signed", "pending", "confirmed", "failed"},
       payer : Customers, payee : Payees, toPayee : Nat, toTreasury : Nat]
Request == [kind : Kinds, inv : Invoices, sig : Sigs \cup {NoSig},
            amount : Nat]
Rows == [active : Nat, cancelled : Nat, sold : Nat, most : Nat]
Credit == [sig : Sigs, inv : Invoices, amount : Nat, by : Requests]
Event == [type : {"invoice.paid", "invoice.partial_paid"}, sig : Sigs]

ASSUME SettlementAssumption ==
    /\ NoRequest \notin Requests
    /\ NoSig \notin Sigs
    /\ NoTx \notin Tx
    /\ NoPayment \notin Payment
    /\ NoSnap \notin Invoice
    /\ Buyers \subseteq Payees
    /\ Invoicee \in [Invoices -> Customers]
    /\ Subtotal \in [Invoices -> Nat]
    /\ PlatformFee \in [Invoices -> Nat]
    /\ Total \in [Invoices -> Nat]
    /\ InitialStatuses \subseteq {"draft", "sent", "viewed", "overdue",
                             "cancelled", "listed"}
    /\ GasFee \in Nat
    /\ Tolerance \in Nat
    /\ Endpoints \subseteq Kinds
    /\ DirectAmounts \subseteq Nat \ {0}
    /\ ManualAmounts \subseteq Nat \ {0}
    /\ RelayTransfers \subseteq Transfer
    /\ PatchStatuses \subseteq Statuses \ {"deleted"}
    /\ PatchTotals \subseteq Nat
    /\ ServiceFeeSigs \subseteq Sigs
    /\ MintMayFail \in BOOLEAN
    /\ MaxFaults \in Nat

VARIABLES
    invoices,   \* the invoices table
    payments,   \* the payments table, by its unique tx_signature
    listing,    \* listing[i]: how many rows of each status i has in
                \*   invoice_marketplace; history: the most that were active
    excl,       \* excl[i]: the transaction that holds i FOR UPDATE
    share,      \* share[i]: the transactions that hold i FOR KEY SHARE
    claim,      \* claim[s]: the transaction with an uncommitted row for s
    pc,         \* where each request is
    req,        \* what each request asks for
    snap,       \* the invoice row each request last read
    dup,        \* dup[r]: r's transaction found its signature recorded
    chain,      \* the transactions on Solana
    receipts,   \* receipts[s]: receipt NFTs minted for payment s
    events,     \* webhook events emitted for payments
    credits,    \* history: every payment credited to an invoice
    faults,     \* how often the server has crashed, or a statement failed
    halfDone    \* history: requests that ended where a write of theirs had
                \*   been committed and the one that goes with it had not

rowVars == <<invoices, payments, listing, credits>>
lockVars == <<excl, share, claim>>
outsideVars == <<chain, receipts, events, faults, halfDone>>
localVars == <<req, snap, dup>>
vars == <<rowVars, lockVars, outsideVars, localVars, pc>>

Finished == {"done", "rejected", "lost"}
CreateSteps == {"createCheck", "createInsert", "createKeyShare", "createRead",
                "createCommit"}
ConfirmSteps == {"confirmReplay", "confirmWait", "confirmRead",
                 "confirmVerify", "confirmCheck", "confirmLock",
                 "confirmInsert", "confirmCommit",
                 "confirmNotify", "confirmReceipt"}
ListSteps == {"listCheck", "listInsert", "listWrite"}
Steps == {"idle", "directVerify", "directReplay", "notify", "receipt", "flag",
          "relaySend", "patchWrite", "cancelWrite", "deleteCheck",
          "deleteRow"} \cup CreateSteps \cup ConfirmSteps \cup ListSteps
            \cup Finished

\* The payee is nftTransferredTo, or else the invoicer; owners is a history of
\* everyone who has been the payee.
Created(i, status, payee) ==
    [status |-> status, total |-> Total[i], paid |-> 0,
     remaining |-> Total[i], payee |-> payee, owners |-> {payee}]

NoRows == [active |-> 0, cancelled |-> 0, sold |-> 0, most |-> 0]
OneActive == [NoRows EXCEPT !.active = 1, !.most = 1]

Init ==
    /\ \E status \in [Invoices -> InitialStatuses],
          payee \in [Invoices -> Payees] :
         /\ invoices = [i \in Invoices |-> Created(i, status[i], payee[i])]
         /\ listing = [i \in Invoices |->
                         IF status[i] = "listed" THEN OneActive ELSE NoRows]
    /\ payments = [s \in Sigs |-> NoPayment]
    /\ excl = [i \in Invoices |-> NoRequest]
    /\ share = [i \in Invoices |-> {}]
    /\ claim = [s \in Sigs |-> NoRequest]
    /\ pc = [r \in Requests |-> "idle"]
    /\ req = [r \in Requests |-> NoRequest]
    /\ snap = [r \in Requests |-> NoSnap]
    /\ dup = [r \in Requests |-> FALSE]
    /\ chain = [s \in Sigs |-> NoTx]
    /\ receipts = [s \in Sigs |-> 0]
    /\ events = {}
    /\ credits = {}
    /\ faults = 0
    /\ halfDone = {}

-----------------------------------------------------------------------------
(* What the steps are made of.                                             *)

Goto(r, step) == pc' = [pc EXCEPT ![r] = step]

\* A request that ends forgets what it read.
Finish(r, outcome) ==
    /\ Goto(r, outcome)
    /\ snap' = [snap EXCEPT ![r] = NoSnap]
    /\ UNCHANGED <<req, dup>>

\* COMMIT or ROLLBACK of r's transaction.
Release(r) ==
    /\ excl' = [i \in Invoices |-> IF excl[i] = r THEN NoRequest ELSE excl[i]]
    /\ share' = [i \in Invoices |-> share[i] \ {r}]
    /\ claim' = [s \in Sigs |-> IF claim[s] = r THEN NoRequest ELSE claim[s]]

\* Fault: an error leaves the transaction open.
RollbackHolding(r) == UNCHANGED lockVars /\ Finish(r, "rejected")

Rollback(r) == Release(r) /\ Finish(r, "rejected")

\* r reads its invoice, whatever lock anyone else holds on it.
Read(r) ==
    /\ snap' = [snap EXCEPT ![r] = invoices[req[r].inv]]
    /\ UNCHANGED <<req, dup>>

\* A request whose invoice is not found is answered 404 and changes nothing.
Arrive(r, kind, i, s, amount) ==
    /\ pc[r] = "idle"
    /\ kind \in Endpoints
    /\ invoices[i].status # "deleted"
    /\ req' = [req EXCEPT ![r] = [kind |-> kind, inv |-> i, sig |-> s,
                                  amount |-> amount]]
    /\ UNCHANGED <<dup, rowVars, lockVars, outsideVars>>

\* isSignatureUsed: the payments table and the x402 service fees.
SignatureUsed(s) == payments[s] # NoPayment \/ s \in ServiceFeeSigs

Near(x, y) == x - y <= Tolerance /\ y - x <= Tolerance

\* verifyStablecoinPayment, without the fee arguments.
Verified(tx, payee, expected) ==
    /\ tx.status = "confirmed"
    /\ tx.payee = payee
    /\ tx.payer # tx.payee
    /\ Near(tx.toPayee, expected)

\* Only the wallet the invoice is addressed to may pay it.
FromInvoicee(r, tx) == tx.payer = Invoicee[req[r].inv]

\* What the payer sends to the payee and to the treasury out of an amount.
FeeShare(amount) == amount \div 100
PayeeShare(amount) == (99 * amount) \div 100

-----------------------------------------------------------------------------
(* The customers' wallets and Solana.                                      *)

Transaction(status, c, p, toPayee, toTreasury) ==
    [status |-> status, payer |-> c, payee |-> p, toPayee |-> toPayee,
     toTreasury |-> toTreasury]

\* The customer pays from the wallet: 99% to the payee, 1% to the treasury.
PayDirectly(s) ==
    /\ chain[s] = NoTx
    /\ "direct" \in Endpoints
    /\ \E c \in Customers, p \in Payees, a \in DirectAmounts :
         chain' = [chain EXCEPT ![s] =
                     Transaction("pending", c, p, PayeeShare(a), FeeShare(a))]
    /\ UNCHANGED <<rowVars, lockVars, localVars, pc>>
    /\ UNCHANGED <<receipts, events, faults, halfDone>>

\* The customer signs a transaction for the relay to pay the gas of.
SignForRelay(s) ==
    /\ chain[s] = NoTx
    /\ "relay" \in Endpoints
    /\ \E c \in Customers, p \in Payees, t \in RelayTransfers :
         chain' = [chain EXCEPT ![s] =
                     Transaction("signed", c, p, t.toPayee, t.toTreasury)]
    /\ UNCHANGED <<rowVars, lockVars, localVars, pc>>
    /\ UNCHANGED <<receipts, events, faults, halfDone>>

\* The cluster confirms a transaction that was sent to it, or fails it.
ChainSettles(s) ==
    /\ chain[s] # NoTx
    /\ chain[s].status = "pending"
    /\ \E outcome \in {"confirmed", "failed"} :
         chain' = [chain EXCEPT ![s].status = outcome]
    /\ UNCHANGED <<rowVars, lockVars, localVars, pc>>
    /\ UNCHANGED <<receipts, events, faults, halfDone>>

-----------------------------------------------------------------------------
(* POST /api/payments.                                                     *)

DirectReceive(r) ==
    /\ \E i \in Invoices, s \in Sigs, a \in DirectAmounts :
         /\ chain[s] # NoTx
         /\ Arrive(r, "direct", i, s, a)
         /\ snap' = [snap EXCEPT ![r] = invoices[i]]
    /\ Goto(r, "directVerify")

\* Only the invoicer's session gets past this point.
ManualReceive(r) ==
    /\ \E i \in Invoices, s \in Sigs, a \in ManualAmounts :
         Arrive(r, "manual", i, s, a)
    /\ Goto(r, "createCheck")
    /\ UNCHANGED snap

\* The transaction must have paid both shares, and come from the invoicee.  A
\* transaction still pending after 110 seconds is rejected.
DirectVerify(r) ==
    LET tx == chain[req[r].sig]
        a == req[r].amount
    IN /\ pc[r] = "directVerify"
       /\ IF /\ Verified(tx, snap[r].payee, PayeeShare(a))
             /\ Near(tx.toTreasury, FeeShare(a))
             /\ FromInvoicee(r, tx)
          THEN Goto(r, "directReplay") /\ UNCHANGED localVars
          ELSE Finish(r, "rejected")
       /\ UNCHANGED <<rowVars, lockVars, outsideVars>>

DirectReplay(r) ==
    /\ pc[r] = "directReplay"
    /\ IF SignatureUsed(req[r].sig)
       THEN Finish(r, "rejected")
       ELSE Goto(r, "createCheck") /\ UNCHANGED localVars
    /\ UNCHANGED <<rowVars, lockVars, outsideVars>>

\* createPayment.  BEGIN; is there a row for the signature already?
CreateCheck(r) ==
    /\ pc[r] = "createCheck"
    /\ IF payments[req[r].sig] # NoPayment
       THEN Finish(r, "rejected")
       ELSE Goto(r, "createInsert") /\ UNCHANGED localVars
    /\ UNCHANGED <<rowVars, lockVars, outsideVars>>

\* Fault: an index that is not unique.
NoDuplicate(s) == FALSE

\* The unique index on tx_signature: an insert waits for the transaction with
\* an uncommitted row, and fails on a committed one.
Unclaimed(s) == claim[s] = NoRequest
Duplicate(s) == payments[s] # NoPayment

\* Fault: the insert locks the whole payments table.
LockTable(r) == claim' = [s \in Sigs |-> r]

EnterIndex(r) == claim' = [claim EXCEPT ![req[r].sig] = r]

\* The insert enters the unique index ...
CreateInsert(r) ==
    /\ pc[r] = "createInsert"
    /\ Unclaimed(req[r].sig)
    /\ IF Duplicate(req[r].sig)
       THEN Rollback(r)
       ELSE /\ EnterIndex(r)
            /\ Goto(r, "createKeyShare")
            /\ UNCHANGED <<excl, share, localVars>>
    /\ UNCHANGED <<rowVars, outsideVars>>

\* ... and then locks the invoice its foreign key refers to.
CreateKeyShare(r) ==
    LET i == req[r].inv
    IN /\ pc[r] = "createKeyShare"
       /\ excl[i] = NoRequest
       /\ IF invoices[i].status = "deleted"
          THEN Rollback(r)
          ELSE /\ share' = [share EXCEPT ![i] = @ \cup {r}]
               /\ Goto(r, "createRead")
               /\ UNCHANGED <<excl, claim, localVars>>
       /\ UNCHANGED <<rowVars, outsideVars>>

\* The invoice is read without FOR UPDATE.
CreateRead(r) ==
    /\ pc[r] = "createRead"
    /\ Read(r)
    /\ Goto(r, "createCommit")
    /\ UNCHANGED <<rowVars, lockVars, outsideVars>>

\* Fault: an overpaid invoice has a negative balance.
Unclamped(left) == left

\* A balance is not written below zero.
Clamped(left) == IF left <= 0 THEN 0 ELSE left

\* The columns createPayment computes from the row it has read.
AfterPayment(inv, amount) ==
    LET paid == inv.paid + amount
        left == inv.total - paid
    IN [paid |-> paid,
        remaining |-> Clamped(left),
        status |-> IF left <= 0 THEN "paid"
                   ELSE IF paid > 0 /\ inv.status # "overdue" THEN "partial"
                   ELSE inv.status]

\* The columns confirmPaymentAndMintOutcome computes.
AfterConfirmation(inv, amount) ==
    LET left == inv.remaining - amount
    IN [paid |-> inv.paid + amount,
        remaining |-> Clamped(left),
        status |-> IF left <= 0 THEN "paid" ELSE "partial"]

\* COMMIT of a payments row and of the new balance of its invoice.
Record(r, amount, method, columns) ==
    LET i == req[r].inv
        s == req[r].sig
    IN /\ payments' = [payments EXCEPT ![s] =
                         [invoice |-> i, amount |-> amount, method |-> method,
                          receipt |-> FALSE]]
       /\ invoices' = [invoices EXCEPT ![i] =
                         [@ EXCEPT !.paid = columns.paid,
                                   !.remaining = columns.remaining,
                                   !.status = columns.status]]
       /\ credits' = credits \cup
                       {[sig |-> s, inv |-> i, amount |-> amount, by |-> r]}
       /\ Release(r)

\* What was verified on chain is recorded, not what the request says.
AmountPaid(r) == IF req[r].kind = "manual" THEN req[r].amount
                 ELSE chain[req[r].sig].toPayee

\* UPDATE of the invoice and COMMIT.
CreateCommit(r) ==
    LET method == IF req[r].kind = "manual" THEN "manual" ELSE "chain"
        amount == AmountPaid(r)
    IN /\ pc[r] = "createCommit"
       /\ Record(r, amount, method, AfterPayment(snap[r], amount))
       /\ Goto(r, "notify")
       /\ UNCHANGED <<listing, outsideVars, localVars>>

\* Fault: a partial payment is not announced.
NotifyIfPaid(r) ==
    /\ pc[r] = "notify"
    /\ events' = IF invoices[req[r].inv].status = "paid"
                 THEN events \cup {[type |-> "invoice.paid", sig |-> req[r].sig]}
                 ELSE events
    /\ Goto(r, "receipt")
    /\ UNCHANGED <<rowVars, lockVars, localVars, chain, receipts, faults, halfDone>>

\* The webhook goes by the status the invoice has when it is read again.
Notify(r) ==
    /\ pc[r] = "notify"
    /\ events' = events \cup
         {[type |-> IF invoices[req[r].inv].status = "paid"
                    THEN "invoice.paid" ELSE "invoice.partial_paid",
           sig |-> req[r].sig]}
    /\ Goto(r, "receipt")
    /\ UNCHANGED <<rowVars, lockVars, localVars, chain, receipts, faults, halfDone>>

\* mintPaymentReceiptNFT throws unless it is given the payments row itself.
Mintable(payload) == payload = "row"

\* Fault: the relay passes it the row, and two relays of one payment mint.
UnwrappedPayload == "row"

\* The relay passes it [payment, isNew], the result of its transaction.
ConfirmPayload == "wrapper of the row"

\* Fault: a mint that fails fails the request.
ReceiptOrError(r) ==
    /\ pc[r] = "receipt"
    /\ \/ /\ receipts' = [receipts EXCEPT ![req[r].sig] = @ + 1]
          /\ Goto(r, "flag")
          /\ UNCHANGED localVars
       \/ /\ MintMayFail
          /\ Finish(r, "rejected")
          /\ UNCHANGED receipts
    /\ UNCHANGED <<rowVars, lockVars, chain, events, faults, halfDone>>

\* The receipt is minted, if the NFT service is ready and does not fail ...
Receipt(r) ==
    /\ pc[r] = "receipt"
    /\ \/ /\ receipts' = [receipts EXCEPT ![req[r].sig] = @ + 1]
          /\ Goto(r, "flag")
          /\ UNCHANGED localVars
       \/ /\ MintMayFail
          /\ Finish(r, "done")
          /\ UNCHANGED receipts
    /\ UNCHANGED <<rowVars, lockVars, chain, events, faults, halfDone>>

\* ... and flagged on the payment afterwards.
Flag(r) ==
    /\ pc[r] = "flag"
    /\ payments' = [payments EXCEPT ![req[r].sig].receipt = TRUE]
    /\ Finish(r, "done")
    /\ UNCHANGED <<invoices, listing, credits, lockVars, outsideVars>>

-----------------------------------------------------------------------------
(* POST /payments/relay and confirmPaymentAndMintOutcome.                  *)

\* The transaction must come from the invoicee and pay the payee at least the
\* subtotal and the treasury at least the fees.
RelayAccepts(inv, i, tx) ==
    /\ inv.status # "paid"
    /\ tx.payer = Invoicee[i]
    /\ tx.payee = inv.payee
    /\ tx.toPayee >= Subtotal[i]
    /\ tx.toTreasury >= PlatformFee[i] + GasFee

RelayReceive(r) ==
    \E i \in Invoices, s \in Sigs :
      /\ chain[s] # NoTx
      /\ Arrive(r, "relay", i, s, 0)
      /\ Goto(r, IF RelayAccepts(invoices[i], i, chain[s])
                 THEN "relaySend" ELSE "rejected")
      /\ UNCHANGED snap

\* The server pays the gas, sends the transaction, answers the customer and
\* goes on in the background.  A transaction the cluster has already settled
\* does not pass the preflight check.
RelaySend(r) ==
    LET s == req[r].sig
    IN /\ pc[r] = "relaySend"
       /\ IF chain[s].status \in {"signed", "pending"}
          THEN /\ chain' = [chain EXCEPT ![s].status = "pending"]
               /\ Goto(r, "confirmReplay")
               /\ UNCHANGED localVars
          ELSE Finish(r, "rejected") /\ UNCHANGED chain
       /\ UNCHANGED <<rowVars, lockVars, receipts, events, faults, halfDone>>

ConfirmReplay(r) ==
    /\ pc[r] = "confirmReplay"
    /\ IF SignatureUsed(req[r].sig)
       THEN Finish(r, "rejected")
       ELSE Goto(r, "confirmWait") /\ UNCHANGED localVars
    /\ UNCHANGED <<rowVars, lockVars, outsideVars>>

\* Wait for the cluster; after 30 seconds a transaction still pending is given
\* up.
ConfirmWait(r) ==
    /\ pc[r] = "confirmWait"
    /\ IF chain[req[r].sig].status = "pending"
       THEN Finish(r, "rejected")
       ELSE Goto(r, "confirmRead") /\ UNCHANGED localVars
    /\ UNCHANGED <<rowVars, lockVars, outsideVars>>

ConfirmRead(r) ==
    /\ pc[r] = "confirmRead"
    /\ IF invoices[req[r].inv].status = "deleted"
       THEN Finish(r, "rejected")
       ELSE Read(r) /\ Goto(r, "confirmVerify")
    /\ UNCHANGED <<rowVars, lockVars, outsideVars>>

\* The payee must have been paid what remained when the invoice was read.
ConfirmVerify(r) ==
    LET tx == chain[req[r].sig]
    IN /\ pc[r] = "confirmVerify"
       /\ IF /\ Verified(tx, snap[r].payee, snap[r].remaining)
             /\ FromInvoicee(r, tx)
          THEN Goto(r, "confirmCheck") /\ UNCHANGED localVars
          ELSE Finish(r, "rejected")
       /\ UNCHANGED <<rowVars, lockVars, outsideVars>>

\* BEGIN; is there a row for the signature already?
ConfirmCheck(r) ==
    /\ pc[r] = "confirmCheck"
    /\ dup' = [dup EXCEPT ![r] = payments[req[r].sig] # NoPayment]
    /\ Goto(r, "confirmLock")
    /\ UNCHANGED <<rowVars, lockVars, outsideVars, req, snap>>

\* Fault: the row read before the transaction is used under the lock.
ForUpdateStale(r) ==
    /\ excl' = [excl EXCEPT ![req[r].inv] = r]
    /\ UNCHANGED localVars

\* The invoice as it is once the lock is held.
ForUpdate(r) ==
    /\ excl' = [excl EXCEPT ![req[r].inv] = r]
    /\ Read(r)

\* SELECT ... FOR UPDATE waits for everyone who holds the invoice.  With the
\* payment recorded by someone else there is nothing to do but COMMIT.
ConfirmLock(r) ==
    LET i == req[r].inv
    IN /\ pc[r] = "confirmLock"
       /\ excl[i] = NoRequest
       /\ share[i] = {}
       /\ \/ /\ invoices[i].status = "deleted"
             /\ Finish(r, "rejected")
             /\ UNCHANGED lockVars
          \/ /\ invoices[i].status # "deleted"
             /\ dup[r]
             /\ Goto(r, "confirmReceipt")
             /\ UNCHANGED <<lockVars, localVars>>
          \/ /\ invoices[i].status # "deleted"
             /\ ~dup[r]
             /\ ForUpdate(r)
             /\ Goto(r, "confirmInsert")
             /\ UNCHANGED <<share, claim>>
       /\ UNCHANGED <<rowVars, outsideVars>>

ConfirmInsert(r) ==
    /\ pc[r] = "confirmInsert"
    /\ Unclaimed(req[r].sig)
    /\ IF Duplicate(req[r].sig)
       THEN Rollback(r)
       ELSE /\ EnterIndex(r)
            /\ Goto(r, "confirmCommit")
            /\ UNCHANGED <<excl, share, localVars>>
    /\ UNCHANGED <<rowVars, outsideVars>>

\* Fault: the listing of a paid invoice stays.
KeepListing(i) == UNCHANGED listing

\* One active row of an invoice the relay records a payment of.
CancelListing(i) ==
    listing' = IF listing[i].active = 0 THEN listing
               ELSE [listing EXCEPT ![i].active = @ - 1, ![i].cancelled = @ + 1]

\* Fault: what was expected is recorded.
AmountExpected(r) == snap[r].remaining

\* What came is recorded, which may differ from what was expected.
AmountReceived(r) == chain[req[r].sig].toPayee

\* UPDATE of the invoice, cancellation of an active listing and COMMIT.
ConfirmCommit(r) ==
    LET amount == AmountReceived(r)
    IN /\ pc[r] = "confirmCommit"
       /\ Record(r, amount, "chain", AfterConfirmation(snap[r], amount))
       /\ CancelListing(req[r].inv)
       /\ Goto(r, "confirmNotify")
       /\ UNCHANGED <<outsideVars, localVars>>

ConfirmNotify(r) ==
    /\ pc[r] = "confirmNotify"
    /\ events' = events \cup {[type |-> "invoice.paid", sig |-> req[r].sig]}
    /\ Goto(r, "confirmReceipt")
    /\ UNCHANGED <<rowVars, lockVars, localVars, chain, receipts, faults, halfDone>>

\* The receipt, unless the NFT service is not ready, fails, or the payment is
\* flagged already.
ConfirmReceipt(r) ==
    /\ pc[r] = "confirmReceipt"
    /\ \/ /\ Mintable(ConfirmPayload)
          /\ ~payments[req[r].sig].receipt
          /\ receipts' = [receipts EXCEPT ![req[r].sig] = @ + 1]
          /\ Goto(r, "flag")
          /\ UNCHANGED localVars
       \/ /\ \/ MintMayFail
             \/ ~Mintable(ConfirmPayload)
             \/ payments[req[r].sig].receipt
          /\ Finish(r, "done")
          /\ UNCHANGED receipts
    /\ UNCHANGED <<rowVars, lockVars, chain, events, faults, halfDone>>

-----------------------------------------------------------------------------
(* PATCH and DELETE /api/invoices/:id, from the invoicer's session.        *)

\* An UPDATE outside a transaction waits only for a FOR UPDATE lock.
Writable(i) == excl[i] = NoRequest

PatchReceive(r) ==
    \E i \in Invoices :
      /\ Arrive(r, "patch", i, NoSig, 0)
      /\ Goto(r, IF invoices[i].status = "paid" THEN "rejected"
                                                ELSE "patchWrite")
      /\ UNCHANGED snap

PatchWrite(r) ==
    LET i == req[r].inv
    IN /\ pc[r] = "patchWrite"
       /\ Writable(i)
       /\ \E status \in PatchStatuses \cup {invoices[i].status},
             total \in PatchTotals \cup {invoices[i].total} :
            invoices' =
              IF invoices[i].status = "deleted" THEN invoices
              ELSE [invoices EXCEPT ![i].status = status, ![i].total = total]
       /\ Finish(r, "done")
       /\ UNCHANGED <<payments, listing, credits, lockVars, outsideVars>>

DeleteReceive(r) ==
    \E i \in Invoices :
      /\ Arrive(r, "delete", i, NoSig, 0)
      /\ Goto(r, IF invoices[i].status = "draft" THEN "deleteCheck"
                                                 ELSE "cancelWrite")
      /\ UNCHANGED snap

\* Whatever is not a draft is cancelled.
CancelWrite(r) ==
    LET i == req[r].inv
    IN /\ pc[r] = "cancelWrite"
       /\ Writable(i)
       /\ invoices' = IF invoices[i].status = "deleted" THEN invoices
                      ELSE [invoices EXCEPT ![i].status = "cancelled"]
       /\ Finish(r, "done")
       /\ UNCHANGED <<payments, listing, credits, lockVars, outsideVars>>

\* deleteInvoice reads the status again ...
DeleteCheck(r) ==
    /\ pc[r] = "deleteCheck"
    /\ IF invoices[req[r].inv].status \in {"paid", "deleted"}
       THEN Finish(r, "rejected")
       ELSE Goto(r, "deleteRow") /\ UNCHANGED localVars
    /\ UNCHANGED <<rowVars, lockVars, outsideVars>>

RowsOf(i) == listing[i].active + listing[i].cancelled + listing[i].sold

\* ... and deletes the row, unless a payment or a listing refers to it.
DeleteRow(r) ==
    LET i == req[r].inv
        referenced == \/ RowsOf(i) > 0
                      \/ \E s \in Sigs : /\ payments[s] # NoPayment
                                         /\ payments[s].invoice = i
    IN /\ pc[r] = "deleteRow"
       /\ Writable(i)
       /\ share[i] = {}
       /\ IF referenced
          THEN Finish(r, "rejected") /\ UNCHANGED invoices
          ELSE /\ invoices' = [invoices EXCEPT ![i].status = "deleted"]
               /\ Finish(r, "done")
       /\ UNCHANGED <<payments, listing, credits, lockVars, outsideVars>>

-----------------------------------------------------------------------------
(* POST /api/marketplace/list.  The invoice is taken to have its NFT.       *)

ListReceive(r) ==
    \E i \in Invoices :
      /\ Arrive(r, "list", i, NoSig, 0)
      /\ Goto(r, IF invoices[i].status = "sent" THEN "listCheck"
                                                ELSE "rejected")
      /\ UNCHANGED snap

ListCheck(r) ==
    /\ pc[r] = "listCheck"
    /\ IF listing[req[r].inv].active > 0
       THEN Finish(r, "rejected")
       ELSE Goto(r, "listInsert") /\ UNCHANGED localVars
    /\ UNCHANGED <<rowVars, lockVars, outsideVars>>

\* Scores, and the transaction of the sale, take a while.  Then the row is
\* inserted, which like a payment refers to the invoice ...
ListInsert(r) ==
    LET i == req[r].inv
    IN /\ pc[r] = "listInsert"
       /\ Writable(i)
       /\ IF invoices[i].status = "deleted"
          THEN Finish(r, "rejected") /\ UNCHANGED listing
          ELSE /\ listing' = [listing EXCEPT ![i].active = @ + 1,
                                ![i].most = IF @ > listing[i].active
                                            THEN @ ELSE listing[i].active + 1]
               /\ Goto(r, "listWrite")
               /\ UNCHANGED localVars
       /\ UNCHANGED <<invoices, payments, credits, lockVars, outsideVars>>

\* ... and the invoice is listed, whatever has become of it.
ListWrite(r) ==
    LET i == req[r].inv
    IN /\ pc[r] = "listWrite"
       /\ Writable(i)
       /\ invoices' = IF invoices[i].status = "deleted" THEN invoices
                      ELSE [invoices EXCEPT ![i].status = "listed"]
       /\ Finish(r, "done")
       /\ UNCHANGED <<payments, listing, credits, lockVars, outsideVars>>

-----------------------------------------------------------------------------
(* POST /api/marketplace/confirm-purchase, from any wallet, whatever has    *)
(* become of the listing and of the invoice.                                *)

SellListing(i) ==
    /\ Buyers # {}
    /\ \/ /\ listing[i].active > 0
          /\ listing' = [listing EXCEPT ![i].active = @ - 1, ![i].sold = @ + 1]
       \/ /\ listing[i].cancelled > 0
          /\ listing' = [listing EXCEPT ![i].cancelled = @ - 1,
                                        ![i].sold = @ + 1]
    /\ UNCHANGED <<invoices, payments, credits>>
    /\ UNCHANGED <<lockVars, outsideVars, localVars, pc>>

\* From now on the buyer is to be paid.
RouteToBuyer(i) ==
    /\ listing[i].sold > 0
    /\ Writable(i)
    /\ \E b \in Buyers \ {invoices[i].payee} :
         invoices' = [invoices EXCEPT ![i].payee = b,
                                      ![i].owners = @ \cup {b}]
    /\ UNCHANGED <<payments, listing, credits>>
    /\ UNCHANGED <<lockVars, outsideVars, localVars, pc>>

-----------------------------------------------------------------------------
(* Postgres and the server process.                                        *)

\* The transaction r waits for, if it waits for one.
WaitsFor(r) ==
    CASE pc[r] \in {"createInsert", "confirmInsert"} -> claim[req[r].sig]
      [] pc[r] = "createKeyShare" -> excl[req[r].inv]
      [] OTHER -> NoRequest

\* A cycle of transactions that wait for each other: one of them is aborted.
DeadlockVictim(r) ==
    /\ \E cycle \in SUBSET Requests :
         /\ r \in cycle
         /\ \A q \in cycle : /\ WaitsFor(q) \in cycle
                             /\ \E p \in cycle : WaitsFor(p) = q
    /\ Rollback(r)
    /\ UNCHANGED <<rowVars, outsideVars>>

Fault == faults < MaxFaults /\ faults' = faults + 1

\* What has been committed before these steps stays without them.
CommittedBefore == {"notify", "confirmNotify", "listWrite"}

\* A statement or a call of a request fails: what was open is rolled back and
\* the request is answered with an error, a confirmation in the background
\* given up.  Only the receipt is in a try block of its own; the relay emits
\* its event in the same turn of the event loop as it hears of the COMMIT.
StatementFails(r) ==
    /\ Fault
    /\ pc[r] \notin Finished \cup {"idle", "confirmNotify"}
    /\ Release(r)
    /\ Finish(r, IF pc[r] \in {"receipt", "flag", "confirmReceipt"}
                 THEN "done" ELSE "rejected")
    /\ halfDone' = IF pc[r] \in CommittedBefore THEN halfDone \cup {r}
                                                ELSE halfDone
    /\ UNCHANGED <<rowVars, chain, receipts, events>>

\* The server stops: every request in flight is lost, and with it the
\* background half of the relay.  Open transactions are rolled back.
Crash ==
    /\ Fault
    /\ pc' = [r \in Requests |->
                IF pc[r] \in Finished \cup {"idle"} THEN pc[r] ELSE "lost"]
    /\ halfDone' = halfDone \cup {r \in Requests : pc[r] \in CommittedBefore}
    /\ snap' = [r \in Requests |-> NoSnap]
    /\ excl' = [i \in Invoices |-> NoRequest]
    /\ share' = [i \in Invoices |-> {}]
    /\ claim' = [s \in Sigs |-> NoRequest]
    /\ UNCHANGED <<rowVars, req, dup, chain, receipts, events>>

Receive(r) == \/ DirectReceive(r) \/ ManualReceive(r) \/ RelayReceive(r)
              \/ PatchReceive(r) \/ DeleteReceive(r) \/ ListReceive(r)

Step(r) ==
    \/ DirectVerify(r) \/ DirectReplay(r)
    \/ CreateCheck(r) \/ CreateInsert(r) \/ CreateKeyShare(r)
    \/ CreateRead(r) \/ CreateCommit(r)
    \/ Notify(r) \/ Receipt(r) \/ Flag(r)
    \/ RelaySend(r) \/ ConfirmReplay(r) \/ ConfirmWait(r) \/ ConfirmRead(r)
    \/ ConfirmVerify(r) \/ ConfirmCheck(r) \/ ConfirmLock(r)
    \/ ConfirmInsert(r) \/ ConfirmCommit(r) \/ ConfirmNotify(r)
    \/ ConfirmReceipt(r)
    \/ PatchWrite(r) \/ CancelWrite(r) \/ DeleteCheck(r) \/ DeleteRow(r)
    \/ ListCheck(r) \/ ListInsert(r) \/ ListWrite(r)
    \/ DeadlockVictim(r)

Next ==
    \/ \E s \in Sigs : PayDirectly(s) \/ SignForRelay(s) \/ ChainSettles(s)
    \/ \E r \in Requests : Receive(r) \/ Step(r) \/ StatementFails(r)
    \/ \E i \in Invoices : SellListing(i) \/ RouteToBuyer(i)
    \/ Crash

Spec == Init /\ [][Next]_vars

\* The event loop and the database make progress on what has begun; nobody
\* has to send a request or a transaction, and the cluster owes no answer.
Fairness == \A r \in Requests : WF_vars(Step(r))

FairSpec == Spec /\ Fairness

-----------------------------------------------------------------------------
(* What the handlers promise together.                                     *)

TypeOK ==
    /\ invoices \in [Invoices -> Invoice]
    /\ payments \in [Sigs -> Payment \cup {NoPayment}]
    /\ listing \in [Invoices -> Rows]
    /\ excl \in [Invoices -> Requests \cup {NoRequest}]
    /\ share \in [Invoices -> SUBSET Requests]
    /\ claim \in [Sigs -> Requests \cup {NoRequest}]
    /\ pc \in [Requests -> Steps]
    /\ req \in [Requests -> Request \cup {NoRequest}]
    /\ snap \in [Requests -> Invoice \cup {NoSnap}]
    /\ dup \in [Requests -> BOOLEAN]
    /\ chain \in [Sigs -> Tx \cup {NoTx}]
    /\ receipts \in [Sigs -> Nat]
    /\ events \subseteq Event
    /\ credits \subseteq Credit
    /\ faults \in Nat
    /\ halfDone \subseteq Requests

\* However the payment handlers interleave, crash and retry, a transaction
\* signature is credited to one invoice at most, by one request, and what was
\* credited is what the payments row says (the unique tx_signature, and the
\* transactions of createPayment and confirmPaymentAndMintOutcome).
CreditedOnce ==
    /\ \A c, d \in credits : c.sig = d.sig => c = d
    /\ \A c \in credits : /\ payments[c.sig] # NoPayment
                          /\ payments[c.sig].invoice = c.inv
                          /\ payments[c.sig].amount = c.amount

\* A payment recorded as made on chain is backed by a confirmed transaction
\* of the invoicee, of the amount recorded, to a wallet that was to be paid:
\* the handlers verify it long before they record it, and the invoice may have
\* been sold since.
PaymentBacked ==
    \A s \in Sigs :
      payments[s] # NoPayment /\ payments[s].method = "chain" =>
        /\ chain[s] # NoTx
        /\ chain[s].status = "confirmed"
        /\ chain[s].payer = Invoicee[payments[s].invoice]
        /\ chain[s].payee \in invoices[payments[s].invoice].owners
        /\ chain[s].toPayee = payments[s].amount

\* No payment gets two receipt NFTs, and a payment flagged as having one has
\* one (nftReceiptMinted, which is set only after the mint).
ReceiptOnce ==
    \A s \in Sigs :
      /\ receipts[s] <= 1
      /\ payments[s] # NoPayment /\ payments[s].receipt => receipts[s] = 1

Unannounced(s) == \A e \in events : e.sig # s

\* A request that was answered with an error has credited nothing, so the
\* customer may try again; unless getInvoice or an import failed between COMMIT
\* and the event, and then nobody hears of the payment (ROLLBACK, and the try
\* blocks that come later).
CreditedDespiteError ==
    \A c \in credits :
      pc[c.by] = "rejected" =>
        c.by \in halfDone /\ Unannounced(c.sig)

\* Every payment event that goes out is about a recorded payment.
AnnouncedIsRecorded == \A e \in events : payments[e.sig] # NoPayment

\* An invoice the relay has settled is no longer for sale, since the listing is
\* cancelled in the transaction that records the payment; unless POST /list
\* overtook it and has not written the status yet, or never will, or the
\* invoice had two active rows at once, of which the relay cancels one.
Overtaken(i) ==
    \E r \in Requests :
      /\ pc[r] # "idle"
      /\ req[r].kind = "list" /\ req[r].inv = i
      /\ pc[r] = "listWrite" \/ r \in halfDone

PaidIsDelisted ==
    \A i \in Invoices :
      invoices[i].status = "paid" /\ listing[i].active > 0 =>
        listing[i].most > 1 \/ Overtaken(i)

\* What the payments recorded for an invoice add up to.
Recorded(i) == {s \in Sigs : payments[s] # NoPayment /\ payments[s].invoice = i}
Amounts == [s \in Sigs |-> IF payments[s] = NoPayment THEN 0
                           ELSE payments[s].amount]
SumRecorded(i) == SumFunctionOnSet(Amounts, Recorded(i))

\* An invoice has been paid what its payments add up to (createPayment reads
\* the invoice "INSIDE transaction to prevent race conditions").  The relay
\* keeps this; two requests to POST /api/payments at once do not.
PaidAddsUp == \A i \in Invoices : invoices[i].paid = SumRecorded(i)

\* ... but whatever the requests do to each other's writes, no invoice counts
\* as paid what was not recorded for it (the balance is written in the
\* transaction of its payments row, from a balance that was true before).
NeverOvercredited == \A i \in Invoices : invoices[i].paid <= SumRecorded(i)

\* The three columns that two handlers compute each in its own way, one from
\* the total and one from what remains, agree after every order of payments;
\* an invoice that says it is paid owes nothing.
BalanceAddsUp ==
    \A i \in Invoices :
      LET inv == invoices[i]
      IN /\ inv.remaining = Clamped(inv.total - inv.paid)
         /\ inv.status = "paid" => inv.remaining = 0

\* An invoice that says it is paid has payments of its whole total, whoever
\* overwrote whose balance on the way: both handlers write the status from a
\* balance they have computed, never from what a request says.
PaidIsCovered ==
    \A i \in Invoices :
      invoices[i].status = "paid" => SumRecorded(i) >= invoices[i].total

\* Transactions wait for each other in a cycle only if POST /api/payments and
\* the relay record the same signature at once: the one has it in the unique
\* index and wants the invoice, the other holds an invoice and wants it.
DeadlocksAreMixed ==
    \A cycle \in SUBSET Requests :
      cycle # {} /\ (\A q \in cycle : WaitsFor(q) \in cycle) =>
        \E p, q \in cycle :
          /\ pc[p] = "createKeyShare"
          /\ pc[q] = "confirmInsert"
          /\ req[p].sig = req[q].sig

\* What is inductive about all of the above.  First the locks: each is held
\* exactly while its holder is between taking it and its COMMIT or ROLLBACK.
ExclSteps == {"confirmInsert", "confirmCommit"}
ShareSteps == {"createRead", "createCommit"}
ClaimSteps == {"createKeyShare", "createRead", "createCommit", "confirmCommit"}

ExclInv ==
    \A i \in Invoices, r \in Requests :
      excl[i] = r <=> pc[r] \in ExclSteps /\ req[r].inv = i
ShareInv ==
    \A i \in Invoices, r \in Requests :
      r \in share[i] <=> pc[r] \in ShareSteps /\ req[r].inv = i
ClaimInv ==
    \A s \in Sigs, r \in Requests :
      claim[s] = r <=> pc[r] \in ClaimSteps /\ req[r].sig = s
LockInv ==
    /\ ExclInv /\ ShareInv /\ ClaimInv
    /\ \A i \in Invoices : excl[i] # NoRequest => share[i] = {}
    /\ \A s \in Sigs : claim[s] # NoRequest => payments[s] = NoPayment

\* A request is at a step of its own kind, has read a row by the steps that use
\* one, and works on a recorded payment in the steps that follow its COMMIT.
SnapSteps == {"directVerify", "createCommit", "confirmVerify", "confirmInsert",
              "confirmCommit"}
RecordedSteps == {"notify", "receipt", "flag", "confirmNotify",
                  "confirmReceipt"}
RequestOK(r) ==
    pc[r] # "idle" =>
      /\ req[r] \in Request
      /\ pc[r] \in SnapSteps => snap[r] \in Invoice
      /\ pc[r] \in {"directVerify", "directReplay"} => req[r].kind = "direct"
      /\ pc[r] \in CreateSteps \cup {"notify", "receipt"} =>
           req[r].kind \in {"direct", "manual"}
      /\ pc[r] \in ConfirmSteps \cup {"relaySend"} => req[r].kind = "relay"
      /\ pc[r] \in ListSteps => req[r].kind = "list"
      /\ req[r].kind \in {"direct", "manual", "relay"} => req[r].sig \in Sigs
      /\ req[r].kind \in {"direct", "relay"} => chain[req[r].sig] # NoTx
      /\ (pc[r] \in RecordedSteps \/ (pc[r] = "confirmLock" /\ dup[r])) =>
           req[r].sig \in Sigs /\ payments[req[r].sig] # NoPayment
RequestInv == \A r \in Requests : RequestOK(r)

\* What a request has verified stays verified, and the payee it has read is
\* the payee, or was until the invoice was sold.
VerifiedSteps == {"directReplay", "confirmCheck", "confirmLock",
                  "confirmInsert", "confirmCommit"} \cup CreateSteps
VerifiedInv ==
    /\ \A i \in Invoices : invoices[i].payee \in invoices[i].owners
    /\ \A r \in Requests :
         /\ pc[r] \in SnapSteps => snap[r].payee \in invoices[req[r].inv].owners
         /\ pc[r] \in VerifiedSteps /\ req[r].kind # "manual" =>
              /\ chain[req[r].sig].status = "confirmed"
              /\ chain[req[r].sig].payer = Invoicee[req[r].inv]
              /\ chain[req[r].sig].payee \in invoices[req[r].inv].owners

\* Only a request past its COMMIT has credited anything, and each did once.
CommittedSteps == {"notify", "receipt", "flag", "confirmNotify",
                   "confirmReceipt", "done", "lost"}
CreditInv ==
    /\ CreditedOnce
    /\ \A c \in credits :
         /\ \/ pc[c.by] \in CommittedSteps
            \/ /\ pc[c.by] = "rejected" /\ c.by \in halfDone
               /\ Unannounced(c.sig)
         /\ pc[c.by] \in {"notify", "confirmNotify"} => Unannounced(c.sig)
    /\ \A r \in Requests :
         pc[r] \in {"notify", "receipt", "flag", "confirmNotify"} =>
           \E c \in credits : c.by = r /\ c.sig = req[r].sig

ReceiptInv ==
    /\ ReceiptOnce
    /\ \A s \in Sigs : payments[s] = NoPayment => receipts[s] = 0
    /\ \A r \in Requests :
         /\ pc[r] \in {"notify", "receipt"} => receipts[req[r].sig] = 0
         /\ pc[r] = "flag" => receipts[req[r].sig] = 1
         /\ pc[r] = "confirmNotify" => receipts[req[r].sig] = 0

\* The inductive invariant of the payment handlers.
SettlementInv ==
    /\ TypeOK
    /\ LockInv
    /\ RequestInv
    /\ VerifiedInv
    /\ CreditInv
    /\ ReceiptInv
    /\ PaymentBacked
    /\ AnnouncedIsRecorded

\* Every request that arrives is answered: no transaction waits forever for
\* the locks of others, deadlocks included.
EveryRequestFinishes ==
    \A r \in Requests : pc[r] # "idle" ~> pc[r] \in Finished

\* Every payment that is recorded is announced, unless its request has ended
\* just after the COMMIT, for a crash or a failed read.
RecordedIsAnnounced ==
    \A s \in Sigs :
      payments[s] # NoPayment ~> \/ \E e \in events : e.sig = s
                                 \/ \E r \in halfDone : req[r].sig = s
-----------------------------------------------------------------------------
(* The relay implements a ledger.                                           *)

Ledger == INSTANCE PaymentLedger WITH
    NoRow <- NoPayment,
    rows <- [s \in Sigs |->
               IF payments[s] = NoPayment THEN NoPayment
               ELSE [invoice |-> payments[s].invoice,
                     amount |-> payments[s].amount]],
    paid <- [i \in Invoices |-> invoices[i].paid]

\* Where every payment goes through the relay, its transactions record payments
\* as if each of them took one step: none is lost, none is credited on top of a
\* balance another one has changed since (SELECT ... FOR UPDATE in
\* confirmPaymentAndMintOutcome).
LedgerSpec == Ledger!LedgerSpec
=============================================================================
