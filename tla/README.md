# Verification of the Invoix server

Invoix issues invoices that are paid in stablecoins on Solana. An Express
server keeps the invoices, payments, webhooks, subscriptions and marketplace
listings in Postgres, relays and verifies transactions, mints receipt NFTs, and
runs background jobs. This directory holds TLA+ specifications of the parts
where money and concurrency meet, the TLC configurations that check them on
small instances, and TLAPS proofs of their safety for all instances.

## 1. The system

### Components

| Component | State | Operations | What is hard |
|---|---|---|---|
| **Payment settlement**: `payment-confirmation-service.ts`, `payment-routes.ts`, `stablecoin-payment-service.ts`, `invoice-routes.ts` (payments, PATCH, DELETE), `invoice-storage.ts` | `invoices` (status, paid, remaining, payee), `payments` (unique `tx_signature`), `invoice_marketplace.status` | record a direct or manual payment; relay a signed transaction, then confirm it in the background; edit, cancel, delete an invoice | every handler awaits many times; two kinds of transactions take the same locks in different orders; what is verified is recorded up to minutes later, and the invoice may be sold meanwhile; crashes between COMMIT and what follows it |
| **Creation of invoices**: `invoice-routes.ts` (POST), `invoice-storage.ts`, `profile-routes.ts` | `business_profiles` (prefix, counter), `invoices` (unique number), line items | draw a number, insert, encrypt or delete afterwards; edit a profile | a counter behind a row lock, numbers unique across merchants who may share a prefix; plain text until a step after the COMMIT |
| **Webhook delivery**: `webhook-service.ts`, `webhook-routes.ts` | `webhooks` (status, failure count), `webhook_deliveries` (status, attempts) | emit, select, attempt, retry, exhaust, disable a hook; its owner's PATCH and DELETE | passes overlap, and each works on copies of rows; read-modify-write without a lock; crashes in the middle of an attempt |
| **QR payments**: `qr-payment-processor.ts` | the set `processedSignatures` in memory, `payments`, `invoices` | poll the treasury, verify, forward 99%, record, update the balance | passes overlap; a transfer that cannot be undone comes before the row that records it; no transaction |
| **Subscriptions**: `subscription-biller.ts`, `subscription-routes.ts`, `subscription-cleanup.ts` | `subscriptions` (status, period, version), renewal invoices and their line items | create, bill a period, cancel, confirm an invoice minted by hand, clean up | three statements per renewal and no transaction; the cycle does not look at the version the requests check |
| **Programs on chain**: `arcium-mxe/`, `marketplace-program/` | invoice and subscription accounts (owner, lock, delegate, period), listings, the NFT | create, lock, unlock, transfer, pay, mint from a subscription; list, cancel, buy | any wallet calls any instruction in any order |
| **Marketplace of the server**: `marketplace-routes.ts`, `marketplace-cron.ts`, `marketplace-service.ts` | `invoice_marketplace` (status, buyer), `invoices` (status, `nftTransferredTo`) | list, buy, confirm, cancel, expire, reconcile | two tables without a transaction; the database follows the chain, by hand and by two jobs |
| **NFT service**: `nft-service.ts`, `nft-routes.ts`, `index.ts` | tree and collection in memory and in `system_settings`, the promise of `initialize`, the asset id of an invoice | initialize, create tree and collection, heal, mint and record the NFT of an invoice | callers share one promise; a creation whose answer is lost; the leaf of a mint is read from logs |
| Everything else | | | see `PROJECT.json`: authentication, credit scores, e-mail, metrics, pricing, community drop, exports, data protection, web client, scripts |

### How they interact

* Every handler shares the tables of one Postgres database at READ COMMITTED.
  What keeps two requests apart is the unique indexes on `payments.tx_signature`
  and `invoices.invoice_number`, `SELECT ... FOR UPDATE` in the relay's transaction
  and on the profile a number is drawn from, the key-share lock of a foreign key,
  and the `version` column of a subscription.
* The relay answers the customer as soon as the transaction is sent, and goes
  on in the same process as `confirmPaymentAndMintOutcome`.
* Recording a payment emits a webhook event, which starts a delivery pass.
* The relay's transaction cancels the listing of the invoice it settles;
  `confirm-purchase` makes the buyer the payee, whatever payments are under way.
* The QR processor writes `payments` and `invoices` next to the request handlers.
* The billing cycle creates invoices, which the other parts then settle.
* An NFT minted by the NFT service is what a listing takes into escrow; the
  marketplace program locks the invoice account of the MXE program through it.

### What makes each correct

*Settlement*: a transaction is credited once, to one invoice, for what it paid, to
a wallet that was to be paid; no balance is more than its payments, and the relay
loses none; an invoice that is paid was paid in full, and is off the market unless
POST /list overtook the payment; an error has credited nothing, unless what follows the
COMMIT failed before the event; events and receipts are about recorded payments;
requests never wait on each other for ever.
*Creation*: no number is lost or drawn backwards; a merchant never collides with
himself; nothing that was to be encrypted is left in plain text under an answer that
says otherwise, unless its deletion has failed.
*Webhooks*: nothing is given up before its last attempt, disabled without its
failures, or recorded as delivered without a 2xx; every delivery comes to rest.
*QR*: a payment is credited once, recorded only when forwarded, forgotten only
when dealt with; no balance is more than was added to it; whatever fails, it settles, as long
as a pass can see it and its invoice.
*Billing*: periods are billed in order, each once; billing moves on.
*Programs*: a listing holds what it sells and nothing else; a sale hands over the NFT
for the price; a period is minted once.
*Marketplace*: nobody is paid who neither held the NFT nor said itself that it bought
it; a sale is routed to its buyer; no listing stays active that is over or whose NFT
has left.
*NFT service*: one tree and one collection; an invoice records its own NFT, unless a
confirmation of it did not show its mint; a service that can heal does.

## 2. The modules

| Module | Models |
|---|---|
| `Settlement` | the payment handlers, PATCH, DELETE, POST /list and a sale, over Postgres and Solana |
| `PaymentLedger` | what recording payments should amount to: one atomic credit each |
| `InvoiceCreation` | creation, numbering and encryption of invoices, edits of profiles |
| `WebhookDelivery` | emission, passes, attempts, health updates, edits of hooks |
| `QRPayments` | the passes of the QR processor, and other writers of an invoice |
| `SubscriptionBilling` | billing cycles, cleanup and requests about subscriptions |
| `Renewals` | what billing should amount to: one period after another, each once |
| `ArciumMxe` | the accounts and instructions of the MXE program |
| `MarketplaceProgram` | listings over `ArciumMxe` and the compressed NFTs |
| `Escrow` | what a listing should amount to: the NFT is held, given back or sold |
| `Marketplace` | the server's listings and cron jobs, over an instance of `Escrow` |
| `NftService` | initialization, healing, and the NFTs of invoices |
| `*Proofs` | proofs about each of them (`ProgramProofs` covers the three modules on chain) |
| `MC_*` | the instances TLC checks |

A convention of all of them: where two operators with the same parameters stand
one above the other, the first one is a plausible fault in the code the second
one models. No action uses it. Put in place of the second, it makes one of the
runs fail; this is how we know that each property can fail at all.

### Settlement and the code

One action is one await: what runs between two awaits is atomic in Node. `pc[r]`
is where request `r` is, `req[r]` what it asks, `snap[r]` the row it last read.

| Actions | Code |
|---|---|
| `DirectReceive`, `DirectVerify`, `DirectReplay`, `ManualReceive` | `POST /api/payments`: read, `verifyStablecoinPayment`, `isSignatureUsed` |
| `CreateCheck` ... `CreateCommit` | the transaction of `createPayment` |
| `Notify`, `Receipt`, `Flag` | webhook and receipt after it |
| `RelayReceive`, `RelaySend` | `POST /payments/relay` |
| `ConfirmReplay` ... `ConfirmVerify` | `confirmPaymentAndMintOutcome` up to its transaction |
| `ConfirmCheck` ... `ConfirmCommit` | its transaction |
| `ConfirmNotify`, `ConfirmReceipt`, `Flag` | what follows |
| `PatchReceive/Write`, the delete and cancel actions | PATCH and DELETE `/api/invoices/:id` |
| `ListReceive`, `ListCheck`, `ListInsert`, `ListWrite` | `POST /list`: the invoice and its status, `existingListing`, the new row, the status "listed" by id |
| `StatementFails` | a statement that fails: outside a transaction it ends the request, inside it rolls back; after the COMMIT of `createPayment` it is `getInvoice` or the import of `invoice-routes.ts:1089-1092`, outside any `try` |
| `SellListing`, `RouteToBuyer` | the two writes of `confirm-purchase`: from then on the buyer is the payee |
| `PayDirectly`, `SignForRelay`, `ChainSettles` | the wallets and the cluster |

Postgres is modelled by what these handlers can notice of it. `claim[s]` is an
uncommitted row in the unique index: a second insert waits for it and fails on a
committed one. `excl[i]` and `share[i]` are `FOR UPDATE` and the foreign key's
`FOR KEY SHARE`; `FOR UPDATE` waits for both, an `UPDATE` of non-key columns only
for `excl`. `createPayment` takes the index entry first and the invoice second,
the relay the other way round, so they can deadlock: one of a cycle of waiting
transactions is then rolled back, as Postgres' deadlock detector does. Writes
become visible in the last step of a transaction.

`listing[i]` counts the active rows of an invoice, because `POST /list` inserts without
a unique index behind its check: `active` there are, `most` there have been at once.
`halfDone` is the history of requests that a fault ended with one of their writes done
and the next one not.

### WebhookDelivery and the code

`attempt[p][d]` is where pass `p` is with delivery `d`, with the number it counted
from its own copy of the row. `Mark`, `Send`, `Succeed`, `Fail`, `HealthRead` and
`HealthWrite` are the awaits of `attemptDelivery` and of what it calls;
`StatementFails` lands in its `catch`. `Ready` and `Select` are
`processWebhookDeliveries`; `Emit` and `Queue` are `emitWebhookEvent`, row by row.
The owner's PATCH reads and writes in two steps, like the code.

### QRPayments and the code

`pass[p]` holds the locals of one run of `processQRPayments`: the rows of the open
invoices as read by `Begin`, the signatures as read by `Fetch`, and where its two
loops are. `Look` and `Verify` are the inner loop; `Dedupe`, `Send`, `Insert` and
`Update` are `distributePayment`. The three nested `try` blocks decide how much an
error ends (`CallFails`). `Send` has three outcomes: confirmed, failed, and unknown,
where `sendAndConfirmTransaction` throws although the transfer went through. `OtherReads`
and `OtherWrites` are a payment, a PATCH or a DELETE of `invoice-routes.ts`: each reads the
row, and writes later, over whatever the row has become. `Begin` takes any `Limit` of the
open invoices, as the query without ORDER BY may.

### InvoiceCreation and the code

| Actions | Code |
|---|---|
| `LockProfile`, `FindNoProfile`, `TimeNumber` | the `FOR UPDATE` on the profile; without a profile the number is a time stamp |
| `TakeNumber`, `SkipNumber`, `StampNumber`, `WriteCounter` | the loop that looks for a free number, its fallback, and the counter |
| `Insert`, `InsertFails`, `InsertItems`, `Commit` | the rest of the transaction of `createInvoiceWithItems` |
| `Encrypt` ... `Delete`, `CleanupFails`, `Notify` | what POST does afterwards: encrypt and scrub the text, or delete the invoice; whether the deletion works or not, the answer is the same 503 ("unavailable") |
| `EditRead`, `EditUpdate`, `EditInsert`, `OwnerDeletes` | PUT of a profile; deletion of a draft |

The unique index on the number makes an insert wait for the transaction with an
uncommitted row of that number, and fail on a committed one.

### SubscriptionBilling and the code

A cycle is a copy of the rows due at its start (`Begin`) and the row it is at
(`Pick`); `Insert`, `Items` and `Update` are the three statements of a renewal, and
`StatementFails` lands in the `catch` that goes on with the next row. `Receive`,
`Refuse` and `Confirm` are `confirm-cancel` and `confirm-invoice`, which compare the
version they have read. No route activates a subscription (`Activate` is the hand
of an operator). `Tick` moves the clock by days.

### ArciumMxe, MarketplaceProgram, Escrow and the code

One action is one instruction: `CreateInvoice`, `LockInvoice`, `UnlockInvoice`,
`CompleteTransfer`, `MarkInvoicePaid`, those of subscriptions, and
`MintInvoiceFromSubscription`; over them `ListInvoice`, `CancelListing` and
`BuyInvoice`, each with the calls it makes of Bubblegum and of the MXE program. All of
them succeed or none takes effect, as the runtime does it. A listing is an account
found by the *tree* of its NFT, so that a tree has one listing at a time. `list_invoice`
compares the invoice account with the leaf; `buy_invoice` and `cancel_listing` take any
account, as `buy.rs:59` and `cancel.rs:38` do, so an account may part from its NFT.

### Marketplace and the code

The chain is `Escrow`. What the server draws up waits in `toSign` and `purchase`
until a wallet signs (`ListLands`, `CancelLands`, `PurchaseLands`), declines or lets it
lapse. `List*`, `Cancel*` and `Confirm*` are the awaits of the handlers, and `Expire*`
and `Reconcile*` those of the two jobs; a request or job that fails is where it was
between two of them. `MayConfirm` lets a wallet confirm any listing in any status, with a
signature of its purchase or of anything else the node does not know to have failed;
`claims` is the history of those who did without having held its NFT. `SettleInvoice` is a
payment as `Settlement` records it.

### NftService and the code

`Initialize` hands out the shared promise or starts `doInitialize`, whose awaits run
from `ReadTree` to `UpdateCollection`. `MintRead`, `MintBuild` and `MintLands` draw up the
mint, which the invoicer's wallet sends; `ConfirmMint`, `ReadLeaf`, `DeriveAssetId` and
`RecordMint` are `confirm-mint`, which takes any signature for any invoice; `NoLogs` is its
fallback to leaf 0. `unproven` is the history of the invoices so confirmed, `undeleted` in
`InvoiceCreation` that of the deletions that failed. `CreateUnheard` and `MintUnheard` are calls that took effect
and whose answer is lost.

## 3. What TLC checks

| Run | States | What it shows |
|---|---|---|
| `Settle_relay` | 3.3 M | Three requests among relay, PATCH, DELETE and POST /list, with a sale and a fault. The relay's transactions refine `PaymentLedger`, so no payment is lost or doubled; whoever was paid was to be paid; a paid invoice is off the market unless POST /list overtook the COMMIT, or had made two active rows of it. |
| `Settle_mixed` | 1.9 M | Direct, manual and relayed payments of one invoice by two customers, two signatures and a fault: each is credited once and has one receipt; a request that ends in an error has credited nothing, unless it failed between COMMIT and event; no balance is more than the payments recorded; and transactions deadlock only over a signature that arrives both ways. |
| `Settle_live` | 210 k | Under weak fairness, with a fault, every request is answered, deadlocks included, and every recorded payment is announced unless its request ended just after the COMMIT. |
| `Invoices` | 384 k | Two overlapping requests of one merchant and one of another with the same prefix, an edit or deletion, and a fault: numbers, encryption (a deletion that fails excepted), and that every request ends. |
| `Webhooks` | 351 k | Two overlapping passes, an edit or deletion by the owner, and a crash or a failed statement. |
| `QR` | 1.9 M | Two payments of two invoices under two overlapping passes, one other payment, PATCH or cancellation, and one crash, failed call or unknown outcome: each is credited once, no balance is more than was added to it, and each settles unless later transactions bury it or more invoices stay open than a pass reads. |
| `Billing` | 130 k | Two overlapping cycles, two requests and a fault: periods are billed in order and once (`Renewals`), a cancelled one at most once more, and billing moves on unless it was left between an invoice and the next period. |
| `Programs` | 1.2 M | Every order of all instructions: periods, prices, and that listings implement `Escrow`. |
| `Market` | 1.0 M | A listing, a buyer who may confirm what he likes, two requests at a time, both jobs, a fault anywhere: who is paid held the NFT or claimed it himself; sales are routed; no listing stays active that is over or has lost its NFT. |
| `Nfts` | 2.7 M | Startup and timer initialize while two requests mint NFTs of two invoices, or confirm any signature for any invoice, with one fault anywhere: creations, restarts, whose NFT is recorded, and that the service heals. |

Two more runs end in a counterexample: each checks a sentence of a comment of the
repository that the code does not live up to.

| Run | Sentence | What happens |
|---|---|---|
| `Claim_lost_update` | "Get invoice INSIDE transaction to prevent race conditions" (`invoice-storage.ts:535`) | two payments recorded together; without `FOR UPDATE` one is missing from the balance |
| `Claim_nft_heals` | "CRITICAL FIX: Clear the mutex so self-healing can retry" (`nft-service.ts:350`), "Self-Healing / Retry Monitor" (`index.ts:426`) | a wallet with too little for a tree at startup: that exit keeps the settled promise, and funding the wallet later changes nothing |

### Bounds, and why they are enough

* *Settlement.* Three requests: a lost update or a double credit needs two, a
  deadlock two, and a third one can come between the verification of one and its
  commit. Two signatures: one to be replayed and one to compete with it. Requests
  are symmetric. One fault, a crash or a failed statement: a crash
  ends every request and releases every lock, and what a failed statement leaves
  behind meets steps that work. One buyer and one sale: a payee that changes once while a payment is
  under way. Two customers in `Settle_mixed`, where they compete; one in `Settle_relay`, where
  the requests of others compete with his. Amounts are those of a 1 USDC invoice with a fee of 1%; half and full
  payments reach "partial", "paid" and overpaid. `Settle_relay` adds a transfer 60
  units off, within the tolerance of 100, so that balances are clamped. In
  `Settle_mixed` and `Settle_relay` the total equals the subtotal (a discount as
  large as the fee), because with a fee the relay records nothing.
* *Invoices.* Three requests, one edit or deletion and one fault: a number can be
  contended, passed over and taken back. `Attempts` is 2 for the code's 10, so that
  the fallback is reached.
* *Webhooks.* Two attempts and a threshold of two: the smallest values at which a
  count can be reset, and a last attempt is not the first. Two passes: one
  stale copy needs one other writer.
* *QR.* `Limit` is 1 for the code's 20 and `Window` 1 for its 50, so that with two invoices
  and two payments a pass leaves an open invoice out, and a payment is buried. The
  amount, 999, suffices for the one invoice, of 1000, with the tolerance, and not for the
  other, of 1400. The other request is about the second invoice, whose cancellation makes
  room for the first. The proofs hold for every value.
* *Billing.* A weekly plan and a clock that steps by 31 days up to day 62: several
  periods are due at once, and two are billed. Two cycles and two requests: a copy
  of a row is stale after one other writer.
* *Programs.* Two invoices in one tree, which compete for its listing; two wallets,
  one of them the treasury; a subscription of one period of one day.
* *Market.* One invoice with one row, one buyer and the seller, and two requests at a
  time. A second row of the same invoice, which two overlapping requests to list it or
  the end of the first would give, makes the instance too large; the proofs cover any
  number of rows, liveness is checked for one. `DirectCallers` are the wallets that call
  `confirm-purchase` with whatever signature: the buyer in the run, anyone in the proofs.
* *Nfts.* Two callers share or race for the promise; two invoices are enough to
  mistake one leaf for another. The settings hold a tree of another network, which has
  to be replaced; `Claim_nft_heals` also starts with none.
* One fault in each: what a crash or failed call leaves behind is then seen by
  steps that all work. The safety properties are proved for any number.
* `CHECK_DEADLOCK FALSE`: each request arrives at most once, each payment is made
  once and the bounds run out; the system then stops, as an NFT does that is in the
  escrow of a cancelled listing. That no request is stuck is `EveryRequestFinishes` and
  `EveryRequestEnds`.

### Fairness

* `Settlement`: weak fairness of each request's steps, the deadlock detector's among
  them: the event loop and Postgres go on with what has begun. Nobody has to send a
  request or a transaction, and the cluster owes no answer, because both waits for it
  time out. Fairness does not keep a crash or a failed read from losing an event for good
  (`halfDone`), which is what the code does; `RecordedIsAnnounced` excepts those requests.
* `InvoiceCreation`: the steps of requests and edits that have begun.
* `WebhookDelivery`: a pass starts every minute (`startWebhookCron`), a retry's time
  comes, and an attempt goes on (`AbortController`, and the limits of `fetch`).
* `QRPayments`: `setInterval` starts passes, which go on. Nothing is assumed about
  the customer, other requests, or the absence of failures beyond `MaxFaults`.
* `SubscriptionBilling`: a cycle begins at each midnight and goes on.
* `Marketplace`: the two cron jobs run. Nothing is assumed about wallets or requests.
* `NftService`: the timer comes back each minute (`setInterval`), awaited steps end.

## 4. What is proved

The proofs hold for every set of invoices, signatures, requests, merchants, hooks,
passes, cycles, wallets and so on, for all amounts and limits, and any number of
crashes and failures, from the named assumptions on the constants
(`SettlementAssumption` and the like): the "none" values are none of the values,
numbers are naturals, and where the invariant counts, that the sets are finite. In
each module the properties are not inductive as they stand; the invariant that is
says why they hold. TLC helped to find each of them, on the instances above. Some of
what follows from them is only proved, and left out of the runs: `AnnouncedIsRecorded`,
`BalanceAddsUp`, `PaidIsCovered`, that relays alone never deadlock, `DeliveredWasAccepted`,
`RecordedWasForwarded`, `DroppedForAReason`, `BilledOnce`, `DelegateWhileLocked`,
`CustodyIsListed`, `EscrowIsRecorded` and the types. TLC finds no violation of these either,
on the instances of section 3.

**SettlementProofs.** What is missing is *why* two commits of one signature cannot
happen: `SettlementInv` says that a lock is held exactly while its holder is between
taking it and its COMMIT (`LockInv`), that a request is at a step of its kind
(`RequestInv`), that what it verified still holds (`VerifiedInv`: a confirmed
transaction stays as it is, and whoever a request has read as payee is one the invoice
has had, sold since or not), and that only a request past its COMMIT has credited
anything (`CreditInv`). From `claim[s] # NoRequest => payments[s] = NoPayment` it
follows that the request that commits a row commits the first one.
`RelayImplementsLedger`: where every payment goes through the relay, what it commits on
is the row under its lock (`FreshInv`), so each commit is one step of the ledger.

*Balances.* `SumRecorded(i)` is the sum of the payments recorded for an invoice, a fold
over a finite set. The library of the prover has no theorems about it, and what a
recursive function computes cannot be proved by induction here, so the module first
shows what it needs: that the sum of the empty set is zero, that any element may be
taken out, and that a payment adds its amount. Where an induction over the size of a set
would be used, the proof takes the smallest size for which the statement fails.
Two invariants follow. `OvercreditInv`: no balance, in the table or in a row some request
has read, is more than the sum; rows get old, but sums only grow
(`NothingOvercredited`). `BalanceInv`: the three columns of every row, read or written,
agree, although `createPayment` computes them from the total and the relay from what
remains (`ColumnsAgree`). Together they give `PaidInvoicesAreCovered`: an invoice that says
it is paid has payments of its whole total, even though two direct payments can
overwrite each other. Where every payment goes through the relay the sums are exact
(`RelayedPaymentsAddUp`), and a paid invoice is for sale only if POST /list overtook its
payment or had made two rows of it (`PaidInvoicesAreDelisted`). `ErrorsAreBeforeTheEvent`: of the
requests that end in an error, only those that failed between COMMIT and event have
credited anything, and nobody hears of what they credited.

*Hypotheses.* `OnlyRelayed` (no endpoint records a payment by `createPayment`) says of which
traffic a theorem speaks: the other endpoints do lose payments (`Claim_lost_update`) and
leave listings alone. `PaidInvoicesAreDelisted` also asks that no PATCH writes "paid".
`ColumnsKept` says that no PATCH writes a total or the status
"paid", as a PATCH can, over what the payments have made of the row.

*Deadlocks.* By `LockInv` whoever is waited for holds what is wanted, so a cycle needs a
holder of a signature that waits for an invoice and a holder of an invoice that waits for
that signature: one request of each kind about the same signature
(`OnlyMixedDeadlocks`, `OneWayNeverDeadlocks`).

**InvoiceProofs.** `CreationInv`: a profile is locked by exactly the transaction that has
read it and is not over (`LockInv`); the number a transaction has counted to is not
behind the counter, and what it passed was taken (`CountInv`). So the counter never
passes a number nobody has, and only another merchant can take a number away.
`NeverDeadlocks`: who has put a number into the index waits for nobody, so who has locked
a profile waits only for those who do not wait.

**WebhookProofs.** `WebhookInv` counts: the attempts of a row against the failures that
were handled, and each pass's own copy against the row.

**QRProofs.** `QRInv`: what each pass is doing with a signature is what the set in
memory, the transfers and the tables allow. `BalanceInv`: passes and requests write
balances from rows that are out of date, so payments may be lost from a balance; but the
row was never more than had been added by then (`Balances`), and the status is written
with that row and its sum, both old, and PATCH writes the status by itself: so nothing
is said here about what "paid" means.

**BillingProofs.** Nothing is billed past a row's current period, and a copy a cycle works
on is of the current period or of one already billed (`PeriodInv`); a subscription
that is over is billed late only by a copy from before (`LateInv`); a version never comes
back (`VersionInv`). `BillingImplementsRenewals` is the refinement: each insert bills the
next period.

**ProgramProofs.** An NFT is in the custody of a listing if and only if the listing
names it; an account has a delegate while it is locked; minted periods are those
before the next one (`MintedInv`). From this follow the refinement of `Escrow`, the price
of a sale whatever account it names, and that a locked subscription keeps its period.

**MarketProofs.** A payee or recorded buyer is in `held`, the history of holders, or in
`claims`: what a job or a request is about to write was in one of them when it was read, and
neither shrinks. A sold row has its payee, a step that is about to write it, or a failure
just there (`halfSold`); an NFT in escrow, or a transaction that would put it there, has a
row. None of this assumes anything about the confirmations or the failures.

**NftProofs.** The promise is a mutex: one task at a time is inside `doInitialize`. The row
of `system_settings` is what memory holds; each creation beyond the first has a fault of
its own; and a leaf is recorded for the invoice it was minted for, whatever fails, unless
a confirmation of that invoice did not show its mint or a second tree was made.

**Only model-checked.** Liveness (`EveryRequestFinishes`, `RecordedIsAnnounced`,
`EveryRequestEnds`, `EveryDeliverySettles`, `EveryPaymentSettles`, `BillingMovesOn`,
`Reconciled`, `ExpiredIsDelisted`, `SelfHeals`): fairness and ENABLED are out of the
prover's reach. Every safety property of a run is a theorem. `PaidIsDelisted` and
`LedgerSpec` are under `OnlyRelayed`, which is also what their run assumes. No module declares a RECURSIVE operator.

## 5. What is not modelled

* *Settlement*: a COMMIT that takes effect and whose answer is lost, and a send of the
  relay that does; the SQLite fallback; columns other than status, totals, balance and
  payee; the community-drop branch of the confirmation; the return of an escrowed NFT.
  Failures after the event of a direct payment are caught (`invoice-routes.ts:1118`, 1187 on);
  those before it are in `StatementFails`. Of the marketplace it has POST /list and the
  sale, as the two writes of `confirm-purchase`, whose reading and writing of the listing's
  row are one step; the cancellation of a listing by its seller and its expiry are in
  `Marketplace` only. Sessions and signatures are taken as checked.
* *Invoice creation*: amounts, the capture of a customer's e-mail, the credit score
  computed in the background, previews of addresses, the year in a number.
* *Webhooks*: the clock, HMAC, the filter by event type, creation of a hook beyond
  the state it creates, secret rotation, the test delivery.
* *QR*: floating-point arithmetic, SOL as against tokens, the webhook and the credit
  score at the end. A pass's transactions carry the memo of one invoice. What other
  requests pay has other signatures than the payments by QR code.
* *Billing*: amounts, the requests that only draw up a transaction, pause and
  resume (no route), and the on-chain account, which is in `ArciumMxe` and is not
  composed with the rows of the server.
* *Programs*: an invoice account and its NFT go by one name, which `list_invoice`
  enforces and nothing else does; wallets give NFTs only to wallets (Bubblegum
  transfers to any key), and the platform mints only to wallets; the default key as a
  delegate is left out. The encryption and the network that computes on it are not
  modelled. The purchases and cancellations the server draws up name no invoice account
  (`marketplace-service.ts:306-321`), which Anchor refuses as a whole, so that nothing of
  them is left to model.
* *Marketplace*: access to blind listings, scores and views.
* *NFT service*: addresses of a tree or collection in the environment (taken as
  unset), another authority of the collection, special mints, identities, batches.
* *Not modelled at all*: credit scores and risk (derived from past payments, and no
  payment depends on them); the community drop (its supply is a counter on chain and
  in one process); data protection (one transaction over every table); authentication,
  e-mail, metrics, prices, exports, screens, scripts. `PROJECT.json` lists each
  component with its reason. About half of the repository's lines are the pages and
  widgets of the web client, which keep no state that these properties are about.

### Other things we noticed

Settlement and invoices:

* With a platform fee, the relay accepts a transfer of the subtotal and the
  confirmation expects the total: such a payment is never recorded, although
  `pay-invoice.tsx:447` relies on it.
* The relay's confirmation hands the mint `{payment, isNew}` instead of the row, so
  that it mints no receipt (`payment-confirmation-service.ts:20` says it does).
* A payment to the seller that the relay has sent is refused by the confirmation, and
  never recorded, if the sale is routed in between.
* The confirmation of the relay gives up after 30 s (`payment-confirmation-service.ts:43`);
  a transaction confirmed later is never recorded.
* A direct payment of an amount records the 99% that reach the payee: an invoice
  paid in full that way ends "partial".
* DELETE cancels a paid invoice, which `invoice-state-transitions.test.ts:60` excludes.
  PATCH checks "paid" before its update (`invoice-routes.ts:579`), and a payment
  recorded in between can be overwritten. A payment of a cancelled invoice makes it
  paid.
* An invoice paid outside the relay stays listed. One paid through it does too, if POST
  /list read it before and inserts its row after, although
  `payment-confirmation-service.ts:247-248` says that it "should be cancelled": the
  exception of `PaidIsDelisted`.
* POST /api/payments awaits `getInvoice` and an import after its COMMIT
  (`invoice-routes.ts:1089`, 1092), outside any `try`: if one fails, the answer is 500, the
  payment is recorded and nobody is told. The exception of `CreditedDespiteError`.
* `overpaymentAmount` in `createPayment` is computed from a remaining amount that was
  already clamped, so an overpayment is never logged.
* The schema of POST strips `invoiceNumber`, so that every number is drawn. The limit
  of 100 line items is checked before the insert.
* `invoice-routes.ts:155` looks a customer up by wallet alone, whatever business the
  profile belongs to, and writes the e-mail address to the first one it finds.
* POST answers 400 "Privacy Error" for an invoice it has already created, and
  a crash between the COMMIT and the scrubbing leaves plain text behind. "The invoice was
  not created to protect your privacy" (`invoice-routes.ts:266`) is also the answer when the
  deletion fails and the invoice is there in plain text: the exception of `EncryptedOrGone`.

Webhooks and QR payments:

* An unreadable secret, or a crash, leaves a delivery "processing" for good, which
  `webhooks-schema.ts:85` calls "currently being delivered".
* The failure count of a hook is called consecutive, but a stale health update can
  undo a reset or an increment.
* Two overlapping passes can both forward the same QR payment
  (`qr-payment-processor.ts:9` says "Prevents double-processing"). Only its crediting is safe.
* A pass polls 20 open invoices, in no order (`qr-payment-processor.ts:60-67`): while more are
  open, a payment may never be looked at. The exception of `EveryPaymentSettles`.
* The QR processor pays `invoicerWalletAddress`, also after the invoice was sold.
* A failure between its insert and its update leaves a QR payment recorded, in no
  balance, and skipped by every later pass.

Subscriptions:

* A crash or failure between a renewal invoice and the new period stops the
  subscription: every later cycle fails on the unique number.
* No route activates a subscription. Plans are "weekly", "monthly" or "yearly", and
  the biller knows "month" and "year" (`subscription-biller.ts:54`): it renews all by 30
  days.

Marketplace:

* The server has no way to take an expired listing's NFT out of escrow again.
* The cron jobs write by id, over whatever has happened to the row since they read it.
* `confirm-purchase` takes any signature whose status has no error, one the node knows
  nothing about included, of any wallet for any listing in any status, although
  `marketplace-routes.ts:532` says "Confirm on-chain purchase success": the exception of
  `HeldByPayee`.
* `buy.rs:59` and `cancel.rs:38` take any invoice account: who ends a listing decides which
  account is unlocked or handed over with the NFT. The transactions the server draws up
  name none.

NFTs:

* `confirm-mint` takes any signature for any invoice, and records leaf 0 where the logs are
  missing, although `nft-routes.ts:116-117` calls the leaf index "authoritative": the
  exception of `RecordedIsItsOwn`. Nothing keeps an invoice from being minted twice.
* Recalculating a credit score writes counters over those incremented meanwhile, and
  `monthsWithActivity` is never written. The community drop checks its supply and its
  one-per-wallet rule before the mint. Deleting the data of a second user fails on a
  unique index of the anonymized value, and deletion renames the payee of invoices
  with payments under way.

## 6. Plan

Done: settlement with listing and sale composed into it, creation and numbering, webhooks, QR
payments, billing, the two programs, the server's marketplace, the NFT service.

What is left, in this order:

1. The cancellation of a listing by its seller and its expiry inside `Settlement`, next to
   POST /list and the sale.
2. Proofs: how far a balance can fall short of its payments, by the number of requests
   that overlap; that the passes of the webhooks send no delivery more often than
   their number allows.
3. Credit scores, whose counters are read, changed and written by three handlers at once.
4. The community drop and the special mints, with their supply.
5. Line items and their totals; data protection, as one transaction next to payments.

## 7. Running

    tlc -config Settle_relay.cfg MC_Settlement
    tlc -config Settle_mixed.cfg MC_Settlement
    tlc -config Settle_live.cfg MC_Settlement
    tlc -config Invoices.cfg MC_InvoiceCreation
    tlc -config Webhooks.cfg MC_WebhookDelivery
    tlc -config QR.cfg MC_QRPayments
    tlc -config Billing.cfg MC_SubscriptionBilling
    tlc -config Programs.cfg MC_MarketplaceProgram
    tlc -config Market.cfg MC_Marketplace
    tlc -config Nfts.cfg MC_NftService
    tlc -config Claim_lost_update.cfg MC_Settlement
    tlc -config Claim_nft_heals.cfg MC_NftService

and `tlapm` on `SettlementProofs`, `InvoiceProofs`, `WebhookProofs`, `QRProofs`,
`BillingProofs`, `ProgramProofs`, `MarketProofs` and `NftProofs`.

`PROJECT.json` lists the components, the runs with their properties, the source
lines each definition stands for, the hazards each property is aimed at, and the
theorems.
