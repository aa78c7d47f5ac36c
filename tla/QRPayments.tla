----------------------------- MODULE QRPayments -----------------------------
(***************************************************************************)
(* Payments by QR code (server/qr-payment-processor.ts).  The customer     *)
(* sends the money to the treasury, with the invoice's reference in a      *)
(* memo.  Every 15 seconds a pass of processQRPayments matches the         *)
(* treasury's latest transactions with the open invoices, forwards 99% of  *)
(* what it received to the invoicer, and then records the payment.  A pass *)
(* starts whether or not earlier ones have ended; all of them share the    *)
(* set processedSignatures, in memory, and the database, which they write  *)
(* without a transaction.                                                  *)
(*                                                                         *)
(* The other writers of an invoice are the requests of invoice-routes.ts:  *)
(* each reads the row, and writes later, whatever the row says by then.    *)
(* What they pay has signatures of its own.                                *)
(*                                                                         *)
(* Amounts are integers, where the code computes with floating point.      *)
(*                                                                         *)
(* Where two operators with the same parameters stand one above the other, *)
(* the first is a fault the second must not have; no action uses it.       *)
(***************************************************************************)
EXTENDS Integers, FiniteSets, Sequences

CONSTANTS
    Invoices,
    Sigs,           \* signatures of the customers' transactions
    Passes,         \* bound: passes that run at the same time
    Others,         \* other requests, each at most once
    Asked,          \* the invoices they are about
    NoInvoice, NoSig, NoTx, NoRow,   \* "none" of each
    Total,          \* Total[i]: total_amount, as the invoice was created
    Amounts,        \* what is paid, by QR code or otherwise
    Limit,          \* LIMIT of a pass
    Window,         \* how many transactions of the treasury a pass looks at
    PatchStatuses,  \* statuses and totals a PATCH may set
    PatchTotals,
    MaxFaults       \* bound on crashes, failed calls and failed statements

Statuses == {"draft", "sent", "viewed", "partial", "paid", "overdue",
             "cancelled", "listed"}
Row == [status : Statuses, total : Nat, paid : Nat, remaining : Nat]
Tx == [inv : Invoices, amount : Nat]
Other == [at : {"idle", "pay", "patch", "cancel", "done"},
          inv : Invoices \cup {NoInvoice}, row : Row \cup {NoRow}]
Pass == [at : {"idle", "fetch", "next", "look", "verify", "dedupe", "send",
               "insert", "update"},
         todo : SUBSET Invoices, row : [Invoices -> Row \cup {NoRow}],
         list : Seq(Sigs), inv : Invoices \cup {NoInvoice},
         rest : Seq(Sigs), sig : Sigs \cup {NoSig}]

ASSUME QRAssumption ==
    /\ NoInvoice \notin Invoices
    /\ NoSig \notin Sigs
    /\ NoTx \notin Tx
    /\ NoRow \notin Row
    /\ Total \in [Invoices -> Nat]
    /\ Amounts \subseteq Nat \ {0}
    /\ Limit \in Nat \ {0}
    /\ Window \in Nat \ {0}
    /\ Asked \subseteq Invoices
    /\ PatchStatuses \subseteq Statuses
    /\ PatchTotals \subseteq Nat
    /\ MaxFaults \in Nat

VARIABLES
    invoices,   \* the invoices table
    recorded,   \* the payments table: the signatures it has rows of
    chain,      \* chain[s]: what s has paid to the treasury, and for what
    treasury,   \* the treasury's transactions, in their order
    processed,  \* processedSignatures
    pass,       \* where each pass is
    forwarded,  \* history: forwarded[s]: how often 99% of s went on
    credited,   \* history: credited[s]: how often s was added to a balance
    refused,    \* history: signatures refused for their amount
    counted,    \* history: counted[i]: all that was added to i's balance
    others,     \* where each other request is, and the row it has read
    faults      \* how many faults there were

tables == <<invoices, recorded, credited, counted>>
money == <<chain, treasury>>
bounds == <<others, faults>>
vars == <<tables, money, bounds, processed, pass, forwarded, refused>>

Idle == [at |-> "idle", todo |-> {}, row |-> [i \in Invoices |-> NoRow],
         list |-> <<>>, inv |-> NoInvoice, rest |-> <<>>, sig |-> NoSig]

Silent == [at |-> "idle", inv |-> NoInvoice, row |-> NoRow]

Init ==
    /\ invoices = [i \in Invoices |->
                     [status |-> "sent", total |-> Total[i], paid |-> 0,
                      remaining |-> Total[i]]]
    /\ recorded = {}
    /\ chain = [s \in Sigs |-> NoTx]
    /\ treasury = <<>>
    /\ processed = {}
    /\ pass = [p \in Passes |-> Idle]
    /\ forwarded = [s \in Sigs |-> 0]
    /\ credited = [s \in Sigs |-> 0]
    /\ refused = {}
    /\ counted = [i \in Invoices |-> 0]
    /\ others = [o \in Others |-> Silent]
    /\ faults = 0

-----------------------------------------------------------------------------
(* The customers, and the other writers of an invoice.                     *)

\* Anyone may send anything to the treasury, with the reference of an invoice.
Pay(s) ==
    /\ chain[s] = NoTx
    /\ \E i \in Invoices, a \in Amounts :
         chain' = [chain EXCEPT ![s] = [inv |-> i, amount |-> a]]
    /\ treasury' = Append(treasury, s)
    /\ UNCHANGED <<tables, bounds, processed, pass, forwarded, refused>>

\* Fault: what is good enough counts as all that was due.
RoundedUp(now, row, amount) ==
    LET paid == row.paid + amount
        enough == 1000 * paid >= 999 * row.total
    IN [status |-> IF enough THEN "paid" ELSE "partial",
        total |-> now.total,
        paid |-> IF enough /\ paid < row.total THEN row.total ELSE paid,
        remaining |-> IF enough THEN 0 ELSE row.total - paid]

\* The columns of an invoice after a payment, from a row that was read: the
\* total is not written.
AfterPayment(now, row, amount) ==
    LET paid == row.paid + amount
    IN [status |-> IF paid >= row.total THEN "paid" ELSE "partial",
        total |-> now.total,
        paid |-> paid,
        remaining |-> IF paid >= row.total THEN 0 ELSE row.total - paid]

\* createPayment leaves an invoice overdue that is not paid in full.
AfterOther(now, row, amount) ==
    LET new == AfterPayment(now, row, amount)
    IN IF row.status = "overdue" /\ new.status # "paid"
       THEN [new EXCEPT !.status = "overdue"]
       ELSE new

\* POST, PATCH and DELETE of another request begin by reading the invoice: a
\* paid one is not edited.  A draft is deleted; anything else is cancelled.
OtherReads(o) ==
    /\ others[o].at = "idle"
    /\ \E i \in Asked, at \in {"pay", "patch", "cancel"} :
         /\ at = "patch" => invoices[i].status # "paid"
         /\ at = "cancel" => invoices[i].status # "draft"
         /\ others' = [others EXCEPT ![o] =
                         [at |-> at, inv |-> i, row |-> invoices[i]]]
    /\ UNCHANGED <<tables, money, faults, processed, pass, forwarded, refused>>

\* createPayment writes the balance it has computed; updateInvoice writes the
\* columns of its request.
OtherWrites(o) ==
    LET i == others[o].inv
    IN /\ \/ /\ others[o].at = "pay"
             /\ \E a \in Amounts :
                  /\ invoices' = [invoices EXCEPT ![i] =
                                    AfterOther(@, others[o].row, a)]
                  /\ counted' = [counted EXCEPT ![i] = @ + a]
          \/ /\ others[o].at = "patch"
             /\ \E status \in PatchStatuses \cup {invoices[i].status},
                   total \in PatchTotals \cup {invoices[i].total} :
                  invoices' = [invoices EXCEPT ![i].status = status,
                                               ![i].total = total]
             /\ UNCHANGED counted
          \/ /\ others[o].at = "cancel"
             /\ invoices' = [invoices EXCEPT ![i].status = "cancelled"]
             /\ UNCHANGED counted
       /\ others' = [others EXCEPT ![o] = [Silent EXCEPT !.at = "done"]]
       /\ UNCHANGED <<recorded, credited, money, faults, processed, pass,
                      forwarded, refused>>

-----------------------------------------------------------------------------
(* processQRPayments.                                                      *)

Open(i) == invoices[i].status \in {"sent", "viewed", "partial"}

\* The open invoices are read first: as many as the limit allows, in no order.
Begin(p) ==
    /\ pass[p].at = "idle"
    /\ \E batch \in SUBSET {i \in Invoices : Open(i)} :
         /\ batch # {}
         /\ batch = {i \in Invoices : Open(i)} \/ Cardinality(batch) = Limit
         /\ Cardinality(batch) <= Limit
         /\ pass' = [pass EXCEPT ![p] =
              [Idle EXCEPT !.at = "fetch", !.todo = batch,
                           !.row = [i \in Invoices |->
                             IF i \in batch THEN invoices[i] ELSE NoRow]]]
    /\ UNCHANGED <<tables, money, bounds, processed, forwarded, refused>>

\* The latest transactions, the newest first.
Latest ==
    LET all == Len(treasury)
    IN [k \in 1..(IF all < Window THEN all ELSE Window) |->
          treasury[all - k + 1]]

\* ... the treasury's transactions second.
Fetch(p) ==
    /\ pass[p].at = "fetch"
    /\ pass' = [pass EXCEPT ![p].at = "next", ![p].list = Latest]
    /\ UNCHANGED <<tables, money, bounds, processed, forwarded, refused>>

\* The loop over the invoices.
NextInvoice(p) ==
    /\ pass[p].at = "next"
    /\ \/ /\ pass[p].todo = {}
          /\ pass' = [pass EXCEPT ![p] = Idle]
       \/ \E i \in pass[p].todo :
            pass' = [pass EXCEPT ![p] =
              [pass[p] EXCEPT !.at = "look", !.todo = @ \ {i}, !.inv = i,
                              !.rest = pass[p].list]]
    /\ UNCHANGED <<tables, money, bounds, processed, forwarded, refused>>

\* To the next invoice, by the end of the list, a break or a catch.
Leave(p) ==
    pass' = [pass EXCEPT ![p] =
              [pass[p] EXCEPT !.at = "next", !.inv = NoInvoice, !.rest = <<>>,
                              !.sig = NoSig]]

\* The loop over the transactions: those that were processed, or are for
\* another invoice, are passed over.
Look(p) ==
    /\ pass[p].at = "look"
    /\ IF pass[p].rest = <<>> THEN Leave(p)
       ELSE LET s == Head(pass[p].rest)
                more == [pass[p] EXCEPT !.rest = Tail(pass[p].rest)]
            IN pass' = [pass EXCEPT ![p] =
                 IF s \notin processed /\ chain[s].inv = pass[p].inv
                 THEN [more EXCEPT !.at = "verify", !.sig = s]
                 ELSE more]
    /\ UNCHANGED <<tables, money, bounds, processed, forwarded, refused>>

\* The RPC node does not have the transaction yet.
Unknown(p) ==
    /\ pass[p].at = "look"
    /\ pass[p].rest # <<>>
    /\ Head(pass[p].rest) \notin processed
    /\ faults < MaxFaults
    /\ faults' = faults + 1
    /\ pass' = [pass EXCEPT ![p].rest = Tail(pass[p].rest)]
    /\ UNCHANGED <<tables, money, others, processed, forwarded, refused>>

\* At least 99.9% of what remained when the invoice was read.
Sufficient(received, remaining) == 1000 * received >= 999 * remaining

\* verifyPaymentAmount: what is refused is not looked at again.
Verify(p) ==
    LET s == pass[p].sig
    IN /\ pass[p].at = "verify"
       /\ IF Sufficient(chain[s].amount, pass[p].row[pass[p].inv].remaining)
          THEN /\ pass' = [pass EXCEPT ![p].at = "dedupe"]
               /\ UNCHANGED <<processed, refused>>
          ELSE /\ pass' = [pass EXCEPT ![p].at = "look", ![p].sig = NoSig]
               /\ processed' = processed \cup {s}
               /\ refused' = refused \cup {s}
       /\ UNCHANGED <<tables, money, bounds, forwarded>>

-----------------------------------------------------------------------------
(* distributePayment.                                                      *)

Dedupe(p) ==
    LET s == pass[p].sig
    IN /\ pass[p].at = "dedupe"
       /\ IF s \in recorded
          THEN processed' = processed \cup {s} /\ Leave(p)
          ELSE pass' = [pass EXCEPT ![p].at = "send"] /\ UNCHANGED processed
       /\ UNCHANGED <<tables, money, bounds, forwarded, refused>>

\* Only a transfer that was confirmed is recorded.
GoesOn(outcome) == outcome = "confirmed"

\* Fault: a transfer that failed is not tried again.
AbandonedAfter(s) == processed \cup {s}

\* The catch leaves a failed signature to the passes to come.
AfterFailure(s) == processed

\* sendAndConfirmTransaction forwards 99%.  It throws if the transfer fails,
\* and if it cannot tell in time whether the transfer went through.
Send(p) ==
    LET s == pass[p].sig
    IN /\ pass[p].at = "send"
       /\ \E outcome \in {"confirmed", "failed", "unknown"} :
            /\ outcome # "confirmed" => faults < MaxFaults
            /\ faults' = IF outcome = "confirmed" THEN faults ELSE faults + 1
            /\ forwarded' = IF outcome = "failed" THEN forwarded
                            ELSE [forwarded EXCEPT ![s] = @ + 1]
            /\ IF GoesOn(outcome)
               THEN /\ pass' = [pass EXCEPT ![p].at = "insert"]
                    /\ UNCHANGED processed
               ELSE Leave(p) /\ processed' = AfterFailure(s)
       /\ UNCHANGED <<tables, money, others, refused>>

\* Fault: an index that is not unique.
NoDuplicate(s) == FALSE

\* The unique index on payments.tx_signature.
Duplicate(s) == s \in recorded

Insert(p) ==
    LET s == pass[p].sig
    IN /\ pass[p].at = "insert"
       /\ IF Duplicate(s)
          THEN Leave(p) /\ UNCHANGED recorded
          ELSE /\ pass' = [pass EXCEPT ![p].at = "update"]
               /\ recorded' = recorded \cup {s}
       /\ UNCHANGED <<invoices, credited, counted, money, bounds, processed,
                      forwarded, refused>>

\* The balance is computed from the row the pass has read at its beginning.
Update(p) ==
    LET s == pass[p].sig
        i == pass[p].inv
    IN /\ pass[p].at = "update"
       /\ invoices' = [invoices EXCEPT ![i] =
                         AfterPayment(@, pass[p].row[i], chain[s].amount)]
       /\ credited' = [credited EXCEPT ![s] = @ + 1]
       /\ counted' = [counted EXCEPT ![i] = @ + chain[s].amount]
       /\ processed' = processed \cup {s}
       /\ Leave(p)
       /\ UNCHANGED <<recorded, money, bounds, forwarded, refused>>

\* A call of the RPC node or a statement fails: the catch of the pass, of the
\* invoice or of the payment ends just that.
CallFails(p) ==
    /\ pass[p].at \in {"fetch", "look", "dedupe", "insert", "update"}
    /\ faults < MaxFaults
    /\ faults' = faults + 1
    /\ IF pass[p].at = "fetch" THEN pass' = [pass EXCEPT ![p] = Idle]
                               ELSE Leave(p)
    /\ UNCHANGED <<tables, money, others, processed, forwarded, refused>>

\* The server stops, and forgets what it has processed.
Crash ==
    /\ faults < MaxFaults
    /\ faults' = faults + 1
    /\ processed' = {}
    /\ pass' = [p \in Passes |-> Idle]
    /\ UNCHANGED <<tables, money, others, forwarded, refused>>

Step(p) ==
    \/ Begin(p) \/ Fetch(p) \/ NextInvoice(p) \/ Look(p) \/ Unknown(p)
    \/ Verify(p) \/ Dedupe(p) \/ Send(p) \/ Insert(p) \/ Update(p) \/ CallFails(p)

Next ==
    \/ \E s \in Sigs : Pay(s)
    \/ \E o \in Others : OtherReads(o) \/ OtherWrites(o)
    \/ \E p \in Passes : Step(p)
    \/ Crash

Spec == Init /\ [][Next]_vars

\* setInterval starts passes, and the event loop goes on with them.
FairSpec == Spec /\ \A p \in Passes : WF_vars(Step(p))

-----------------------------------------------------------------------------

TypeOK ==
    /\ invoices \in [Invoices -> Row]
    /\ recorded \subseteq Sigs
    /\ chain \in [Sigs -> Tx \cup {NoTx}]
    /\ treasury \in Seq(Sigs)
    /\ processed \subseteq Sigs
    /\ pass \in [Passes -> Pass]
    /\ forwarded \in [Sigs -> Nat]
    /\ credited \in [Sigs -> Nat]
    /\ refused \subseteq Sigs
    /\ counted \in [Invoices -> Nat]
    /\ others \in [Others -> Other]
    /\ faults \in Nat

\* A payment is added to the balance of its invoice at most once, and only with
\* a row of its own, however many passes have found and forwarded it (the
\* insert comes before the update, and its index is unique).
CreditedOnce ==
    \A s \in Sigs : /\ credited[s] <= 1
                    /\ credited[s] = 1 => s \in recorded

\* Passes and requests write over each other's balances, from rows as old as the
\* pass.  An invoice may so lose a payment, but never has one it was not paid:
\* with CreditedOnce, no more than its payments add up to.
NeverOvercredited == \A i \in Invoices : invoices[i].paid <= counted[i]

\* A payment is recorded only when the invoicer has been sent his share of it
\* (sendAndConfirmTransaction comes before the insert).
RecordedWasForwarded == \A s \in recorded : forwarded[s] >= 1

\* A signature is left out for good only if it was recorded, or refused for its
\* amount: whatever else went wrong, a later pass will look at it again.
DroppedForAReason == processed \subseteq recorded \cup refused

\* What is inductive about it.
DistributeSteps == {"dedupe", "send", "insert", "update"}
PassOK(p) ==
    LET s == pass[p].sig
        i == pass[p].inv
    IN /\ pass[p].at # "idle" =>
            \A j \in pass[p].todo : pass[p].row[j] \in Row
       /\ pass[p].at \in {"look", "verify"} \cup DistributeSteps =>
            i \in Invoices /\ pass[p].row[i] \in Row
       /\ pass[p].at \in {"verify"} \cup DistributeSteps =>
            s \in Sigs /\ chain[s] # NoTx
       /\ pass[p].at \in {"insert", "update"} => forwarded[s] >= 1
       /\ pass[p].at = "update" => s \in recorded /\ credited[s] = 0
\* ... every transaction in a list was paid ...
ListInv ==
    /\ \A k \in 1..Len(treasury) : chain[treasury[k]] # NoTx
    /\ \A p \in Passes : /\ \A k \in 1..Len(pass[p].list) :
                              chain[pass[p].list[k]] # NoTx
                         /\ \A k \in 1..Len(pass[p].rest) :
                              chain[pass[p].rest[k]] # NoTx
\* ... and each row has one pass that adds it to the balance.
OneUpdater ==
    \A p, q \in Passes :
      /\ pass[p].at = "update" /\ pass[q].at = "update"
      /\ pass[p].sig = pass[q].sig
      => p = q

\* ... and a request that is about to write has read a row.
OtherOK(o) ==
    others[o].at \in {"pay", "patch", "cancel"} =>
      others[o].inv \in Invoices /\ others[o].row \in Row

\* The inductive invariant of the payments by QR code.
QRInv ==
    /\ TypeOK
    /\ \A p \in Passes : PassOK(p)
    /\ \A o \in Others : OtherOK(o)
    /\ ListInv
    /\ OneUpdater
    /\ CreditedOnce
    /\ RecordedWasForwarded
    /\ DroppedForAReason

\* No balance, in the table or in a row that somebody has read, is more than
\* was added to it.
BalanceInv ==
    /\ NeverOvercredited
    /\ \A p \in Passes, i \in Invoices :
         pass[p].row[i] # NoRow => pass[p].row[i].paid <= counted[i]
    /\ \A o \in Others :
         others[o].row # NoRow =>
           /\ others[o].inv \in Invoices
           /\ others[o].row.paid <= counted[others[o].inv]

\* Whatever fails and is started again, every payment for an invoice that stays
\* open is recorded or refused in the end, unless so many transactions followed
\* it that a pass no longer sees it, or there are more open invoices than a pass
\* reads, again and again: then it may always read others.
Buried(s) ==
    \E k \in 1..Len(treasury) :
      treasury[k] = s /\ Len(treasury) - k >= Window
Crowded == Cardinality({i \in Invoices : Open(i)}) > Limit
Settled(s) == \/ chain[s] = NoTx
              \/ s \in recorded
              \/ s \in refused
              \/ ~Open(chain[s].inv)
              \/ Buried(s)
EveryPaymentSettles ==
    \/ []<>Crowded
    \/ \A s \in Sigs : <>[]Settled(s)
=============================================================================
