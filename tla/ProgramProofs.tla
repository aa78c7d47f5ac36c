---------------------------- MODULE ProgramProofs ----------------------------
(* Theorems about MarketplaceProgram and the accounts of ArciumMxe, for any  *)
(* set of wallets, invoices, subscriptions, trees and prices: the invariants *)
(* of ProgramInv, the action properties ListedKeepsPeriods and               *)
(* SoldForThePrice, and the refinement of Escrow.                            *)
(*                                                                           *)
(* An instruction that writes an invoice account writes one that keeps the   *)
(* period it was minted for (LEMMA WriteInvoice), one that writes a          *)
(* subscription keeps its periods (LEMMA WriteSubscription), save for those  *)
(* that create a subscription and mint from one.                             *)
EXTENDS MarketplaceProgram, TLAPS

USE DEF Keys

-----------------------------------------------------------------------------
(* The accounts.                                                             *)

\* r may stand in the place of invoice i: an account with a delegate exactly
\* while it is locked, of the period i was minted for, if any.
KeepsInvoice(i, r) ==
    /\ r \in InvoiceAccount
    /\ r.status # "None"
    /\ r.delegate # NoKey <=> r.status = "Locked"
    /\ r.from # NoSub => r.from = invoice[i].from /\ r.due = invoice[i].due

\* Writing such an account keeps the invariant of the accounts.
LEMMA WriteInvoice ==
  ASSUME MxeInv, NEW i \in Invoices, NEW r, KeepsInvoice(i, r),
         invoice' = [invoice EXCEPT ![i] = r], subscription' = subscription,
         clock' = clock
  PROVE  MxeInv'
<1> USE DEF KeepsInvoice
<1>1. MxeTypeOK /\ DelegateWhileLocked /\ PeriodInv /\ MintedInv /\ MintedOncePerPeriod
  BY DEF MxeInv
<1>2. /\ invoice'[i] = r
      /\ \A j \in Invoices \ {i} : invoice'[j] = invoice[j]
  BY <1>1 DEF MxeTypeOK
<1>3. \A j \in Invoices : invoice'[j].from # NoSub =>
        /\ invoice'[j].from = invoice[j].from
        /\ invoice'[j].due = invoice[j].due
        /\ invoice[j].from # NoSub
        /\ invoice[j].status # "None" => invoice'[j].status # "None"
  BY <1>2
<1>4. MxeTypeOK'
  BY <1>1 DEF MxeTypeOK
<1>5. DelegateWhileLocked'
  BY <1>1, <1>2 DEF DelegateWhileLocked
<1>6. PeriodInv'
  BY <1>1 DEF PeriodInv, MintedBy
<1>7. MintedInv'
  <2> SUFFICES ASSUME NEW j \in Invoices, invoice'[j].from # NoSub
               PROVE  LET b == subscription[invoice'[j].from]
                      IN /\ b.status # "None"
                         /\ invoice'[j].status # "None"
                         /\ invoice'[j].due < b.next
                         /\ b.term # NoTerm =>
                              \E k \in 1 .. MintedBy(invoice'[j].from) :
                                invoice'[j].due = b.start + k * b.frequency
    BY DEF MintedInv, MintedBy
  <2> QED
    BY <1>1, <1>3 DEF MintedInv
<1>8. MintedOncePerPeriod'
  <2> SUFFICES ASSUME NEW j \in Invoices, invoice'[j].from # NoSub
               PROVE  /\ invoice'[j].due <= clock
                      /\ \A k \in Invoices \ {j} :
                           invoice'[k].from = invoice'[j].from =>
                             invoice'[k].due # invoice'[j].due
    BY DEF MintedOncePerPeriod
  <2> QED
    BY <1>1, <1>3 DEF MintedOncePerPeriod
<1> QED
  BY <1>4, <1>5, <1>6, <1>7, <1>8 DEF MxeInv

\* The instructions that write one invoice account write such an account.
LEMMA InvoiceInstructions ==
  ASSUME MxeInv, NEW i \in Invoices, NEW u \in Keys, NEW v \in Keys, clock' = clock,
         \/ CreateInvoice(i, u)
         \/ LockInvoice(i, u, v)
         \/ UnlockInvoice(i, u)
         \/ CompleteTransfer(i, u, v)
         \/ MarkInvoicePaid(i, u)
  PROVE  MxeInv'
<1>1. /\ invoice \in [Invoices -> InvoiceAccount]
      /\ invoice[i].delegate # NoKey <=> invoice[i].status = "Locked"
  BY DEF MxeInv, MxeTypeOK, DelegateWhileLocked
<1>2. NoKey \notin Keys
  BY MxeAssumption
<1>3. CASE CreateInvoice(i, u)
  <2> DEFINE r == [status |-> "Draft", authority |-> u, delegate |-> NoKey,
                   due |-> 0, from |-> NoSub]
  <2>1. KeepsInvoice(i, r)
    BY DEF KeepsInvoice, InvoiceAccount
  <2> QED
    BY <1>3, <2>1, WriteInvoice DEF CreateInvoice
<1>4. CASE LockInvoice(i, u, v)
  <2> DEFINE r == [invoice[i] EXCEPT !.status = "Locked", !.delegate = v]
  <2>1. KeepsInvoice(i, r)
    BY <1>1, <1>2 DEF KeepsInvoice, InvoiceAccount
  <2>2. invoice' = [invoice EXCEPT ![i] = r]
    BY <1>1, <1>4 DEF LockInvoice, InvoiceAccount
  <2> QED
    BY <1>4, <2>1, <2>2, WriteInvoice DEF LockInvoice
<1>5. CASE UnlockInvoice(i, u)
  <2> DEFINE r == [invoice[i] EXCEPT !.status = "Unpaid", !.delegate = NoKey]
  <2>1. KeepsInvoice(i, r)
    BY <1>1 DEF KeepsInvoice, InvoiceAccount
  <2>2. invoice' = [invoice EXCEPT ![i] = r]
    BY <1>1, <1>5 DEF UnlockInvoice, InvoiceAccount
  <2> QED
    BY <1>5, <2>1, <2>2, WriteInvoice DEF UnlockInvoice
<1>6. CASE CompleteTransfer(i, u, v)
  <2>1. KeepsInvoice(i, Transferred(i, v))
    BY <1>1 DEF KeepsInvoice, InvoiceAccount, Transferred
  <2> QED
    BY <1>6, <2>1, WriteInvoice DEF CompleteTransfer
<1>7. CASE MarkInvoicePaid(i, u)
  <2> DEFINE r == [invoice[i] EXCEPT !.status = "Paid"]
  <2>1. KeepsInvoice(i, r)
    BY <1>1, <1>7 DEF KeepsInvoice, InvoiceAccount, MarkInvoicePaid
  <2>2. invoice' = [invoice EXCEPT ![i] = r]
    BY <1>1, <1>7 DEF MarkInvoicePaid, InvoiceAccount
  <2> QED
    BY <1>7, <2>1, <2>2, WriteInvoice DEF MarkInvoicePaid
<1> QED
  BY <1>3, <1>4, <1>5, <1>6, <1>7

\* r may stand in the place of subscription s: it is at the same period.
KeepsSubscription(s, r) ==
    /\ subscription[s].status # "None"
    /\ r \in SubscriptionAccount
    /\ r.status # "None"
    /\ r.delegate # NoKey <=> r.status = "Locked"
    /\ r.start = subscription[s].start
    /\ r.frequency = subscription[s].frequency
    /\ r.next = subscription[s].next
    /\ r.left = subscription[s].left
    /\ r.term = subscription[s].term

\* Writing such an account keeps the invariant of the accounts.
LEMMA WriteSubscription ==
  ASSUME MxeInv, NEW s \in Subs, NEW r, KeepsSubscription(s, r),
         subscription' = [subscription EXCEPT ![s] = r], invoice' = invoice,
         clock' = clock
  PROVE  MxeInv'
<1> USE DEF KeepsSubscription
<1>1. MxeTypeOK /\ DelegateWhileLocked /\ PeriodInv /\ MintedInv /\ MintedOncePerPeriod
  BY DEF MxeInv
<1>2. /\ subscription'[s] = r
      /\ \A q \in Subs \ {s} : subscription'[q] = subscription[q]
  BY <1>1 DEF MxeTypeOK
<1>3. \A q \in Subs :
        /\ subscription[q].status # "None" <=> subscription'[q].status # "None"
        /\ subscription'[q].start = subscription[q].start
        /\ subscription'[q].frequency = subscription[q].frequency
        /\ subscription'[q].next = subscription[q].next
        /\ subscription'[q].left = subscription[q].left
        /\ subscription'[q].term = subscription[q].term
  BY <1>2
<1>4. MxeTypeOK'
  BY <1>1 DEF MxeTypeOK
<1>5. DelegateWhileLocked'
  BY <1>1, <1>2 DEF DelegateWhileLocked
<1>6. PeriodInv'
  BY <1>1, <1>3 DEF PeriodInv, MintedBy
<1>7. MintedInv'
  <2> SUFFICES ASSUME NEW j \in Invoices, invoice[j].from # NoSub
               PROVE  LET b == subscription'[invoice[j].from]
                      IN /\ b.status # "None"
                         /\ invoice[j].status # "None"
                         /\ invoice[j].due < b.next
                         /\ b.term # NoTerm =>
                              \E k \in 1 .. b.term - b.left :
                                invoice[j].due = b.start + k * b.frequency
    BY DEF MintedInv, MintedBy
  <2>1. invoice[j].from \in Subs
    BY <1>1 DEF MxeTypeOK, InvoiceAccount
  <2> QED
    BY <1>1, <1>3, <2>1 DEF MintedInv, MintedBy
<1>8. MintedOncePerPeriod'
  BY <1>1 DEF MintedOncePerPeriod
<1> QED
  BY <1>4, <1>5, <1>6, <1>7, <1>8 DEF MxeInv

\* The instructions that lock, unlock, transfer and cancel a subscription.
LEMMA SubscriptionInstructions ==
  ASSUME MxeInv, NEW s \in Subs, NEW u \in Users, NEW v \in Keys, clock' = clock,
         \/ LockSubscription(s, u, v)
         \/ UnlockSubscription(s, u)
         \/ TransferSubscription(s, u, v)
         \/ CancelSubscription(s, u)
  PROVE  MxeInv'
<1>1. /\ subscription \in [Subs -> SubscriptionAccount]
      /\ subscription[s].delegate # NoKey <=> subscription[s].status = "Locked"
  BY DEF MxeInv, MxeTypeOK, DelegateWhileLocked
<1>2. NoKey \notin Keys
  BY MxeAssumption
<1>3. CASE LockSubscription(s, u, v)
  <2> DEFINE r == [subscription[s] EXCEPT !.status = "Locked", !.delegate = v]
  <2>1. KeepsSubscription(s, r)
    BY <1>1, <1>2, <1>3 DEF KeepsSubscription, SubscriptionAccount, LockSubscription
  <2>2. subscription' = [subscription EXCEPT ![s] = r]
    BY <1>1, <1>3 DEF LockSubscription, SubscriptionAccount
  <2> QED
    BY <1>3, <2>1, <2>2, WriteSubscription DEF LockSubscription
<1>4. CASE UnlockSubscription(s, u)
  <2> DEFINE r == [subscription[s] EXCEPT !.status = "Active", !.delegate = NoKey]
  <2>1. KeepsSubscription(s, r)
    BY <1>1, <1>4 DEF KeepsSubscription, SubscriptionAccount, UnlockSubscription
  <2>2. subscription' = [subscription EXCEPT ![s] = r]
    BY <1>1, <1>4 DEF UnlockSubscription, SubscriptionAccount
  <2> QED
    BY <1>4, <2>1, <2>2, WriteSubscription DEF UnlockSubscription
<1>5. CASE TransferSubscription(s, u, v)
  <2> DEFINE r == [subscription[s] EXCEPT !.status = "Active", !.authority = v,
                                          !.delegate = NoKey]
  <2>1. KeepsSubscription(s, r)
    BY <1>1, <1>5 DEF KeepsSubscription, SubscriptionAccount, TransferSubscription
  <2>2. subscription' = [subscription EXCEPT ![s] = r]
    BY <1>1, <1>5 DEF TransferSubscription, SubscriptionAccount
  <2> QED
    BY <1>5, <2>1, <2>2, WriteSubscription DEF TransferSubscription
<1>6. CASE CancelSubscription(s, u)
  <2> DEFINE r == [subscription[s] EXCEPT !.status = "Cancelled", !.delegate = NoKey]
  <2>1. KeepsSubscription(s, r)
    BY <1>1, <1>6 DEF KeepsSubscription, SubscriptionAccount, CancelSubscription
  <2>2. subscription' = [subscription EXCEPT ![s] = r]
    BY <1>1, <1>6 DEF CancelSubscription, SubscriptionAccount
  <2> QED
    BY <1>6, <2>1, <2>2, WriteSubscription DEF CancelSubscription
<1> QED
  BY <1>3, <1>4, <1>5, <1>6

\* A new subscription has minted nothing.
LEMMA NewSubscription ==
  ASSUME MxeInv, NEW s \in Subs, NEW u \in Users, NEW v \in Users, NEW d \in Ago,
         NEW f \in Frequencies, NEW n \in Terms, clock' = clock,
         CreateSubscription(s, u, v, clock - d, f, n)
  PROVE  MxeInv'
<1> DEFINE r == [status |-> "Active", authority |-> u, payer |-> v,
                 delegate |-> NoKey, start |-> clock - d, frequency |-> f,
                 next |-> clock - d + f, left |-> n, term |-> n]
<1>1. MxeTypeOK /\ DelegateWhileLocked /\ PeriodInv /\ MintedInv /\ MintedOncePerPeriod
  BY DEF MxeInv
<1>2. /\ subscription[s].status = "None"
      /\ subscription' = [subscription EXCEPT ![s] = r]
      /\ invoice' = invoice
  BY DEF CreateSubscription
<1>3. /\ f \in Nat \ {0} /\ n \in Nat \cup {NoTerm} /\ d \in Nat /\ NoTerm \notin Nat
      /\ clock \in Nat
  BY <1>1, MxeAssumption DEF MxeTypeOK
<1>4. r \in SubscriptionAccount
  BY <1>3 DEF SubscriptionAccount
<1>5. /\ subscription'[s] = r
      /\ \A q \in Subs \ {s} : subscription'[q] = subscription[q]
  BY <1>1, <1>2 DEF MxeTypeOK
<1>6. MxeTypeOK'
  <2> HIDE DEF r
  <2> QED
    BY <1>1, <1>2, <1>4 DEF MxeTypeOK
<1>7. DelegateWhileLocked'
  BY <1>1, <1>2, <1>5 DEF DelegateWhileLocked
<1>8. PeriodInv'
  <2> SUFFICES ASSUME NEW q \in Subs
               PROVE  LET b == subscription'[q]
                      IN /\ b.status # "None" => b.frequency > 0
                         /\ b.term = NoTerm <=> b.left = NoTerm
                         /\ b.term # NoTerm =>
                              /\ b.left <= b.term
                              /\ b.next = b.start + ((b.term - b.left) + 1) * b.frequency
    BY DEF PeriodInv, MintedBy
  <2>1. CASE q = s
    <3>1. n # NoTerm => n \in Nat /\ (n - n) + 1 = 1
      BY <1>3
    <3>2. 1 * f = f
      BY <1>3
    <3> QED
      BY <1>3, <1>5, <2>1, <3>1, <3>2
  <2>2. CASE q # s
    BY <1>1, <1>5, <2>2 DEF PeriodInv, MintedBy
  <2> QED
    BY <2>1, <2>2
<1>9. MintedInv'
  <2> SUFFICES ASSUME NEW j \in Invoices, invoice[j].from # NoSub
               PROVE  LET b == subscription'[invoice[j].from]
                      IN /\ b.status # "None"
                         /\ invoice[j].status # "None"
                         /\ invoice[j].due < b.next
                         /\ b.term # NoTerm =>
                              \E k \in 1 .. b.term - b.left :
                                invoice[j].due = b.start + k * b.frequency
    BY <1>2 DEF MintedInv, MintedBy
  <2>1. invoice[j].from \in Subs
    BY <1>1 DEF MxeTypeOK, InvoiceAccount
  <2>2. invoice[j].from # s
    BY <1>1, <1>2 DEF MintedInv
  <2> QED
    BY <1>1, <1>5, <2>1, <2>2 DEF MintedInv, MintedBy
<1>10. MintedOncePerPeriod'
  BY <1>1, <1>2 DEF MintedOncePerPeriod
<1> QED
  BY <1>6, <1>7, <1>8, <1>9, <1>10 DEF MxeInv

LEMMA Distribute ==
  ASSUME NEW m \in Int, NEW f \in Int
  PROVE  (m + 1) * f = m * f + f
OBVIOUS

\* What is minted is the period the subscription is at, which no invoice has.
LEMMA Minting ==
  ASSUME MxeInv, NEW i \in Invoices, NEW s \in Subs, NEW u \in Users,
         clock' = clock, MintInvoiceFromSubscription(i, s, u)
  PROVE  MxeInv'
<1> DEFINE b == subscription[s]
           e == NextPeriod(s)
           r == [status |-> "Unpaid", authority |-> b.authority,
                 delegate |-> NoKey, due |-> b.next, from |-> s]
<1>1. MxeTypeOK /\ DelegateWhileLocked /\ PeriodInv /\ MintedInv /\ MintedOncePerPeriod
  BY DEF MxeInv
<1>2. /\ invoice[i].status = "None"
      /\ b.status = "Active"
      /\ b.authority = u
      /\ clock >= b.next
      /\ b.left # 0
      /\ invoice' = [invoice EXCEPT ![i] = r]
      /\ subscription' = [subscription EXCEPT ![s] = e]
  BY DEF MintInvoiceFromSubscription, Mints, IsDue
<1>3. b \in SubscriptionAccount /\ clock \in Nat
  BY <1>1 DEF MxeTypeOK
<1>4. /\ b.frequency \in Nat /\ b.frequency > 0 /\ b.next \in Int /\ b.start \in Int
      /\ b.left \in Nat \cup {NoTerm} /\ b.term \in Nat \cup {NoTerm}
      /\ b.delegate = NoKey
      /\ NoTerm \notin Nat /\ NoSub \notin Subs
  <2>1. b.frequency > 0
    BY <1>1, <1>2 DEF PeriodInv
  <2>2. b.delegate = NoKey
    BY <1>1, <1>2 DEF DelegateWhileLocked
  <2> QED
    BY <1>3, <2>1, <2>2, MxeAssumption DEF SubscriptionAccount
<1>5. /\ e.status = "Active" /\ e.delegate = NoKey
      /\ e.start = b.start /\ e.frequency = b.frequency /\ e.term = b.term
      /\ e.next = b.next + b.frequency
      /\ b.left = NoTerm => e.left = NoTerm
      /\ b.left # NoTerm => e.left = b.left - 1 /\ e.left \in Nat
      /\ e \in SubscriptionAccount
  <2> DEFINE left == IF b.left = NoTerm THEN NoTerm ELSE b.left - 1
             next == b.next + b.frequency
  <2>1. /\ b.left = NoTerm => left = NoTerm
        /\ b.left # NoTerm => left = b.left - 1 /\ left \in Nat
        /\ left \in Nat \cup {NoTerm}
        /\ next \in Int
    BY <1>2, <1>4
  <2>2. e = [b EXCEPT !.next = next, !.left = left]
    BY DEF NextPeriod
  <2> HIDE DEF e, left
  <2>3. /\ e.status = b.status /\ e.delegate = b.delegate /\ e.start = b.start
        /\ e.frequency = b.frequency /\ e.term = b.term /\ e.next = next /\ e.left = left
    BY <1>3, <2>2 DEF SubscriptionAccount
  <2>4. e \in SubscriptionAccount
    BY <1>3, <2>1, <2>2 DEF SubscriptionAccount
  <2> QED
    BY <1>2, <1>4, <2>1, <2>3, <2>4
<1>6. r \in InvoiceAccount
  BY <1>2, <1>4 DEF InvoiceAccount
<1>7. /\ subscription'[s] = e
      /\ \A q \in Subs \ {s} : subscription'[q] = subscription[q]
      /\ invoice'[i] = r
      /\ \A j \in Invoices \ {i} : invoice'[j] = invoice[j]
  BY <1>1, <1>2 DEF MxeTypeOK
<1> HIDE DEF e
<1>8. MxeTypeOK'
  <2> HIDE DEF r
  <2> QED
    BY <1>1, <1>2, <1>5, <1>6 DEF MxeTypeOK
<1>9. DelegateWhileLocked'
  BY <1>1, <1>5, <1>7 DEF DelegateWhileLocked
<1>10. b.term # NoTerm =>
         /\ b.left \in Nat /\ b.left >= 1 /\ b.term \in Nat /\ b.left <= b.term
         /\ e.left = b.left - 1
         /\ (e.term - e.left) = (b.term - b.left) + 1
         /\ b.next = b.start + ((b.term - b.left) + 1) * b.frequency
  BY <1>1, <1>2, <1>4, <1>5 DEF PeriodInv, MintedBy
<1>11. PeriodInv'
  <2> SUFFICES ASSUME NEW q \in Subs
               PROVE  LET a == subscription'[q]
                      IN /\ a.status # "None" => a.frequency > 0
                         /\ a.term = NoTerm <=> a.left = NoTerm
                         /\ a.term # NoTerm =>
                              /\ a.left <= a.term
                              /\ a.next = a.start + ((a.term - a.left) + 1) * a.frequency
    BY DEF PeriodInv, MintedBy
  <2>1. CASE q = s
    <3>1. e.term = NoTerm <=> e.left = NoTerm
      BY <1>1, <1>4, <1>5 DEF PeriodInv
    <3>2. ASSUME b.term # NoTerm
          PROVE  e.left <= e.term /\ e.next = e.start + ((e.term - e.left) + 1) * e.frequency
      <4>1. PICK m \in Int : m = (b.term - b.left) + 1
        BY <1>10, <3>2
      <4>2. (m + 1) * b.frequency = m * b.frequency + b.frequency
        <5>1. PICK f \in Nat : f = b.frequency
          BY <1>4
        <5>2. (m + 1) * f = m * f + f
          BY Distribute
        <5> QED
          BY <5>1, <5>2
      <4>3. e.left <= e.term
        BY <1>5, <1>10, <3>2
      <4>4. e.next = b.start + m * b.frequency + b.frequency
        BY <1>5, <1>10, <3>2, <4>1
      <4>5. m * b.frequency \in Int
        BY <1>4
      <4>6. (e.term - e.left) + 1 = m + 1
        BY <1>10, <3>2, <4>1
      <4> QED
        BY <1>4, <1>5, <4>2, <4>3, <4>4, <4>5, <4>6
    <3> QED
      BY <1>4, <1>5, <1>7, <2>1, <3>1, <3>2
  <2>2. CASE q # s
    BY <1>1, <1>7, <2>2 DEF PeriodInv, MintedBy
  <2> QED
    BY <2>1, <2>2
<1>12. MintedInv'
  <2> SUFFICES ASSUME NEW j \in Invoices, invoice'[j].from # NoSub
               PROVE  LET a == subscription'[invoice'[j].from]
                      IN /\ a.status # "None"
                         /\ invoice'[j].status # "None"
                         /\ invoice'[j].due < a.next
                         /\ a.term # NoTerm =>
                              \E k \in 1 .. a.term - a.left :
                                invoice'[j].due = a.start + k * a.frequency
    BY DEF MintedInv, MintedBy
  <2>1. CASE j = i
    <3>1. invoice'[j].from = s /\ invoice'[j].due = b.next /\ invoice'[j].status = "Unpaid"
      BY <1>7, <2>1
    <3>2. b.next < e.next
      BY <1>4, <1>5
    <3>3. ASSUME e.term # NoTerm
          PROVE  \E k \in 1 .. e.term - e.left : b.next = e.start + k * e.frequency
      <4>1. e.term - e.left \in 1 .. e.term - e.left
        BY <1>5, <1>10, <3>3
      <4>2. b.next = e.start + (e.term - e.left) * e.frequency
        BY <1>5, <1>10, <3>3
      <4> QED
        BY <4>1, <4>2
    <3> QED
      BY <1>5, <1>7, <3>1, <3>2, <3>3
  <2>2. CASE j # i
    <3>1. invoice'[j] = invoice[j] /\ invoice[j].from \in Subs /\ invoice[j].due \in Int
      BY <1>1, <1>7, <2>2 DEF MxeTypeOK, InvoiceAccount
    <3>2. CASE invoice[j].from # s
      BY <1>1, <1>7, <3>1, <3>2 DEF MintedInv, MintedBy
    <3>3. CASE invoice[j].from = s
      <4>1. /\ invoice[j].status # "None"
            /\ invoice[j].due < b.next
            /\ b.term # NoTerm =>
                 \E k \in 1 .. b.term - b.left : invoice[j].due = b.start + k * b.frequency
        BY <1>1, <2>2, <3>1, <3>3 DEF MintedInv, MintedBy
      <4>2. invoice[j].due < e.next
        BY <1>4, <1>5, <3>1, <4>1
      <4>3. ASSUME e.term # NoTerm
            PROVE  \E k \in 1 .. e.term - e.left : invoice[j].due = e.start + k * e.frequency
        <5>1. PICK k \in 1 .. b.term - b.left : invoice[j].due = b.start + k * b.frequency
          BY <1>5, <4>1, <4>3
        <5>2. k \in 1 .. e.term - e.left
          BY <1>5, <1>10, <4>3
        <5> QED
          BY <1>5, <5>1, <5>2
      <4> QED
        BY <1>5, <1>7, <3>1, <3>3, <4>1, <4>2, <4>3
    <3> QED
      BY <3>2, <3>3
  <2> QED
    BY <2>1, <2>2
<1>13. MintedOncePerPeriod'
  <2>1. \A j \in Invoices \ {i} : invoice[j].from = s => invoice[j].due < b.next
    BY <1>1, <1>4 DEF MintedInv
  <2>2. \A j \in Invoices : invoice[j].due \in Int
    BY <1>1 DEF MxeTypeOK, InvoiceAccount
  <2>3. ASSUME NEW j \in Invoices, invoice'[j].from # NoSub
        PROVE  invoice'[j].due <= clock
    BY <1>1, <1>2, <1>3, <1>7, <2>3 DEF MintedOncePerPeriod
  <2>4. ASSUME NEW j \in Invoices, invoice'[j].from # NoSub, NEW k \in Invoices \ {j},
               invoice'[k].from = invoice'[j].from
        PROVE  invoice'[k].due # invoice'[j].due
    <3>1. CASE j = i
      BY <1>4, <1>7, <2>1, <2>2, <2>4, <3>1
    <3>2. CASE k = i
      BY <1>4, <1>7, <2>1, <2>2, <2>4, <3>2
    <3>3. CASE j # i /\ k # i
      BY <1>1, <1>7, <2>4, <3>3 DEF MintedOncePerPeriod
    <3> QED
      BY <3>1, <3>2, <3>3
  <2> QED
    BY <2>3, <2>4 DEF MintedOncePerPeriod
<1> QED
  BY <1>8, <1>9, <1>11, <1>12, <1>13 DEF MxeInv

\* Time alone changes nothing that was minted.
LEMMA AccountsRest ==
  ASSUME MxeInv, UNCHANGED accounts, clock' \in Nat, clock' >= clock
  PROVE  MxeInv'
<1>1. MxeTypeOK /\ DelegateWhileLocked /\ PeriodInv /\ MintedInv /\ MintedOncePerPeriod
  BY DEF MxeInv
<1>2. invoice' = invoice /\ subscription' = subscription
  BY DEF accounts
<1>3. MxeTypeOK'
  BY <1>1, <1>2 DEF MxeTypeOK
<1>4. DelegateWhileLocked' /\ PeriodInv' /\ MintedInv'
  BY <1>1, <1>2 DEF DelegateWhileLocked, PeriodInv, MintedInv, MintedBy
<1>5. MintedOncePerPeriod'
  <2>1. \A i \in Invoices : invoice[i].due \in Int
    BY <1>1 DEF MxeTypeOK, InvoiceAccount
  <2>2. clock \in Nat
    BY <1>1 DEF MxeTypeOK
  <2> QED
    BY <1>1, <1>2, <2>1, <2>2 DEF MintedOncePerPeriod
<1> QED
  BY <1>1, <1>3, <1>4, <1>5 DEF MxeInv

LEMMA MxeStep ==
  ASSUME MxeInv, MxeNext
  PROVE  MxeInv'
<1>1. clock \in Nat
  BY DEF MxeInv, MxeTypeOK
<1>2. CASE clock' = clock + 1 /\ UNCHANGED accounts
  BY <1>1, <1>2, AccountsRest
<1>3. CASE MxeInstruction /\ UNCHANGED clock
  <2>1. PICK u \in Users :
          \/ \E i \in Invoices :
               \/ CreateInvoice(i, u)
               \/ UnlockInvoice(i, u)
               \/ MarkInvoicePaid(i, u)
               \/ \E v \in Keys : LockInvoice(i, u, v) \/ CompleteTransfer(i, u, v)
               \/ \E s \in Subs : MintInvoiceFromSubscription(i, s, u)
          \/ \E s \in Subs :
               \/ UnlockSubscription(s, u)
               \/ CancelSubscription(s, u)
               \/ \E v \in Keys : LockSubscription(s, u, v) \/ TransferSubscription(s, u, v)
               \/ \E v \in Users, d \in Ago, f \in Frequencies, n \in Terms :
                    CreateSubscription(s, u, v, clock - d, f, n)
    BY <1>3 DEF MxeInstruction
  <2>2. ASSUME NEW i \in Invoices,
               \/ CreateInvoice(i, u)
               \/ UnlockInvoice(i, u)
               \/ MarkInvoicePaid(i, u)
        PROVE  MxeInv'
    BY <1>3, <2>2, InvoiceInstructions
  <2>3. ASSUME NEW i \in Invoices, NEW v \in Keys,
               LockInvoice(i, u, v) \/ CompleteTransfer(i, u, v)
        PROVE  MxeInv'
    BY <1>3, <2>3, InvoiceInstructions
  <2>4. ASSUME NEW i \in Invoices, NEW s \in Subs, MintInvoiceFromSubscription(i, s, u)
        PROVE  MxeInv'
    BY <1>3, <2>4, Minting
  <2>5. ASSUME NEW s \in Subs, UnlockSubscription(s, u) \/ CancelSubscription(s, u)
        PROVE  MxeInv'
    BY <1>3, <2>1, <2>5, SubscriptionInstructions
  <2>6. ASSUME NEW s \in Subs, NEW v \in Keys,
               LockSubscription(s, u, v) \/ TransferSubscription(s, u, v)
        PROVE  MxeInv'
    BY <1>3, <2>6, SubscriptionInstructions
  <2>7. ASSUME NEW s \in Subs, NEW v \in Users, NEW d \in Ago, NEW f \in Frequencies,
               NEW n \in Terms, CreateSubscription(s, u, v, clock - d, f, n)
        PROVE  MxeInv'
    BY <1>3, <2>7, NewSubscription
  <2> QED
    BY <2>1, <2>2, <2>3, <2>4, <2>5, <2>6, <2>7
<1> QED
  BY <1>2, <1>3 DEF MxeNext

-----------------------------------------------------------------------------
(* Listings.                                                                 *)

LEMMA PdasAreNoWallets ==
  /\ NoKey \notin Users /\ NoKey \notin Pdas
  /\ \A u \in Users : u \notin Pdas
  /\ \A i \in Invoices : TreeOf[i] \in Trees /\ Pda(i) \in Pdas
  /\ \A i, j \in Invoices : Pda(i) = Pda(j) => TreeOf[i] = TreeOf[j]
BY MxeAssumption, MarketAssumption DEF Pda

LEMMA ProgramInit == Init => ProgramInv
<1> SUFFICES ASSUME Init PROVE ProgramInv
  OBVIOUS
<1> USE DEF Init, MxeInit
<1>1. NoInvoice \in InvoiceAccount /\ NoSubscription \in SubscriptionAccount
  BY DEF NoInvoice, NoSubscription, InvoiceAccount, SubscriptionAccount
<1>2. MxeTypeOK
  BY <1>1 DEF MxeTypeOK
<1>3. TypeOK
  BY <1>2, MarketAssumption DEF TypeOK
<1>4. MxeInv
  BY <1>2 DEF MxeInv, DelegateWhileLocked, PeriodInv, MintedInv, MintedOncePerPeriod,
              NoInvoice, NoSubscription
<1>5. ListingInv /\ CustodyIsListed
  <2>1. ListingInv
    BY DEF ListingInv
  <2>2. \A i \in Invoices : leaf[i] \notin Pdas /\ listing[TreeOf[i]] = NoListing
    BY PdasAreNoWallets
  <2> QED
    BY <2>1, <2>2 DEF CustodyIsListed
<1> QED
  BY <1>3, <1>4, <1>5 DEF ProgramInv

\* A payment moves n from one wallet to another, who may be the same.
LEMMA Payment ==
  ASSUME NEW purse \in [Users -> Nat], NEW a \in Users, NEW b \in Users,
         NEW n \in Nat, purse[a] >= n
  PROVE  /\ Pay(purse, a, b, n) \in [Users -> Nat]
         /\ a # b => /\ Pay(purse, a, b, n)[a] = purse[a] - n
                     /\ Pay(purse, a, b, n)[b] = purse[b] + n
         /\ a = b => Pay(purse, a, b, n)[a] = purse[a]
         /\ \A u \in Users \ {a, b} : Pay(purse, a, b, n)[u] = purse[u]
BY DEF Pay

LEMMA Fee ==
  ASSUME NEW p \in Nat
  PROVE  p \div 100 \in Nat /\ p \div 100 <= p
OBVIOUS

\* A buyer who has the price pays no more than it, to the seller and the
\* treasury.
LEMMA PriceIsPaid ==
  ASSUME NEW purse \in [Users -> Nat], NEW buyer \in Users,
         NEW l \in Listing, purse[buyer] >= l.price
  PROVE  LET after == Proceeds(purse, buyer, l)
         IN /\ after \in [Users -> Nat]
            /\ purse[buyer] - after[buyer] <= l.price
            /\ \A u \in Users \ {buyer} : after[u] >= purse[u]
            /\ buyer # l.seller =>
                 after[l.seller] >= purse[l.seller] + l.price - l.price \div 100
<1> DEFINE fee == l.price \div 100
           half == Pay(purse, buyer, l.seller, l.price - fee)
           after == Pay(half, buyer, Treasury, fee)
<1>1. l.price \in Nat /\ l.seller \in Users /\ Treasury \in Users
  BY MarketAssumption DEF Listing
<1>2. fee \in Nat /\ fee <= l.price /\ l.price - fee \in Nat
  BY <1>1, Fee
<1> HIDE DEF fee
<1>3. \A u \in Users : purse[u] \in Nat
  OBVIOUS
<1>4. purse[buyer] >= l.price - fee
  BY <1>1, <1>2, <1>3
<1>5. /\ half \in [Users -> Nat]
      /\ buyer # l.seller => /\ half[buyer] = purse[buyer] - (l.price - fee)
                             /\ half[l.seller] = purse[l.seller] + (l.price - fee)
      /\ buyer = l.seller => half[buyer] = purse[buyer]
      /\ \A u \in Users \ {buyer, l.seller} : half[u] = purse[u]
  BY <1>1, <1>2, <1>4, Payment
<1> HIDE DEF half
<1>6. half[buyer] >= fee
  BY <1>1, <1>2, <1>3, <1>5
<1>7. /\ after \in [Users -> Nat]
      /\ buyer # Treasury => /\ after[buyer] = half[buyer] - fee
                             /\ after[Treasury] = half[Treasury] + fee
      /\ buyer = Treasury => after[buyer] = half[buyer]
      /\ \A u \in Users \ {buyer, Treasury} : after[u] = half[u]
  BY <1>1, <1>2, <1>5, <1>6, Payment
<1> HIDE DEF after
<1>8. \A u \in Users : half[u] \in Nat
  BY <1>5
<1>9. purse[buyer] - after[buyer] <= l.price
  BY <1>1, <1>2, <1>3, <1>5, <1>7, <1>8
<1>10. ASSUME NEW u \in Users \ {buyer}
       PROVE  after[u] >= purse[u]
  BY <1>1, <1>2, <1>3, <1>5, <1>7, <1>8
<1>11. ASSUME buyer # l.seller
       PROVE  after[l.seller] >= purse[l.seller] + l.price - fee
  BY <1>1, <1>2, <1>3, <1>5, <1>7, <1>8, <1>11
<1>12. Proceeds(purse, buyer, l) = after
  BY DEF Proceeds, after, half, fee
<1>13. fee = l.price \div 100
  BY DEF fee
<1> QED
  BY <1>7, <1>9, <1>10, <1>11, <1>12, <1>13

LEMMA ListInv ==
  ASSUME ProgramInv, NEW i \in Invoices, NEW u \in Users, NEW p \in Prices,
         ListInvoice(i, u, p)
  PROVE  ProgramInv'
<1> DEFINE t == TreeOf[i]
           l == [seller |-> u, price |-> p, asset |-> i]
<1>1. TypeOK /\ MxeInv /\ ListingInv /\ CustodyIsListed
  BY DEF ProgramInv
<1>2. /\ listing[t] = NoListing
      /\ listing' = [listing EXCEPT ![t] = l]
      /\ leaf[i] = u
      /\ leaf' = [leaf EXCEPT ![i] = Pda(i)]
      /\ LockInvoice(i, u, Pda(i))
      /\ clock' = clock /\ tokens' = tokens
  BY DEF ListInvoice, Free
<1>3. /\ t \in Trees /\ Pda(i) \in Pdas /\ l \in Listing
  BY PdasAreNoWallets, MarketAssumption DEF Listing
<1>4. MxeInv'
  BY <1>1, <1>2, <1>3, InvoiceInstructions
<1>5. /\ leaf'[i] = Pda(i)
      /\ \A j \in Invoices \ {i} : leaf'[j] = leaf[j]
      /\ listing'[t] = l
      /\ \A q \in Trees \ {t} : listing'[q] = listing[q]
  BY <1>1, <1>2, <1>3 DEF TypeOK
<1>6. TypeOK'
  <2> HIDE DEF l, t
  <2> QED
    BY <1>1, <1>2, <1>3, <1>4 DEF TypeOK, MxeInv
<1>7. l # NoListing => ListingInv'
  BY <1>1, <1>3, <1>5 DEF ListingInv
<1>8. l # NoListing
  BY <1>3, MarketAssumption
<1>9. CustodyIsListed'
  <2> SUFFICES ASSUME NEW j \in Invoices
               PROVE  leaf'[j] \in Pdas <=>
                        /\ listing'[TreeOf[j]] # NoListing
                        /\ listing'[TreeOf[j]].asset = j
                        /\ leaf'[j] = Pda(j)
    BY DEF CustodyIsListed, Pda
  <2>1. CASE j = i
    BY <1>3, <1>5, <1>8, <2>1
  <2>2. CASE j # i /\ TreeOf[j] = t
    BY <1>1, <1>2, <1>5, <2>2 DEF CustodyIsListed
  <2>3. CASE TreeOf[j] # t
    BY <1>1, <1>5, <2>3, PdasAreNoWallets DEF CustodyIsListed
  <2> QED
    BY <2>1, <2>2, <2>3
<1> QED
  BY <1>4, <1>6, <1>7, <1>8, <1>9 DEF ProgramInv

\* A listing that is closed gives its NFT to a wallet.
LEMMA CloseInv ==
  ASSUME ProgramInv, NEW i \in Invoices, NEW u \in Users,
         leaf[i] = Pda(i), leaf' = [leaf EXCEPT ![i] = u],
         listing' = [listing EXCEPT ![TreeOf[i]] = NoListing],
         MxeInv', tokens' \in [Users -> Nat]
  PROVE  ProgramInv'
<1> DEFINE t == TreeOf[i]
<1>1. TypeOK /\ ListingInv /\ CustodyIsListed
  BY DEF ProgramInv
<1>2. /\ t \in Trees /\ u \notin Pdas /\ Pda(i) \in Pdas
  BY PdasAreNoWallets
<1>3. /\ leaf'[i] = u
      /\ \A j \in Invoices \ {i} : leaf'[j] = leaf[j]
      /\ listing'[t] = NoListing
      /\ \A q \in Trees \ {t} : listing'[q] = listing[q]
  BY <1>1, <1>2 DEF TypeOK
<1>4. listing[t] # NoListing /\ listing[t].asset = i
  BY <1>1, <1>2 DEF CustodyIsListed
<1>5. TypeOK'
  BY <1>1, <1>2 DEF TypeOK, MxeInv
<1>6. ListingInv'
  BY <1>1, <1>3 DEF ListingInv
<1>7. CustodyIsListed'
  <2> SUFFICES ASSUME NEW j \in Invoices
               PROVE  leaf'[j] \in Pdas <=>
                        /\ listing'[TreeOf[j]] # NoListing
                        /\ listing'[TreeOf[j]].asset = j
                        /\ leaf'[j] = Pda(j)
    BY DEF CustodyIsListed, Pda
  <2>1. CASE j = i
    BY <1>2, <1>3, <2>1
  <2>2. CASE j # i /\ TreeOf[j] = t
    BY <1>1, <1>3, <1>4, <2>2 DEF CustodyIsListed
  <2>3. CASE TreeOf[j] # t
    BY <1>1, <1>3, <2>3, PdasAreNoWallets DEF CustodyIsListed
  <2> QED
    BY <2>1, <2>2, <2>3
<1> QED
  BY <1>5, <1>6, <1>7 DEF ProgramInv

LEMMA CancelInv ==
  ASSUME ProgramInv, NEW i \in Invoices, NEW a \in Invoices, NEW u \in Users,
         CancelListing(i, a, u)
  PROVE  ProgramInv'
<1>1. MxeInv /\ tokens \in [Users -> Nat]
  BY DEF ProgramInv, TypeOK
<1>2. /\ listing' = [listing EXCEPT ![TreeOf[i]] = NoListing]
      /\ leaf[i] = Pda(i)
      /\ leaf' = [leaf EXCEPT ![i] = u]
      /\ UnlockInvoice(a, u)
      /\ clock' = clock /\ tokens' = tokens
  BY DEF CancelListing
<1>3. MxeInv'
  BY <1>1, <1>2, InvoiceInstructions
<1> QED
  BY <1>1, <1>2, <1>3, CloseInv

\* What a purchase takes and gives.
LEMMA Bought ==
  ASSUME ProgramInv, NEW i \in Invoices, NEW a \in Invoices, NEW u \in Users,
         BuyInvoice(i, a, u)
  PROVE  /\ listing[TreeOf[i]] # NoListing
         /\ listing[TreeOf[i]].asset = i
         /\ listing[TreeOf[i]] \in Listing
         /\ tokens \in [Users -> Nat]
         /\ tokens[u] >= listing[TreeOf[i]].price
         /\ tokens' = Proceeds(tokens, u, listing[TreeOf[i]])
         /\ listing' = [listing EXCEPT ![TreeOf[i]] = NoListing]
         /\ leaf[i] = Pda(i)
         /\ leaf' = [leaf EXCEPT ![i] = u]
         /\ leaf'[i] = u
         /\ CompleteTransfer(a, Pda(i), u)
         /\ clock' = clock
<1>1. TypeOK /\ CustodyIsListed
  BY DEF ProgramInv
<1>2. TreeOf[i] \in Trees /\ Pda(i) \in Pdas
  BY PdasAreNoWallets
<1>3. listing[TreeOf[i]] # NoListing /\ leaf[i] = Pda(i)
  BY DEF BuyInvoice
<1>4. listing[TreeOf[i]] \in Listing /\ listing[TreeOf[i]].asset = i
  BY <1>1, <1>2, <1>3 DEF TypeOK, CustodyIsListed
<1>5. leaf' = [leaf EXCEPT ![i] = u] /\ leaf'[i] = u
  BY <1>1 DEF BuyInvoice, TypeOK
<1> QED
  BY <1>1, <1>3, <1>4, <1>5 DEF BuyInvoice, TypeOK

LEMMA BuyInv ==
  ASSUME ProgramInv, NEW i \in Invoices, NEW a \in Invoices, NEW u \in Users,
         BuyInvoice(i, a, u)
  PROVE  ProgramInv'
<1>1. MxeInv
  BY DEF ProgramInv
<1>2. MxeInv'
  BY <1>1, Bought, InvoiceInstructions, PdasAreNoWallets
<1>3. tokens' \in [Users -> Nat]
  BY Bought, PriceIsPaid
<1> QED
  BY <1>2, <1>3, Bought, CloseInv

\* The NFTs that wallets mint and give away stay out of the listings' custody.
LEMMA LeafInv ==
  ASSUME ProgramInv, NEW i \in Invoices, NEW u \in Users, NEW v \in Users,
         MintLeaf(i, u) \/ TransferLeaf(i, u, v)
  PROVE  ProgramInv'
<1>1. TypeOK /\ MxeInv /\ ListingInv /\ CustodyIsListed
  BY DEF ProgramInv
<1>2. PICK w \in Users : leaf' = [leaf EXCEPT ![i] = w]
  BY DEF MintLeaf, TransferLeaf
<1>3. /\ listing' = listing /\ tokens' = tokens /\ clock' = clock
      /\ UNCHANGED accounts
  BY DEF MintLeaf, TransferLeaf
<1>4. leaf[i] \notin Pdas
  BY PdasAreNoWallets DEF MintLeaf, TransferLeaf
<1>5. MxeInv'
  <2>1. clock \in Nat
    BY <1>1 DEF MxeInv, MxeTypeOK
  <2> QED
    BY <1>1, <1>3, <2>1, AccountsRest
<1>6. /\ leaf'[i] = w /\ w \notin Pdas
      /\ \A j \in Invoices \ {i} : leaf'[j] = leaf[j]
  BY <1>1, <1>2, PdasAreNoWallets DEF TypeOK
<1>7. TypeOK'
  BY <1>1, <1>2, <1>3, <1>5 DEF TypeOK, MxeInv
<1>8. ListingInv'
  BY <1>1, <1>3 DEF ListingInv
<1>9. CustodyIsListed'
  <2> SUFFICES ASSUME NEW j \in Invoices
               PROVE  leaf'[j] \in Pdas <=>
                        /\ listing'[TreeOf[j]] # NoListing
                        /\ listing'[TreeOf[j]].asset = j
                        /\ leaf'[j] = Pda(j)
    BY DEF CustodyIsListed, Pda
  <2>1. CASE j = i
    BY <1>6, <2>1, PdasAreNoWallets
  <2>2. CASE j # i
    BY <1>1, <1>3, <1>6, <2>2 DEF CustodyIsListed
  <2> QED
    BY <2>1, <2>2
<1> QED
  BY <1>5, <1>7, <1>8, <1>9 DEF ProgramInv

LEMMA AccountsOnly ==
  ASSUME ProgramInv, MxeInv', UNCHANGED <<leaf, listing, tokens>>
  PROVE  ProgramInv'
<1>1. TypeOK'
  BY DEF ProgramInv, TypeOK, MxeInv
<1>2. ListingInv' /\ CustodyIsListed'
  BY DEF ProgramInv, ListingInv, CustodyIsListed, Pda
<1> QED
  BY <1>1, <1>2 DEF ProgramInv

\* The steps of the composition.
LEMMA Steps ==
  ASSUME Next
  PROVE  \/ MxeNext /\ UNCHANGED <<leaf, listing, tokens>>
         \/ \E i \in Invoices, u, v \in Users : MintLeaf(i, u) \/ TransferLeaf(i, u, v)
         \/ \E i, a \in Invoices, u \in Users : CancelListing(i, a, u)
         \/ \E i, a \in Invoices, u \in Users : BuyInvoice(i, a, u)
         \/ \E i \in Invoices, u \in Users, p \in Prices : ListInvoice(i, u, p)
BY DEF Next

LEMMA ProgramStep ==
  ASSUME ProgramInv, [Next]_vars
  PROVE  ProgramInv'
<1>1. CASE UNCHANGED vars
  <2>1. clock \in Nat /\ MxeInv
    BY DEF ProgramInv, MxeInv, MxeTypeOK
  <2>2. MxeInv'
    BY <1>1, <2>1, AccountsRest DEF vars
  <2> QED
    BY <1>1, <2>2, AccountsOnly DEF vars
<1>2. CASE MxeNext /\ UNCHANGED <<leaf, listing, tokens>>
  <2>1. MxeInv'
    BY <1>2, MxeStep DEF ProgramInv
  <2> QED
    BY <1>2, <2>1, AccountsOnly
<1>3. CASE \E i \in Invoices, u, v \in Users : MintLeaf(i, u) \/ TransferLeaf(i, u, v)
  BY <1>3, LeafInv
<1>4. CASE \E i, a \in Invoices, u \in Users : CancelListing(i, a, u)
  BY <1>4, CancelInv
<1>5. CASE \E i, a \in Invoices, u \in Users : BuyInvoice(i, a, u)
  BY <1>5, BuyInv
<1>6. CASE \E i \in Invoices, u \in Users, p \in Prices : ListInvoice(i, u, p)
  BY <1>6, ListInv
<1> QED
  BY <1>1, <1>2, <1>3, <1>4, <1>5, <1>6, Steps

\* The types, the custody of listings and the periods of subscriptions are
\* kept by every instruction of both programs.
THEOREM ProgramSafe == Spec => []ProgramInv
  BY ProgramInit, ProgramStep, PTL DEF Spec

\* An account has a delegate exactly while it is locked.
THEOREM DelegatesWhileLocked == Spec => []DelegateWhileLocked
<1>1. ProgramInv => DelegateWhileLocked
  BY DEF ProgramInv, MxeInv
<1> QED
  BY <1>1, ProgramSafe, PTL

\* A period of a subscription is minted once at most, when it is over.
THEOREM MintsOncePerPeriod == Spec => []MintedOncePerPeriod
<1>1. ProgramInv => MintedOncePerPeriod
  BY DEF ProgramInv, MxeInv
<1> QED
  BY <1>1, ProgramSafe, PTL

\* A subscription of total_periods mints those periods and no other.
THEOREM MintsWithinTerm == Spec => []MintedWithinTerm
<1>1. ASSUME ProgramInv PROVE MintedWithinTerm
  <2> SUFFICES ASSUME NEW i \in Invoices, invoice[i].from # NoSub,
                      subscription[invoice[i].from].term # NoTerm
               PROVE  \E k \in 1 .. subscription[invoice[i].from].term :
                        invoice[i].due = subscription[invoice[i].from].start
                          + k * subscription[invoice[i].from].frequency
    BY DEF MintedWithinTerm
  <2> DEFINE b == subscription[invoice[i].from]
  <2>1. invoice[i].from \in Subs
    BY <1>1 DEF ProgramInv, TypeOK, MxeTypeOK, InvoiceAccount
  <2>2. b.term \in Nat /\ b.left \in Nat
    BY <1>1, <2>1 DEF ProgramInv, MxeInv, MxeTypeOK, SubscriptionAccount, PeriodInv
  <2>3. PICK k \in 1 .. b.term - b.left : invoice[i].due = b.start + k * b.frequency
    BY <1>1 DEF ProgramInv, MxeInv, MintedInv, MintedBy
  <2>4. k \in 1 .. b.term
    BY <2>2, <2>3
  <2> QED
    BY <2>3, <2>4
<1> QED
  BY <1>1, ProgramSafe, PTL

\* A listing has the custody of the NFT it is about and of no other.
THEOREM CustodyListed == Spec => []CustodyIsListed
<1>1. ProgramInv => CustodyIsListed
  BY DEF ProgramInv
<1> QED
  BY <1>1, ProgramSafe, PTL

-----------------------------------------------------------------------------
(* Action properties.                                                        *)

\* A locked subscription is not minted from, and no other instruction moves
\* its period.
THEOREM PeriodsKeptWhileListed == Spec => ListedKeepsPeriods
<1>1. ASSUME ProgramInv, [Next]_vars, NEW s \in Subs, subscription[s].status = "Locked"
      PROVE  /\ subscription'[s].next = subscription[s].next
             /\ subscription'[s].left = subscription[s].left
  <2>1. subscription \in [Subs -> SubscriptionAccount]
    BY <1>1 DEF ProgramInv, TypeOK, MxeTypeOK
  <2>2. CASE subscription' = subscription
    BY <2>2
  <2>3. ASSUME NEW q \in Subs, NEW u \in Users, NEW v \in Keys,
               \/ LockSubscription(q, u, v)
               \/ UnlockSubscription(q, u)
               \/ TransferSubscription(q, u, v)
               \/ CancelSubscription(q, u)
        PROVE  /\ subscription'[s].next = subscription[s].next
               /\ subscription'[s].left = subscription[s].left
    BY <2>1, <2>3 DEF LockSubscription, UnlockSubscription, TransferSubscription,
                      CancelSubscription, SubscriptionAccount
  <2>4. ASSUME NEW q \in Subs, NEW u \in Users, NEW v \in Users, NEW d \in Ago,
               NEW f \in Frequencies, NEW n \in Terms,
               CreateSubscription(q, u, v, clock - d, f, n)
        PROVE  subscription'[s] = subscription[s]
    BY <1>1, <2>1, <2>4 DEF CreateSubscription
  <2>5. ASSUME NEW i \in Invoices, NEW q \in Subs, NEW u \in Users,
               MintInvoiceFromSubscription(i, q, u)
        PROVE  subscription'[s] = subscription[s]
    BY <1>1, <2>1, <2>5 DEF MintInvoiceFromSubscription, Mints
  <2>6. ASSUME MxeNext
        PROVE  /\ subscription'[s].next = subscription[s].next
               /\ subscription'[s].left = subscription[s].left
    <3>1. CASE UNCHANGED accounts
      BY <2>2, <3>1 DEF accounts
    <3>2. CASE MxeInstruction
      <4>1. \/ subscription' = subscription
            \/ \E q \in Subs, u \in Users, v \in Keys :
                 \/ LockSubscription(q, u, v)
                 \/ UnlockSubscription(q, u)
                 \/ TransferSubscription(q, u, v)
                 \/ CancelSubscription(q, u)
            \/ \E q \in Subs, u, v \in Users, d \in Ago, f \in Frequencies, n \in Terms :
                 CreateSubscription(q, u, v, clock - d, f, n)
            \/ \E i \in Invoices, q \in Subs, u \in Users :
                 MintInvoiceFromSubscription(i, q, u)
        <5>1. PICK u \in Users :
                \/ \E i \in Invoices :
                     \/ CreateInvoice(i, u)
                     \/ UnlockInvoice(i, u)
                     \/ MarkInvoicePaid(i, u)
                     \/ \E v \in Keys : LockInvoice(i, u, v) \/ CompleteTransfer(i, u, v)
                     \/ \E q \in Subs : MintInvoiceFromSubscription(i, q, u)
                \/ \E q \in Subs :
                     \/ UnlockSubscription(q, u)
                     \/ CancelSubscription(q, u)
                     \/ \E v \in Keys : LockSubscription(q, u, v) \/ TransferSubscription(q, u, v)
                     \/ \E v \in Users, d \in Ago, f \in Frequencies, n \in Terms :
                          CreateSubscription(q, u, v, clock - d, f, n)
          BY <3>2 DEF MxeInstruction
        <5>2. ASSUME NEW i \in Invoices, NEW v \in Keys,
                     \/ CreateInvoice(i, u)
                     \/ UnlockInvoice(i, u)
                     \/ MarkInvoicePaid(i, u)
                     \/ LockInvoice(i, u, v)
                     \/ CompleteTransfer(i, u, v)
              PROVE  subscription' = subscription
          BY <5>2 DEF CreateInvoice, UnlockInvoice, MarkInvoicePaid, LockInvoice,
                      CompleteTransfer
        <5> QED
          BY <5>1, <5>2
      <4> QED
        BY <2>2, <2>3, <2>4, <2>5, <4>1
    <3> QED
      BY <2>6, <3>1, <3>2 DEF MxeNext
  <2>7. ASSUME ~MxeNext
        PROVE  subscription' = subscription
    <3>1. CASE UNCHANGED vars
      BY <3>1 DEF vars, accounts
    <3>2. CASE Next
      <4>1. ASSUME NEW i \in Invoices, NEW a \in Invoices, NEW u \in Users,
                   NEW v \in Users, NEW p \in Prices,
                   \/ MintLeaf(i, u) \/ TransferLeaf(i, u, v) \/ CancelListing(i, a, u)
                   \/ BuyInvoice(i, a, u) \/ ListInvoice(i, u, p)
            PROVE  subscription' = subscription
        BY <4>1 DEF MintLeaf, TransferLeaf, CancelListing, BuyInvoice, ListInvoice,
                    UnlockInvoice, CompleteTransfer, LockInvoice, accounts
      <4>2. ASSUME NEW i \in Invoices, NEW a \in Invoices, NEW u \in Users, NEW v \in Users,
                   \/ MintLeaf(i, u) \/ TransferLeaf(i, u, v) \/ CancelListing(i, a, u)
                   \/ BuyInvoice(i, a, u)
            PROVE  subscription' = subscription
        BY <4>2 DEF MintLeaf, TransferLeaf, CancelListing, BuyInvoice,
                    UnlockInvoice, CompleteTransfer, accounts
      <4> QED
        BY <2>7, <3>2, <4>1, <4>2, Steps
    <3> QED
      BY <1>1, <3>1, <3>2
  <2> QED
    BY <2>2, <2>6, <2>7
<1>2. ProgramInv /\ [Next]_vars =>
        [\A s \in Subs :
           subscription[s].status = "Locked" =>
             /\ subscription'[s].next = subscription[s].next
             /\ subscription'[s].left = subscription[s].left]_accounts
  BY <1>1
<1> QED
  BY <1>2, ProgramSafe, PTL DEF Spec, ListedKeepsPeriods

\* A listing ends with the NFT back at the seller for nothing, or at a buyer who
\* paid the price.
THEOREM SellsForThePrice == Spec => SoldForThePrice
<1> DEFINE Ends(t) ==
      LET l == listing[t]
          b == leaf'[l.asset]
      IN listing[t] # NoListing /\ listing'[t] = NoListing =>
           \/ b = l.seller /\ tokens' = tokens
           \/ /\ tokens[b] - tokens'[b] <= l.price
              /\ \A u \in Users \ {b} : tokens'[u] >= tokens[u]
              /\ b # l.seller =>
                   tokens'[l.seller] >= tokens[l.seller] + l.price - l.price \div 100
<1>1. ASSUME ProgramInv, [Next]_vars, NEW t \in Trees
      PROVE  Ends(t)
  <2>1. TypeOK /\ MxeTypeOK /\ CustodyIsListed
    BY <1>1 DEF ProgramInv, TypeOK
  <2>2. CASE UNCHANGED listing
    BY <2>2
  <2>3. ASSUME NEW i \in Invoices, NEW u \in Users, NEW p \in Prices, ListInvoice(i, u, p)
        PROVE  Ends(t)
    <3>1. TreeOf[i] \in Trees
      BY PdasAreNoWallets
    <3>2. listing'[t] = listing[t] \/ listing[t] = NoListing
      BY <2>1, <2>3, <3>1 DEF ListInvoice, Free, TypeOK
    <3> QED
      BY <3>2
  <2>4. ASSUME NEW i \in Invoices, NEW a \in Invoices, NEW u \in Users,
               CancelListing(i, a, u)
        PROVE  Ends(t)
    <3>1. TreeOf[i] \in Trees /\ Pda(i) \in Pdas
      BY PdasAreNoWallets
    <3>2. CASE t # TreeOf[i]
      BY <2>1, <2>4, <3>1, <3>2 DEF CancelListing, TypeOK
    <3>3. CASE t = TreeOf[i]
      <4>1. listing[t].asset = i /\ listing[t].seller = u
        BY <2>1, <2>4, <3>1, <3>3 DEF CancelListing, CustodyIsListed
      <4>2. leaf'[i] = u /\ tokens' = tokens
        BY <2>1, <2>4 DEF CancelListing, TypeOK
      <4> QED
        BY <4>1, <4>2
    <3> QED
      BY <3>2, <3>3
  <2>5. ASSUME NEW i \in Invoices, NEW a \in Invoices, NEW u \in Users,
               BuyInvoice(i, a, u)
        PROVE  Ends(t)
    <3>1. CASE t # TreeOf[i]
      BY <1>1, <2>1, <2>5, <3>1, Bought DEF TypeOK
    <3>2. CASE t = TreeOf[i]
      <4> DEFINE l == listing[t]
      <4>1. /\ l \in Listing /\ l.asset = i /\ leaf'[l.asset] = u
            /\ tokens \in [Users -> Nat] /\ tokens[u] >= l.price
            /\ tokens' = Proceeds(tokens, u, l)
        BY <1>1, <2>5, <3>2, Bought
      <4> HIDE DEF l
      <4>2. /\ tokens[u] - tokens'[u] <= l.price
            /\ \A v \in Users \ {u} : tokens'[v] >= tokens[v]
            /\ u # l.seller =>
                 tokens'[l.seller] >= tokens[l.seller] + l.price - l.price \div 100
        BY <4>1, PriceIsPaid
      <4> QED
        BY <4>1, <4>2 DEF l
    <3> QED
      BY <3>1, <3>2
  <2>6. ASSUME MxeNext /\ UNCHANGED <<leaf, listing, tokens>>
        PROVE  UNCHANGED listing
    BY <2>6
  <2>7. ASSUME NEW i \in Invoices, NEW u \in Users, NEW v \in Users,
               MintLeaf(i, u) \/ TransferLeaf(i, u, v)
        PROVE  UNCHANGED listing
    BY <2>7 DEF MintLeaf, TransferLeaf
  <2>8. UNCHANGED vars => UNCHANGED listing
    BY DEF vars
  <2> HIDE DEF Ends
  <2> QED
    BY <1>1, <2>2, <2>3, <2>4, <2>5, <2>6, <2>7, <2>8, Steps
<1>2. ProgramInv /\ [Next]_vars => [\A t \in Trees : Ends(t)]_vars
  <2> HIDE DEF Ends
  <2> QED
    BY <1>1
<1> QED
  BY <1>2, ProgramSafe, PTL DEF Spec, SoldForThePrice

-----------------------------------------------------------------------------
(* The refinement.                                                           *)

\* A wallet sees its NFTs, and those it offers, move as Escrow lets them.
THEOREM ProgramImplementsEscrow == Spec => ImplementsEscrow
<1> DEFINE holder == [i \in Invoices |-> IF leaf[i] \in Pdas THEN "escrow" ELSE leaf[i]]
           offer == [i \in Invoices |->
                       IF leaf[i] \in Pdas /\ listing[TreeOf[i]] # NoListing
                       THEN listing[TreeOf[i]].seller ELSE NoKey]
<1>1. Init => Custody!Init
  BY PdasAreNoWallets DEF Init, Custody!Init
<1>2. ASSUME ProgramInv, [Next]_vars
      PROVE  [Custody!Next]_(Custody!vars)
  <2>1. TypeOK /\ CustodyIsListed
    BY <1>2 DEF ProgramInv
  <2>2. CASE UNCHANGED <<leaf, listing>>
    <3>1. holder' = holder /\ offer' = offer
      BY <2>2
    <3> QED
      BY <3>1 DEF Custody!vars
  <2>3. ASSUME NEW i \in Invoices, NEW u \in Users, MintLeaf(i, u)
        PROVE  Custody!Next
    <3>1. /\ holder[i] = NoKey
          /\ holder' = [holder EXCEPT ![i] = u]
          /\ offer' = offer
      BY <2>1, <2>3, PdasAreNoWallets DEF MintLeaf, TypeOK
    <3> QED
      BY <3>1 DEF Custody!Next, Custody!Mint
  <2>4. ASSUME NEW i \in Invoices, NEW u \in Users, NEW v \in Users, TransferLeaf(i, u, v)
        PROVE  Custody!Next
    <3>1. /\ holder[i] = u
          /\ holder' = [holder EXCEPT ![i] = v]
          /\ offer' = offer
      BY <2>1, <2>4, PdasAreNoWallets DEF TransferLeaf, TypeOK
    <3> QED
      BY <3>1 DEF Custody!Next, Custody!Give
  <2>5. ASSUME NEW i \in Invoices, NEW u \in Users, NEW p \in Prices, ListInvoice(i, u, p)
        PROVE  Custody!Next
    <3> DEFINE l == [seller |-> u, price |-> p, asset |-> i]
    <3>1. /\ leaf[i] = u /\ u \notin Pdas /\ Pda(i) \in Pdas /\ TreeOf[i] \in Trees
          /\ listing[TreeOf[i]] = NoListing
          /\ leaf' = [leaf EXCEPT ![i] = Pda(i)]
          /\ listing' = [listing EXCEPT ![TreeOf[i]] = l]
          /\ l \in Listing /\ l # NoListing
      BY <2>5, PdasAreNoWallets, MarketAssumption DEF ListInvoice, Free, Listing
    <3>2. holder[i] = u /\ holder' = [holder EXCEPT ![i] = "escrow"]
      BY <2>1, <3>1 DEF TypeOK
    <3>3. offer' = [offer EXCEPT ![i] = u]
      <4>1. ASSUME NEW j \in Invoices, j # i
            PROVE  offer'[j] = offer[j]
        <5>1. leaf'[j] = leaf[j]
          BY <2>1, <3>1, <4>1 DEF TypeOK
        <5>2. CASE leaf[j] \in Pdas
          <6>1. TreeOf[j] # TreeOf[i]
            BY <2>1, <3>1, <5>2 DEF CustodyIsListed
          <6> QED
            BY <2>1, <3>1, <5>1, <6>1 DEF TypeOK
        <5>3. CASE leaf[j] \notin Pdas
          BY <5>1, <5>3
        <5> QED
          BY <5>2, <5>3
      <4>2. leaf'[i] = Pda(i) /\ listing'[TreeOf[i]] = l
        BY <2>1, <3>1 DEF TypeOK
      <4>3. offer'[i] = u
        BY <3>1, <4>2
      <4> QED
        BY <4>1, <4>3
    <3> QED
      BY <3>2, <3>3 DEF Custody!Next, Custody!Offer
  <2>6. ASSUME NEW i \in Invoices, NEW u \in Users, leaf[i] = Pda(i),
               leaf' = [leaf EXCEPT ![i] = u],
               listing' = [listing EXCEPT ![TreeOf[i]] = NoListing]
        PROVE  /\ holder[i] = "escrow"
               /\ holder' = [holder EXCEPT ![i] = u]
               /\ offer' = [offer EXCEPT ![i] = NoKey]
               /\ offer[i] = listing[TreeOf[i]].seller
    <3>1. /\ u \notin Pdas /\ leaf[i] \in Pdas /\ TreeOf[i] \in Trees
          /\ listing[TreeOf[i]] # NoListing /\ listing[TreeOf[i]].asset = i
      BY <2>1, <2>6, PdasAreNoWallets DEF CustodyIsListed
    <3>2. leaf'[i] = u
      BY <2>1, <2>6 DEF TypeOK
    <3>3. holder[i] = "escrow" /\ holder' = [holder EXCEPT ![i] = u]
      BY <2>1, <2>6, <3>1 DEF TypeOK
    <3>4. ASSUME NEW j \in Invoices, j # i
          PROVE  offer'[j] = offer[j]
      <4>1. leaf'[j] = leaf[j]
        BY <2>1, <2>6, <3>4 DEF TypeOK
      <4>2. CASE leaf[j] \in Pdas
        <5>1. TreeOf[j] # TreeOf[i]
          BY <2>1, <3>1, <3>4, <4>2 DEF CustodyIsListed
        <5> QED
          BY <2>1, <2>6, <3>1, <4>1, <5>1 DEF TypeOK
      <4>3. CASE leaf[j] \notin Pdas
        BY <4>1, <4>3
      <4> QED
        BY <4>2, <4>3
    <3>5. offer'[i] = NoKey
      BY <3>1, <3>2
    <3>6. offer' = [offer EXCEPT ![i] = NoKey]
      BY <3>4, <3>5
    <3> QED
      BY <3>1, <3>3, <3>6
  <2>7. ASSUME NEW i \in Invoices, NEW a \in Invoices, NEW u \in Users,
               CancelListing(i, a, u)
        PROVE  Custody!Next
    <3>1. /\ leaf[i] = Pda(i) /\ leaf' = [leaf EXCEPT ![i] = u]
          /\ listing' = [listing EXCEPT ![TreeOf[i]] = NoListing]
          /\ listing[TreeOf[i]].seller = u
      BY <2>7 DEF CancelListing
    <3> HIDE DEF holder, offer
    <3> QED
      BY <2>6, <3>1 DEF Custody!Next, Custody!Withdraw, Custody!Close, holder, offer
  <2>8. ASSUME NEW i \in Invoices, NEW a \in Invoices, NEW u \in Users,
               BuyInvoice(i, a, u)
        PROVE  Custody!Next
    <3>1. /\ leaf[i] = Pda(i) /\ leaf' = [leaf EXCEPT ![i] = u]
          /\ listing' = [listing EXCEPT ![TreeOf[i]] = NoListing]
      BY <2>8 DEF BuyInvoice
    <3> QED
      BY <2>6, <3>1 DEF Custody!Next, Custody!Sell, Custody!Close
  <2>9. UNCHANGED vars => UNCHANGED <<leaf, listing>>
    BY DEF vars
  <2> QED
    BY <1>2, <2>2, <2>3, <2>4, <2>5, <2>7, <2>8, <2>9, Steps
<1> QED
  BY <1>1, <1>2, ProgramSafe, PTL DEF Spec, ImplementsEscrow, Custody!Spec
=============================================================================
