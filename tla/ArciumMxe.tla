------------------------------ MODULE ArciumMxe ------------------------------
(* The invoice and subscription accounts of the MXE program                  *)
(* (arcium-mxe/src/lib.rs).  An instruction runs alone and, when one of its  *)
(* checks fails, changes nothing: it is an action on the accounts it names,  *)
(* with its checks as guards.  Who signs is a parameter.                     *)
(*                                                                           *)
(* Left out: the MXE account itself, amounts, mints and hashes, which no     *)
(* instruction reads, the Sent, Factored and Cancelled invoices and Paused   *)
(* subscriptions that no instruction makes, the default key as a delegate or *)
(* new owner, and 64-bit overflow of dates.                                  *)
(*                                                                           *)
(* Where two operators with the same parameters stand one above the other,   *)
(* the first is a fault the second must not have; no action uses it.         *)
EXTENDS Integers

CONSTANTS
    Users,          \* the keys of wallets
    Pdas,           \* the keys of accounts of other programs
    NoKey,          \* Pubkey::default()
    Invoices,       \* addresses of invoice accounts
    Subs,           \* addresses of subscription accounts
    NoSub,
    Frequencies,    \* frequency_seconds: the server sends positive ones
    Terms,          \* total_periods
    Ago,            \* how long ago a new subscription may have started
    NoTerm,         \* total_periods: None
    MaxTime         \* bound on the clock

ASSUME MxeAssumption ==
    /\ Users \cap Pdas = {}
    /\ NoKey \notin Users \cup Pdas
    /\ NoSub \notin Subs
    /\ Frequencies \subseteq Nat \ {0}
    /\ Terms \subseteq Nat \cup {NoTerm}
    /\ Ago \subseteq Nat
    /\ NoTerm \notin Nat
    /\ MaxTime \in Nat

VARIABLES invoice, subscription, clock

accounts == <<invoice, subscription>>

Keys == Users \cup Pdas

InvoiceAccount ==
    [status : {"None", "Draft", "Unpaid", "Paid", "Locked"},
     authority : Keys \cup {NoKey}, delegate : Keys \cup {NoKey},
     due : Int, from : Subs \cup {NoSub}]
SubscriptionAccount ==
    [status : {"None", "Active", "Cancelled", "Locked"},
     authority : Keys \cup {NoKey}, payer : Users \cup {NoKey},
     delegate : Keys \cup {NoKey}, start : Int, frequency : Nat, next : Int,
     left : Nat \cup {NoTerm}, term : Nat \cup {NoTerm}]

NoInvoice == [status |-> "None", authority |-> NoKey, delegate |-> NoKey,
              due |-> 0, from |-> NoSub]
NoSubscription == [status |-> "None", authority |-> NoKey, payer |-> NoKey,
                   delegate |-> NoKey, start |-> 0, frequency |-> 0,
                   next |-> 0, left |-> NoTerm, term |-> NoTerm]

MxeInit ==
    /\ invoice = [i \in Invoices |-> NoInvoice]
    /\ subscription = [s \in Subs |-> NoSubscription]
    /\ clock = 0

-----------------------------------------------------------------------------
(* Invoices.                                                                 *)

CreateInvoice(i, signer) ==
    /\ invoice[i].status = "None"
    /\ invoice' = [invoice EXCEPT ![i] =
         [status |-> "Draft", authority |-> signer, delegate |-> NoKey,
          due |-> 0, from |-> NoSub]]
    /\ UNCHANGED subscription

\* A lock hands the right to transfer the invoice to the delegate.
LockInvoice(i, signer, delegate) ==
    /\ invoice[i].status \in {"Draft", "Unpaid"}
    /\ invoice[i].authority = signer
    /\ invoice' = [invoice EXCEPT ![i].status = "Locked", ![i].delegate = delegate]
    /\ UNCHANGED subscription

UnlockInvoice(i, signer) ==
    /\ invoice[i].status = "Locked"
    /\ invoice[i].authority = signer
    /\ invoice' = [invoice EXCEPT ![i].status = "Unpaid", ![i].delegate = NoKey]
    /\ UNCHANGED subscription

\* A locked invoice is the delegate's to transfer, any other the owner's.
MayTransfer(i, signer) ==
    IF invoice[i].status = "Locked" THEN invoice[i].delegate = signer
                                    ELSE invoice[i].authority = signer

Transferred(i, to) ==
    [invoice[i] EXCEPT !.authority = to, !.status = "Unpaid", !.delegate = NoKey]

CompleteTransfer(i, signer, to) ==
    /\ invoice[i].status # "None"
    /\ MayTransfer(i, signer)
    /\ invoice' = [invoice EXCEPT ![i] = Transferred(i, to)]
    /\ UNCHANGED subscription

MarkInvoicePaid(i, signer) ==
    /\ invoice[i].status = "Unpaid"
    /\ invoice[i].authority = signer
    /\ invoice' = [invoice EXCEPT ![i].status = "Paid"]
    /\ UNCHANGED subscription

-----------------------------------------------------------------------------
(* Subscriptions.  term keeps the total_periods a subscription began with,   *)
(* left is the field the program counts down.                                *)

CreateSubscription(s, signer, payer, start, frequency, term) ==
    /\ subscription[s].status = "None"
    /\ subscription' = [subscription EXCEPT ![s] =
         [status |-> "Active", authority |-> signer, payer |-> payer,
          delegate |-> NoKey, start |-> start, frequency |-> frequency,
          next |-> start + frequency, left |-> term, term |-> term]]
    /\ UNCHANGED invoice

LockSubscription(s, signer, delegate) ==
    /\ subscription[s].status = "Active"
    /\ subscription[s].authority = signer
    /\ subscription' = [subscription EXCEPT ![s].status = "Locked",
                                            ![s].delegate = delegate]
    /\ UNCHANGED invoice

UnlockSubscription(s, signer) ==
    /\ subscription[s].status = "Locked"
    /\ subscription[s].authority = signer
    /\ subscription' = [subscription EXCEPT ![s].status = "Active",
                                            ![s].delegate = NoKey]
    /\ UNCHANGED invoice

\* The delegate of a locked subscription, or the owner of one that is not
\* locked, be it cancelled.
TransferSubscription(s, signer, to) ==
    /\ subscription[s].status # "None"
    /\ \/ /\ signer = subscription[s].delegate
          /\ subscription[s].status = "Locked"
       \/ /\ signer # subscription[s].delegate
          /\ signer = subscription[s].authority
          /\ subscription[s].status # "Locked"
    /\ subscription' = [subscription EXCEPT ![s].status = "Active",
                                            ![s].authority = to,
                                            ![s].delegate = NoKey]
    /\ UNCHANGED invoice

CancelSubscription(s, signer) ==
    /\ subscription[s].status \notin {"None", "Cancelled"}
    /\ signer \in {subscription[s].authority, subscription[s].payer}
    /\ subscription' = [subscription EXCEPT ![s].status = "Cancelled",
                                            ![s].delegate = NoKey]
    /\ UNCHANGED invoice

\* Fault: a listed subscription goes on minting.
MintsWhenLocked(s) == subscription[s].status \in {"Active", "Locked"}

Mints(s) == subscription[s].status = "Active"

IsDue(s) == clock >= subscription[s].next

\* Fault: the subscription is not written.
SamePeriod(s) == subscription[s]

\* Fault: the periods are not counted down.
NoCountdown(s) ==
    [subscription[s] EXCEPT
       !.next = subscription[s].next + subscription[s].frequency]

NextPeriod(s) ==
    [subscription[s] EXCEPT
       !.next = subscription[s].next + subscription[s].frequency,
       !.left = IF subscription[s].left = NoTerm
                THEN NoTerm ELSE subscription[s].left - 1]

MintInvoiceFromSubscription(i, s, signer) ==
    /\ invoice[i].status = "None"
    /\ subscription[s].authority = signer
    /\ Mints(s)
    /\ IsDue(s)
    /\ subscription[s].left # 0
    /\ invoice' = [invoice EXCEPT ![i] =
         [status |-> "Unpaid", authority |-> subscription[s].authority,
          delegate |-> NoKey, due |-> subscription[s].next, from |-> s]]
    /\ subscription' = [subscription EXCEPT ![s] = NextPeriod(s)]

-----------------------------------------------------------------------------

\* What the wallets may ask of the program themselves.
MxeInstruction ==
    \E u \in Users :
      \/ \E i \in Invoices :
           \/ CreateInvoice(i, u)
           \/ UnlockInvoice(i, u)
           \/ MarkInvoicePaid(i, u)
           \/ \E v \in Keys : LockInvoice(i, u, v) \/ CompleteTransfer(i, u, v)
           \/ \E s \in Subs : MintInvoiceFromSubscription(i, s, u)
      \/ \E s \in Subs :
           \/ UnlockSubscription(s, u)
           \/ CancelSubscription(s, u)
           \/ \E v \in Keys : LockSubscription(s, u, v) \/ TransferSubscription(s, u, v)
           \/ \E v \in Users, d \in Ago, f \in Frequencies, n \in Terms :
                CreateSubscription(s, u, v, clock - d, f, n)

MxeNext ==
    \/ MxeInstruction /\ UNCHANGED clock
    \/ clock < MaxTime /\ clock' = clock + 1 /\ UNCHANGED accounts

-----------------------------------------------------------------------------
(* Properties.                                                               *)

MxeTypeOK ==
    /\ invoice \in [Invoices -> InvoiceAccount]
    /\ subscription \in [Subs -> SubscriptionAccount]
    /\ clock \in Nat

\* Whatever is locked, unlocked, sold, transferred and cancelled: an account
\* has a delegate exactly while it is locked.
DelegateWhileLocked ==
    /\ \A i \in Invoices :
         invoice[i].delegate # NoKey <=> invoice[i].status = "Locked"
    /\ \A s \in Subs :
         subscription[s].delegate # NoKey <=> subscription[s].status = "Locked"

\* No period of a subscription has two invoices, and none has one before it
\* is over, whoever has owned the subscription since.
MintedOncePerPeriod ==
    \A i \in Invoices : invoice[i].from # NoSub =>
      /\ invoice[i].due <= clock
      /\ \A j \in Invoices \ {i} :
           invoice[j].from = invoice[i].from => invoice[j].due # invoice[i].due

\* An invoice of a subscription with a term is that of one of its periods: with
\* MintedOncePerPeriod, at most total_periods are ever minted.
MintedWithinTerm ==
    \A i \in Invoices :
      LET s == subscription[invoice[i].from]
      IN invoice[i].from # NoSub /\ s.term # NoTerm =>
           \E k \in 1 .. s.term : invoice[i].due = s.start + k * s.frequency

\* A subscription that is listed keeps its periods: what a buyer saw when it
\* was locked is what the delegate sells.
ListedKeepsPeriods ==
    [][\A s \in Subs :
         subscription[s].status = "Locked" =>
           /\ subscription'[s].next = subscription[s].next
           /\ subscription'[s].left = subscription[s].left]_accounts

-----------------------------------------------------------------------------
(* The inductive invariant.                                                  *)

\* How many invoices subscription s has minted, if it has a term.
MintedBy(s) == subscription[s].term - subscription[s].left

\* A subscription is at the period after those it has minted.
PeriodInv ==
    \A s \in Subs :
      LET b == subscription[s]
      IN /\ b.status # "None" => b.frequency > 0
         /\ b.term = NoTerm <=> b.left = NoTerm
         /\ b.term # NoTerm =>
              /\ b.left <= b.term
              /\ b.next = b.start + (MintedBy(s) + 1) * b.frequency

\* What it has minted are periods before.
MintedInv ==
    \A i \in Invoices : invoice[i].from # NoSub =>
      LET b == subscription[invoice[i].from]
      IN /\ b.status # "None"
         /\ invoice[i].status # "None"
         /\ invoice[i].due < b.next
         /\ b.term # NoTerm =>
              \E k \in 1 .. MintedBy(invoice[i].from) :
                invoice[i].due = b.start + k * b.frequency

MxeInv ==
    /\ MxeTypeOK
    /\ DelegateWhileLocked
    /\ PeriodInv
    /\ MintedInv
    /\ MintedOncePerPeriod
=============================================================================
