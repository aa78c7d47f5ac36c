---------------------------- MODULE PaymentLedger ----------------------------
(***************************************************************************)
(* What recording payments should amount to: a ledger that credits a       *)
(* signature to an invoice in one step, once, adding its amount to what    *)
(* the invoice has been paid.                                              *)
(***************************************************************************)
EXTENDS Integers, FiniteSets

CONSTANTS Invoices, Sigs, NoRow

VARIABLES rows,  \* rows[s]: the invoice and amount s was credited for
          paid   \* paid[i]: what i has been paid

ledgerVars == <<rows, paid>>

LedgerInit ==
    /\ rows = [s \in Sigs |-> NoRow]
    /\ paid = [i \in Invoices |-> 0]

\* Any amount may be credited.
CreditTo(s, i) ==
    /\ rows[s] = NoRow
    /\ rows'[s] \in [invoice : {i}, amount : Nat]
    /\ rows' = [rows EXCEPT ![s] = rows'[s]]
    /\ paid' = [paid EXCEPT ![i] = @ + rows'[s].amount]

LedgerNext == \E s \in Sigs, i \in Invoices : CreditTo(s, i)

LedgerSpec == LedgerInit /\ [][LedgerNext]_ledgerVars
=============================================================================
