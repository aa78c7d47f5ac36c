-------------------------- MODULE SettlementProofs --------------------------
(***************************************************************************)
(* Safety of Settlement for every set of requests, invoices and signatures *)
(* and all amounts.  The parts of SettlementInv are proved in the order in *)
(* which they rest on each other: types, locks, verification, credits,     *)
(* receipts.  Then come the ledger that relays implement, sums over finite *)
(* sets, the balances they are about, deadlocks, and the theorems.         *)
(***************************************************************************)
EXTENDS Settlement, FiniteSetTheorems, TLAPS

\* What every step relies on: variables have their types, requests their kinds.
Basic == TypeOK /\ RequestInv
-----------------------------------------------------------------------------
(* Types.                                                                   *)

LEMMA TransactionType ==
    ASSUME NEW status \in {"signed", "pending", "confirmed", "failed"},
           NEW c \in Customers, NEW p \in Payees, NEW x \in Nat, NEW y \in Nat
    PROVE  /\ Transaction(status, c, p, x, y) \in Tx
           /\ Transaction(status, c, p, x, y) # NoTx
  BY SettlementAssumption DEF Transaction, Tx, SettlementAssumption

LEMMA SharesType ==
    ASSUME NEW a \in Nat
    PROVE  FeeShare(a) \in Nat /\ PayeeShare(a) \in Nat
  BY DEF FeeShare, PayeeShare

LEMMA ColumnsType ==
    ASSUME NEW inv \in Invoice, NEW a \in Nat
    PROVE  /\ AfterPayment(inv, a) \in
                [paid : Nat, remaining : Nat, status : Statuses]
           /\ AfterConfirmation(inv, a) \in
                [paid : Nat, remaining : Nat, status : Statuses]
  BY DEF AfterPayment, AfterConfirmation, Clamped, Invoice, Statuses

LEMMA CreatedType ==
    ASSUME NEW i \in Invoices, NEW status \in Statuses, NEW p \in Payees
    PROVE Created(i, status, p) \in Invoice
  BY SettlementAssumption DEF Created, Invoice, SettlementAssumption

LEMMA SettledType ==
    ASSUME NEW tx \in Tx, NEW outcome \in {"pending", "confirmed", "failed"}
    PROVE  [tx EXCEPT !.status = outcome] \in Tx \ {NoTx}
  BY SettlementAssumption DEF Tx, SettlementAssumption

LEMMA FlaggedType ==
    ASSUME NEW row \in Payment
    PROVE  [row EXCEPT !.receipt = TRUE] \in Payment \ {NoPayment}
  BY SettlementAssumption DEF Payment, SettlementAssumption

LEMMA RoutedType ==
    ASSUME NEW inv \in Invoice, NEW b \in Payees
    PROVE  [inv EXCEPT !.payee = b, !.owners = inv.owners \cup {b}] \in Invoice
  BY DEF Invoice

LEMMA EditedType ==
    ASSUME NEW inv \in Invoice, NEW status \in Statuses, NEW total \in Nat
    PROVE  /\ [inv EXCEPT !.status = status] \in Invoice
           /\ [inv EXCEPT !.status = status, !.total = total] \in Invoice
  BY DEF Invoice

\* The rows of an invoice's listings stay in range.
LEMMA RowMoves ==
    ASSUME NEW row \in Rows, NEW a \in Nat, NEW b \in Nat
    PROVE  /\ [row EXCEPT !.active = a, !.cancelled = b] \in Rows
           /\ [row EXCEPT !.active = a, !.sold = b] \in Rows
           /\ [row EXCEPT !.cancelled = a, !.sold = b] \in Rows
           /\ [row EXCEPT !.active = a, !.most = b] \in Rows
  BY DEF Rows

LEMMA RowsMove ==
    ASSUME NEW rows \in [Invoices -> Rows], NEW i \in Invoices,
           NEW a \in Nat, NEW b \in Nat
    PROVE  /\ [rows EXCEPT ![i].active = a, ![i].cancelled = b]
                \in [Invoices -> Rows]
           /\ [rows EXCEPT ![i].active = a, ![i].sold = b]
                \in [Invoices -> Rows]
           /\ [rows EXCEPT ![i].cancelled = a, ![i].sold = b]
                \in [Invoices -> Rows]
           /\ [rows EXCEPT ![i].active = a, ![i].most = b]
                \in [Invoices -> Rows]
<1>1. rows[i] \in Rows
  OBVIOUS
<1>2. [rows EXCEPT ![i].active = a, ![i].cancelled = b]
        \in [Invoices -> Rows]
  <2>1. [rows[i] EXCEPT !.active = a, !.cancelled = b] \in Rows
    BY <1>1, RowMoves, Zenon
  <2> QED
    BY <2>1
<1>3. [rows EXCEPT ![i].active = a, ![i].sold = b] \in [Invoices -> Rows]
  <2>1. [rows[i] EXCEPT !.active = a, !.sold = b] \in Rows
    BY <1>1, RowMoves, Zenon
  <2> QED
    BY <2>1
<1>4. [rows EXCEPT ![i].cancelled = a, ![i].sold = b] \in [Invoices -> Rows]
  <2>1. [rows[i] EXCEPT !.cancelled = a, !.sold = b] \in Rows
    BY <1>1, RowMoves, Zenon
  <2> QED
    BY <2>1
<1>5. [rows EXCEPT ![i].active = a, ![i].most = b] \in [Invoices -> Rows]
  <2>1. [rows[i] EXCEPT !.active = a, !.most = b] \in Rows
    BY <1>1, RowMoves, Zenon
  <2> QED
    BY <2>1
<1> QED
  BY <1>2, <1>3, <1>4, <1>5

LEMMA RowsType ==
    ASSUME TypeOK, NEW i \in Invoices
    PROVE  /\ listing[i].active > 0 =>
                /\ [listing EXCEPT ![i].active = @ - 1, ![i].cancelled = @ + 1]
                     \in [Invoices -> Rows]
                /\ [listing EXCEPT ![i].active = @ - 1, ![i].sold = @ + 1]
                     \in [Invoices -> Rows]
           /\ listing[i].cancelled > 0 =>
                [listing EXCEPT ![i].cancelled = @ - 1, ![i].sold = @ + 1]
                  \in [Invoices -> Rows]
           /\ \A n \in Nat : [listing EXCEPT ![i].active = @ + 1, ![i].most = n]
                              \in [Invoices -> Rows]
<1>1. /\ listing \in [Invoices -> Rows]
      /\ listing[i].active \in Nat /\ listing[i].cancelled \in Nat
      /\ listing[i].sold \in Nat
  BY DEF TypeOK, Rows
<1>2. /\ listing[i].active + 1 \in Nat /\ listing[i].cancelled + 1 \in Nat
      /\ listing[i].sold + 1 \in Nat
  BY <1>1
<1>3. ASSUME listing[i].active > 0
      PROVE  /\ [listing EXCEPT ![i].active = @ - 1, ![i].cancelled = @ + 1]
                  \in [Invoices -> Rows]
             /\ [listing EXCEPT ![i].active = @ - 1, ![i].sold = @ + 1]
                  \in [Invoices -> Rows]
  <2>1. listing[i].active - 1 \in Nat
    BY <1>1, <1>3
  <2> QED
    BY <1>1, <1>2, <2>1, RowsMove, Zenon
<1>4. ASSUME listing[i].cancelled > 0
      PROVE  [listing EXCEPT ![i].cancelled = @ - 1, ![i].sold = @ + 1]
               \in [Invoices -> Rows]
  <2>1. listing[i].cancelled - 1 \in Nat
    BY <1>1, <1>4
  <2> QED
    BY <1>1, <1>2, <2>1, RowsMove, Zenon
<1>5. \A n \in Nat : [listing EXCEPT ![i].active = @ + 1, ![i].most = n]
                       \in [Invoices -> Rows]
  BY <1>1, <1>2, RowsMove, Zenon
<1> QED
  BY <1>3, <1>4, <1>5

\* A victim of the deadlock detector waits for a lock.
LEMMA VictimWaits ==
    ASSUME NEW r \in Requests, DeadlockVictim(r)
    PROVE  /\ pc[r] \in {"createInsert", "confirmInsert", "createKeyShare"}
           /\ Rollback(r)
           /\ UNCHANGED <<rowVars, outsideVars>>
<1>1. WaitsFor(r) \in Requests
  BY DEF DeadlockVictim
<1>2. WaitsFor(r) # NoRequest
  BY <1>1, SettlementAssumption DEF SettlementAssumption
<1>3. pc[r] \in {"createInsert", "confirmInsert", "createKeyShare"}
  BY <1>2 DEF WaitsFor
<1> QED
  BY <1>3 DEF DeadlockVictim

LEMMA PaymentType ==
    ASSUME NEW i \in Invoices, NEW a \in Nat, NEW m \in {"chain", "manual"},
           NEW b \in BOOLEAN
    PROVE  LET row == [invoice |-> i, amount |-> a, method |-> m,
                       receipt |-> b]
           IN  row \in Payment /\ row # NoPayment
  BY SettlementAssumption DEF Payment, SettlementAssumption

LEMMA ReleaseType ==
    ASSUME TypeOK, NEW r \in Requests, Release(r)
    PROVE  /\ excl' \in [Invoices -> Requests \cup {NoRequest}]
           /\ share' \in [Invoices -> SUBSET Requests]
           /\ claim' \in [Sigs -> Requests \cup {NoRequest}]
<1>1. excl' \in [Invoices -> Requests \cup {NoRequest}]
  BY DEF Release, TypeOK
<1>2. share' \in [Invoices -> SUBSET Requests]
  BY DEF Release, TypeOK
<1>3. claim' \in [Sigs -> Requests \cup {NoRequest}]
  BY DEF Release, TypeOK
<1> QED
  BY <1>1, <1>2, <1>3

LEMMA UpdatedType ==
    ASSUME NEW inv \in Invoice,
           NEW columns \in [paid : Nat, remaining : Nat, status : Statuses]
    PROVE  [inv EXCEPT !.paid = columns.paid, !.remaining = columns.remaining,
                       !.status = columns.status] \in Invoice
  BY DEF Invoice

LEMMA RecordType ==
    ASSUME TypeOK, NEW r \in Requests, req[r] \in Request, req[r].sig \in Sigs,
           NEW amount \in Nat, NEW method \in {"chain", "manual"},
           NEW columns \in [paid : Nat, remaining : Nat, status : Statuses],
           Record(r, amount, method, columns)
    PROVE  /\ payments' \in [Sigs -> Payment \cup {NoPayment}]
           /\ payments'[req[r].sig] # NoPayment
           /\ \A s \in Sigs :
                payments[s] # NoPayment => payments'[s] # NoPayment
           /\ invoices' \in [Invoices -> Invoice]
           /\ credits' \subseteq Credit
           /\ excl' \in [Invoices -> Requests \cup {NoRequest}]
           /\ share' \in [Invoices -> SUBSET Requests]
           /\ claim' \in [Sigs -> Requests \cup {NoRequest}]
<1>1. req[r].inv \in Invoices
  BY DEF Request
<1>2. /\ payments' \in [Sigs -> Payment \cup {NoPayment}]
      /\ payments'[req[r].sig] # NoPayment
      /\ \A s \in Sigs : payments[s] # NoPayment => payments'[s] # NoPayment
  BY <1>1, PaymentType DEF Record, TypeOK
<1>3. invoices' \in [Invoices -> Invoice]
  BY <1>1, UpdatedType DEF Record, TypeOK
<1>4. credits' \subseteq Credit
  BY <1>1 DEF Record, TypeOK, Credit
<1>5. /\ excl' \in [Invoices -> Requests \cup {NoRequest}]
      /\ share' \in [Invoices -> SUBSET Requests]
      /\ claim' \in [Sigs -> Requests \cup {NoRequest}]
  <2>1. Release(r)
    BY Zenon DEF Record
  <2> QED
    BY <2>1, ReleaseType
<1> QED
  BY <1>2, <1>3, <1>4, <1>5

\* CreateCommit and ConfirmCommit record a payment whose columns are in range.
LEMMA CommitRecords ==
    ASSUME Basic, NEW r \in Requests, CreateCommit(r) \/ ConfirmCommit(r)
    PROVE  /\ pc[r] \in {"createCommit", "confirmCommit"}
           /\ req[r] \in Request /\ req[r].sig \in Sigs
           /\ pc' = [pc EXCEPT ![r] = IF pc[r] = "createCommit" THEN "notify"
                                      ELSE "confirmNotify"]
           /\ UNCHANGED <<outsideVars, localVars>>
           /\ listing' \in [Invoices -> Rows]
           /\ \E amount \in Nat, method \in {"chain", "manual"},
                 columns \in [paid : Nat, remaining : Nat, status : Statuses] :
                Record(r, amount, method, columns)
<1> USE DEF Basic, TypeOK, RequestInv, RequestOK
<1>1. /\ pc[r] \in {"createCommit", "confirmCommit"}
      /\ req[r] \in Request /\ req[r].sig \in Sigs
      /\ snap[r] \in Invoice
      /\ req[r].kind # "manual" => chain[req[r].sig] \in Tx
      /\ pc[r] = "confirmCommit" => req[r].kind = "relay"
  BY DEF CreateCommit, ConfirmCommit, SnapSteps, CreateSteps, ConfirmSteps
<1>2. /\ req[r].amount \in Nat
      /\ req[r].kind # "manual" => chain[req[r].sig].toPayee \in Nat
  BY <1>1 DEF Request, Tx
<1>3. /\ pc' = [pc EXCEPT ![r] = IF pc[r] = "createCommit" THEN "notify"
                                 ELSE "confirmNotify"]
      /\ UNCHANGED <<outsideVars, localVars>>
      /\ listing' \in [Invoices -> Rows]
  <2>1. req[r].inv \in Invoices
    BY <1>1 DEF Request
  <2>2. listing' \in [Invoices -> Rows]
    <3>1. CASE CancelListing(req[r].inv)
      <4>1. listing[req[r].inv].active \in Nat
        BY <2>1 DEF Rows
      <4>2. CASE listing[req[r].inv].active = 0
        BY <3>1, <4>2 DEF CancelListing
      <4>3. CASE listing[req[r].inv].active > 0
        <5>1. listing' = [listing EXCEPT ![req[r].inv].active = @ - 1,
                                         ![req[r].inv].cancelled = @ + 1]
          <6>1. listing[req[r].inv].active # 0
            BY <4>3
          <6> QED
            BY <3>1, <6>1, Zenon DEF CancelListing
        <5> QED
          BY <2>1, <4>3, <5>1, RowsType, Zenon
      <4> QED
        BY <4>1, <4>2, <4>3
    <3>2. CASE UNCHANGED listing
      BY <3>2
    <3> QED
      BY <3>1, <3>2 DEF CreateCommit, ConfirmCommit
  <2> QED
    BY <1>1, <2>2 DEF CreateCommit, ConfirmCommit, Goto
<1>4. CASE CreateCommit(r)
  <2> DEFINE amount == AmountPaid(r)
             method == IF req[r].kind = "manual" THEN "manual" ELSE "chain"
             columns == AfterPayment(snap[r], amount)
  <2>1. amount \in Nat /\ method \in {"chain", "manual"}
    BY <1>2 DEF AmountPaid
  <2>2. columns \in [paid : Nat, remaining : Nat, status : Statuses]
    BY <1>1, <2>1, ColumnsType
  <2>3. Record(r, amount, method, columns)
    BY <1>4 DEF CreateCommit
  <2> HIDE DEF amount, method, columns
  <2> QED
    BY <1>1, <1>3, <2>1, <2>2, <2>3
<1>5. CASE ConfirmCommit(r)
  <2> DEFINE amount == chain[req[r].sig].toPayee
             columns == AfterConfirmation(snap[r], amount)
  <2>1. amount \in Nat
    BY <1>1, <1>2, <1>5 DEF ConfirmCommit
  <2>2. columns \in [paid : Nat, remaining : Nat, status : Statuses]
    BY <1>1, <2>1, ColumnsType
  <2>3. Record(r, amount, "chain", columns)
    BY <1>5 DEF ConfirmCommit, AmountReceived
  <2> HIDE DEF amount, columns
  <2> QED
    BY <1>1, <1>3, <2>1, <2>2, <2>3
<1> QED
  BY <1>4, <1>5

LEMMA CommitKeepsBasic ==
    ASSUME Basic, NEW r \in Requests, CreateCommit(r) \/ ConfirmCommit(r)
    PROVE  Basic'
<1>1. PICK amount \in Nat, method \in {"chain", "manual"},
           columns \in [paid : Nat, remaining : Nat, status : Statuses] :
        Record(r, amount, method, columns)
  BY CommitRecords
<1>2. /\ pc[r] \in {"createCommit", "confirmCommit"}
      /\ req[r] \in Request /\ req[r].sig \in Sigs
      /\ pc' = [pc EXCEPT ![r] = IF pc[r] = "createCommit" THEN "notify"
                                 ELSE "confirmNotify"]
      /\ UNCHANGED <<outsideVars, localVars>>
      /\ listing' \in [Invoices -> Rows]
  BY CommitRecords
<1>3. TypeOK
  BY DEF Basic
<1>4. /\ payments' \in [Sigs -> Payment \cup {NoPayment}]
      /\ payments'[req[r].sig] # NoPayment
      /\ \A s \in Sigs : payments[s] # NoPayment => payments'[s] # NoPayment
      /\ invoices' \in [Invoices -> Invoice]
      /\ credits' \subseteq Credit
      /\ excl' \in [Invoices -> Requests \cup {NoRequest}]
      /\ share' \in [Invoices -> SUBSET Requests]
      /\ claim' \in [Sigs -> Requests \cup {NoRequest}]
  BY <1>1, <1>2, <1>3, RecordType
<1>5. TypeOK'
  <2>1. pc' \in [Requests -> Steps]
    BY <1>2, <1>3 DEF TypeOK, Steps, ConfirmSteps
  <2> QED
    BY <1>2, <1>3, <1>4, <2>1 DEF TypeOK, outsideVars, localVars
<1>6. RequestInv'
  BY <1>2, <1>3, <1>4
  DEF Basic, TypeOK, RequestInv, RequestOK, CreateSteps, ConfirmSteps,
      ListSteps, RecordedSteps, SnapSteps, outsideVars, localVars
<1> QED
  BY <1>5, <1>6 DEF Basic

LEMMA BasicInit == Init => Basic
<1> SUFFICES ASSUME Init PROVE Basic
    OBVIOUS
<1>1. /\ invoices \in [Invoices -> Invoice]
      /\ listing \in [Invoices -> Rows]
  <2>1. PICK status \in [Invoices -> InitialStatuses],
             payee \in [Invoices -> Payees] :
          /\ invoices = [i \in Invoices |-> Created(i, status[i], payee[i])]
          /\ listing = [i \in Invoices |->
                          IF status[i] = "listed" THEN OneActive ELSE NoRows]
    BY DEF Init
  <2>2. InitialStatuses \subseteq Statuses
    BY SettlementAssumption DEF SettlementAssumption, Statuses
  <2>3. \A i \in Invoices : Created(i, status[i], payee[i]) \in Invoice
    BY <2>2, CreatedType
  <2>4. NoRows \in Rows /\ OneActive \in Rows
    BY DEF NoRows, OneActive, Rows
  <2>5. listing \in [Invoices -> Rows]
    <3> DEFINE rows(i) == IF status[i] = "listed" THEN OneActive ELSE NoRows
    <3>1. \A i \in Invoices : rows(i) \in Rows
      BY <2>4
    <3>2. listing = [i \in Invoices |-> rows(i)]
      BY <2>1
    <3> HIDE DEF rows
    <3> QED
      BY <3>1, <3>2
  <2> QED
    BY <2>1, <2>3, <2>5
<1>2. TypeOK
    BY <1>1 DEF Init, TypeOK, Steps
<1>3. RequestInv
    BY DEF Init, RequestInv, RequestOK
<1> QED
    BY <1>2, <1>3 DEF Basic

LEMMA BasicStep == Basic /\ [Next]_vars => Basic'
<1> SUFFICES ASSUME Basic, [Next]_vars PROVE Basic'
  OBVIOUS
<1> USE DEF Basic, rowVars, lockVars, outsideVars, localVars, ListSteps
<1>1. ASSUME NEW s \in Sigs, PayDirectly(s) PROVE Basic'
  <2>1. TypeOK'
    BY <1>1, TransactionType, SharesType, SettlementAssumption
     DEF PayDirectly, SettlementAssumption, TypeOK, RequestInv, RequestOK
  <2>2. RequestInv'
    BY <1>1
     DEF PayDirectly, TypeOK, RequestInv, RequestOK, Finished, CreateSteps,
        ConfirmSteps, RecordedSteps, SnapSteps
  <2> QED
    BY <2>1, <2>2
<1>2. ASSUME NEW s \in Sigs, SignForRelay(s) PROVE Basic'
  <2>1. TypeOK'
    BY <1>2, TransactionType, SettlementAssumption
     DEF SignForRelay, SettlementAssumption, Transfer, TypeOK, RequestInv,
        RequestOK
  <2>2. RequestInv'
    BY <1>2
     DEF SignForRelay, TypeOK, RequestInv, RequestOK, Finished, CreateSteps,
        ConfirmSteps, RecordedSteps, SnapSteps
  <2> QED
    BY <2>1, <2>2
<1>3. ASSUME NEW s \in Sigs, ChainSettles(s) PROVE Basic'
  <2>1. chain[s] \in Tx
    BY <1>3 DEF ChainSettles, TypeOK
  <2>2. PICK outcome \in {"confirmed", "failed"} :
          chain' = [chain EXCEPT ![s] = [chain[s] EXCEPT !.status = outcome]]
    BY <1>3 DEF ChainSettles
  <2>3. DEFINE tx == [chain[s] EXCEPT !.status = outcome]
  <2>4. tx \in Tx \ {NoTx}
    BY <2>1, SettledType
  <2> HIDE DEF tx
  <2>5. chain' = [chain EXCEPT ![s] = tx]
    BY <2>2 DEF tx
  <2>6. TypeOK'
    BY <1>3, <2>4, <2>5 DEF ChainSettles, TypeOK
  <2>7. RequestInv'
    BY <1>3, <2>4, <2>5 DEF ChainSettles, TypeOK, RequestInv, RequestOK
  <2> QED
    BY <2>6, <2>7
<1>4. ASSUME NEW r \in Requests, DirectReceive(r) PROVE Basic'
  <2>1. TypeOK'
    BY <1>4, SettlementAssumption
     DEF DirectReceive, Arrive, Goto, Request, Kinds, SettlementAssumption,
        TypeOK, RequestInv, RequestOK, Steps, Finished, CreateSteps,
        ConfirmSteps, SnapSteps, RecordedSteps
  <2>2. RequestInv'
    BY <1>4, SettlementAssumption
     DEF DirectReceive, Arrive, Goto, Request, Kinds, SettlementAssumption,
        TypeOK, RequestInv, RequestOK, Finished, CreateSteps, ConfirmSteps,
        RecordedSteps, SnapSteps
  <2> QED
    BY <2>1, <2>2
<1>5. ASSUME NEW r \in Requests, ManualReceive(r) PROVE Basic'
  <2>1. TypeOK'
    BY <1>5, SettlementAssumption
     DEF ManualReceive, Arrive, Goto, Request, Kinds, SettlementAssumption,
        TypeOK, RequestInv, RequestOK, Steps, Finished, CreateSteps,
        ConfirmSteps, SnapSteps, RecordedSteps
  <2>2. RequestInv'
    BY <1>5, SettlementAssumption
     DEF ManualReceive, Arrive, Goto, Request, Kinds, SettlementAssumption,
        TypeOK, RequestInv, RequestOK, Finished, CreateSteps, ConfirmSteps,
        RecordedSteps, SnapSteps
  <2> QED
    BY <2>1, <2>2
<1>6. ASSUME NEW r \in Requests, RelayReceive(r) PROVE Basic'
  <2>1. TypeOK'
    BY <1>6, SettlementAssumption
     DEF RelayReceive, Arrive, Goto, Request, Kinds, SettlementAssumption,
        TypeOK, RequestInv, RequestOK, Steps, Finished, CreateSteps,
        ConfirmSteps, SnapSteps, RecordedSteps
  <2>2. RequestInv'
    BY <1>6, SettlementAssumption
     DEF RelayReceive, Arrive, Goto, Request, Kinds, SettlementAssumption,
        TypeOK, RequestInv, RequestOK, Finished, CreateSteps, ConfirmSteps,
        RecordedSteps, SnapSteps
  <2> QED
    BY <2>1, <2>2
<1>7. ASSUME NEW r \in Requests, PatchReceive(r) PROVE Basic'
  <2>1. TypeOK'
    BY <1>7, SettlementAssumption
     DEF PatchReceive, Arrive, Goto, Request, Kinds, SettlementAssumption,
        TypeOK, RequestInv, RequestOK, Steps, Finished, CreateSteps,
        ConfirmSteps, SnapSteps, RecordedSteps
  <2>2. RequestInv'
    BY <1>7, SettlementAssumption
     DEF PatchReceive, Arrive, Goto, Request, Kinds, SettlementAssumption,
        TypeOK, RequestInv, RequestOK, Finished, CreateSteps, ConfirmSteps,
        RecordedSteps, SnapSteps
  <2> QED
    BY <2>1, <2>2
<1>8. ASSUME NEW r \in Requests, DeleteReceive(r) PROVE Basic'
  <2>1. TypeOK'
    BY <1>8, SettlementAssumption
     DEF DeleteReceive, Arrive, Goto, Request, Kinds, SettlementAssumption,
        TypeOK, RequestInv, RequestOK, Steps, Finished, CreateSteps,
        ConfirmSteps, SnapSteps, RecordedSteps
  <2>2. RequestInv'
    BY <1>8, SettlementAssumption
     DEF DeleteReceive, Arrive, Goto, Request, Kinds, SettlementAssumption,
        TypeOK, RequestInv, RequestOK, Finished, CreateSteps, ConfirmSteps,
        RecordedSteps, SnapSteps
  <2> QED
    BY <2>1, <2>2
<1>9. ASSUME NEW r \in Requests, DirectVerify(r) PROVE Basic'
  <2>1. TypeOK'
    BY <1>9
     DEF DirectVerify, Goto, Finish, TypeOK, RequestInv, RequestOK, Steps,
        Finished, CreateSteps, ConfirmSteps, SnapSteps, RecordedSteps
  <2>2. RequestInv'
    BY <1>9
     DEF DirectVerify, Goto, Finish, TypeOK, RequestInv, RequestOK, Finished,
        CreateSteps, ConfirmSteps, RecordedSteps, SnapSteps
  <2> QED
    BY <2>1, <2>2
<1>10. ASSUME NEW r \in Requests, DirectReplay(r) PROVE Basic'
  <2>1. TypeOK'
    BY <1>10
     DEF DirectReplay, Goto, Finish, TypeOK, RequestInv, RequestOK, Steps,
        Finished, CreateSteps, ConfirmSteps, SnapSteps, RecordedSteps
  <2>2. RequestInv'
    BY <1>10
     DEF DirectReplay, Goto, Finish, TypeOK, RequestInv, RequestOK, Finished,
        CreateSteps, ConfirmSteps, RecordedSteps, SnapSteps
  <2> QED
    BY <2>1, <2>2
<1>11. ASSUME NEW r \in Requests, CreateCheck(r) PROVE Basic'
  <2>1. TypeOK'
    BY <1>11
     DEF CreateCheck, Goto, Finish, TypeOK, RequestInv, RequestOK, Steps,
        Finished, CreateSteps, ConfirmSteps, SnapSteps, RecordedSteps
  <2>2. RequestInv'
    BY <1>11
     DEF CreateCheck, Goto, Finish, TypeOK, RequestInv, RequestOK, Finished,
        CreateSteps, ConfirmSteps, RecordedSteps, SnapSteps
  <2> QED
    BY <2>1, <2>2
<1>12. ASSUME NEW r \in Requests, CreateInsert(r) PROVE Basic'
  <2>1. TypeOK'
    BY <1>12, ReleaseType
     DEF CreateInsert, EnterIndex, Goto, Finish, Rollback, TypeOK, RequestInv, RequestOK,
        Steps, Finished, CreateSteps, ConfirmSteps, SnapSteps, RecordedSteps
  <2>2. RequestInv'
    BY <1>12
     DEF CreateInsert, EnterIndex, Goto, Finish, Rollback, TypeOK, RequestInv, RequestOK,
        Finished, CreateSteps, ConfirmSteps, RecordedSteps, SnapSteps
  <2> QED
    BY <2>1, <2>2
<1>13. ASSUME NEW r \in Requests, CreateKeyShare(r) PROVE Basic'
  <2>1. TypeOK'
    BY <1>13, ReleaseType
     DEF CreateKeyShare, Goto, Finish, Rollback, TypeOK, RequestInv, RequestOK,
        Steps, Finished, CreateSteps, ConfirmSteps, SnapSteps, RecordedSteps
  <2>2. RequestInv'
    BY <1>13
     DEF CreateKeyShare, Goto, Finish, Rollback, TypeOK, RequestInv, RequestOK,
        Finished, CreateSteps, ConfirmSteps, RecordedSteps, SnapSteps
  <2> QED
    BY <2>1, <2>2
<1>14. ASSUME NEW r \in Requests, CreateRead(r) PROVE Basic'
  <2>1. TypeOK'
    BY <1>14
     DEF CreateRead, Goto, Read, Request, TypeOK, RequestInv, RequestOK, Steps,
        Finished, CreateSteps, ConfirmSteps, SnapSteps, RecordedSteps
  <2>2. RequestInv'
    BY <1>14
     DEF CreateRead, Goto, Read, Request, TypeOK, RequestInv, RequestOK,
        Finished, CreateSteps, ConfirmSteps, RecordedSteps, SnapSteps
  <2> QED
    BY <2>1, <2>2
<1>15. ASSUME NEW r \in Requests, CreateCommit(r) PROVE Basic'
  BY <1>15, CommitKeepsBasic
<1>16. ASSUME NEW r \in Requests, Notify(r) PROVE Basic'
  <2>1. TypeOK'
    BY <1>16
     DEF Notify, Goto, Event, TypeOK, RequestInv, RequestOK, Steps, Finished,
        CreateSteps, ConfirmSteps, SnapSteps, RecordedSteps
  <2>2. RequestInv'
    BY <1>16
     DEF Notify, Goto, TypeOK, RequestInv, RequestOK, Finished, CreateSteps,
        ConfirmSteps, RecordedSteps, SnapSteps
  <2> QED
    BY <2>1, <2>2
<1>17. ASSUME NEW r \in Requests, Receipt(r) PROVE Basic'
  <2>1. TypeOK'
    BY <1>17
     DEF Receipt, Goto, Finish, TypeOK, RequestInv, RequestOK, Steps, Finished,
        CreateSteps, ConfirmSteps, SnapSteps, RecordedSteps
  <2>2. RequestInv'
    BY <1>17
     DEF Receipt, Goto, Finish, TypeOK, RequestInv, RequestOK, Finished,
        CreateSteps, ConfirmSteps, RecordedSteps, SnapSteps
  <2> QED
    BY <2>1, <2>2
<1>18. ASSUME NEW r \in Requests, Flag(r) PROVE Basic'
  <2>1. /\ pc[r] = "flag" /\ req[r].sig \in Sigs
        /\ payments[req[r].sig] \in Payment
    BY <1>18 DEF Flag, TypeOK, RequestInv, RequestOK, RecordedSteps
  <2>2. DEFINE row == [payments[req[r].sig] EXCEPT !.receipt = TRUE]
  <2>3. row \in Payment \ {NoPayment}
    BY <2>1, FlaggedType
  <2>4. payments' = [payments EXCEPT ![req[r].sig] = row]
    BY <1>18 DEF Flag
  <2> HIDE DEF row
  <2>5. TypeOK'
    <3>1. pc' \in [Requests -> Steps]
      BY <1>18 DEF Flag, Goto, Finish, TypeOK, Steps, Finished
    <3>2. payments' \in [Sigs -> Payment \cup {NoPayment}]
      BY <2>1, <2>3, <2>4 DEF TypeOK
    <3> QED
      BY <1>18, <3>1, <3>2 DEF Flag, Finish, TypeOK
  <2>6. RequestInv'
    <3>1. /\ UNCHANGED <<req, dup, chain>>
          /\ pc' = [pc EXCEPT ![r] = "done"]
          /\ snap' = [snap EXCEPT ![r] = NoSnap]
          /\ \A s \in Sigs :
               payments[s] # NoPayment => payments'[s] # NoPayment
      BY <1>18, <2>1, <2>3, <2>4 DEF Flag, Goto, Finish, TypeOK
    <3> QED
      BY <2>1, <3>1 DEF TypeOK, RequestInv, RequestOK, CreateSteps,
         ConfirmSteps, RecordedSteps, SnapSteps
  <2> QED
    BY <2>5, <2>6
<1>19. ASSUME NEW r \in Requests, RelaySend(r) PROVE Basic'
  <2>1. /\ pc[r] = "relaySend" /\ req[r].sig \in Sigs
        /\ chain[req[r].sig] \in Tx
    BY <1>19 DEF RelaySend, TypeOK, RequestInv, RequestOK
  <2>2. DEFINE tx == [chain[req[r].sig] EXCEPT !.status = "pending"]
  <2>3. tx \in Tx \ {NoTx}
    BY <2>1, SettledType
  <2>4. chain' = chain \/ chain' = [chain EXCEPT ![req[r].sig] = tx]
    BY <1>19 DEF RelaySend
  <2> HIDE DEF tx
  <2>5. /\ chain' \in [Sigs -> Tx \cup {NoTx}]
        /\ \A s \in Sigs : chain[s] # NoTx => chain'[s] # NoTx
    BY <2>1, <2>3, <2>4 DEF TypeOK
  <2>6. /\ UNCHANGED <<rowVars, lockVars, receipts, events, faults, halfDone, req,
                        dup>>
        /\ \/ pc' = [pc EXCEPT ![r] = "confirmReplay"] /\ snap' = snap
           \/ /\ pc' = [pc EXCEPT ![r] = "rejected"]
              /\ snap' = [snap EXCEPT ![r] = NoSnap]
    BY <1>19 DEF RelaySend, Goto, Finish
  <2>7. TypeOK'
    BY <2>5, <2>6 DEF TypeOK, Steps, ConfirmSteps, Finished
  <2>8. RequestInv'
    BY <2>1, <2>5, <2>6
    DEF TypeOK, RequestInv, RequestOK, CreateSteps, ConfirmSteps,
        RecordedSteps, SnapSteps
  <2> QED
    BY <2>7, <2>8
<1>20. ASSUME NEW r \in Requests, ConfirmReplay(r) PROVE Basic'
  <2>1. TypeOK'
    BY <1>20
     DEF ConfirmReplay, Goto, Finish, TypeOK, RequestInv, RequestOK, Steps,
        Finished, CreateSteps, ConfirmSteps, SnapSteps, RecordedSteps
  <2>2. RequestInv'
    BY <1>20
     DEF ConfirmReplay, Goto, Finish, TypeOK, RequestInv, RequestOK, Finished,
        CreateSteps, ConfirmSteps, RecordedSteps, SnapSteps
  <2> QED
    BY <2>1, <2>2
<1>21. ASSUME NEW r \in Requests, ConfirmWait(r) PROVE Basic'
  <2>1. TypeOK'
    BY <1>21
     DEF ConfirmWait, Goto, Finish, TypeOK, RequestInv, RequestOK, Steps,
        Finished, CreateSteps, ConfirmSteps, SnapSteps, RecordedSteps
  <2>2. RequestInv'
    BY <1>21
     DEF ConfirmWait, Goto, Finish, TypeOK, RequestInv, RequestOK, Finished,
        CreateSteps, ConfirmSteps, RecordedSteps, SnapSteps
  <2> QED
    BY <2>1, <2>2
<1>22. ASSUME NEW r \in Requests, ConfirmRead(r) PROVE Basic'
  <2>1. TypeOK'
    <3>1. req[r].inv \in Invoices /\ pc[r] = "confirmRead"
      BY <1>22 DEF ConfirmRead, TypeOK, RequestInv, RequestOK, Request
    <3>2. /\ pc' \in [Requests -> Steps]
          /\ snap' \in [Requests -> Invoice \cup {NoSnap}]
      BY <1>22, <3>1
      DEF ConfirmRead, Goto, Finish, Read, TypeOK, Steps, Finished, ConfirmSteps
    <3> QED
      BY <1>22, <3>2 DEF ConfirmRead, Finish, Read, TypeOK
  <2>2. RequestInv'
    BY <1>22
     DEF ConfirmRead, Goto, Finish, Read, Request, TypeOK, RequestInv,
        RequestOK, Finished, CreateSteps, ConfirmSteps, RecordedSteps,
        SnapSteps
  <2> QED
    BY <2>1, <2>2
<1>23. ASSUME NEW r \in Requests, ConfirmVerify(r) PROVE Basic'
  <2>1. TypeOK'
    BY <1>23
     DEF ConfirmVerify, Goto, Finish, TypeOK, RequestInv, RequestOK, Steps,
        Finished, CreateSteps, ConfirmSteps, SnapSteps, RecordedSteps
  <2>2. RequestInv'
    BY <1>23
     DEF ConfirmVerify, Goto, Finish, TypeOK, RequestInv, RequestOK, Finished,
        CreateSteps, ConfirmSteps, RecordedSteps, SnapSteps
  <2> QED
    BY <2>1, <2>2
<1>24. ASSUME NEW r \in Requests, ConfirmCheck(r) PROVE Basic'
  <2>1. TypeOK'
    BY <1>24
     DEF ConfirmCheck, Goto, TypeOK, RequestInv, RequestOK, Steps, Finished,
        CreateSteps, ConfirmSteps, SnapSteps, RecordedSteps
  <2>2. /\ pc[r] = "confirmCheck"
        /\ pc' = [pc EXCEPT ![r] = "confirmLock"]
        /\ dup' = [dup EXCEPT ![r] = payments[req[r].sig] # NoPayment]
        /\ UNCHANGED <<payments, chain, req, snap>>
    BY <1>24 DEF ConfirmCheck, Goto
  <2>3. ASSUME NEW q \in Requests, q # r PROVE RequestOK(q)'
    <3>1. pc'[q] = pc[q] /\ dup'[q] = dup[q]
      BY <2>2, <2>3
    <3> QED
      BY <2>2, <3>1 DEF RequestInv, RequestOK
  <2>4. RequestOK(r)'
    <3>1. RequestOK(r) /\ req[r].kind = "relay" /\ req[r].sig \in Sigs
      BY <2>2 DEF RequestInv, RequestOK, ConfirmSteps
    <3>2. /\ pc'[r] = "confirmLock"
          /\ dup'[r] = (payments[req[r].sig] # NoPayment)
      BY <2>2 DEF TypeOK
    <3> QED
      BY <2>2, <3>1, <3>2
      DEF RequestOK, SnapSteps, CreateSteps, ConfirmSteps, RecordedSteps
  <2>5. RequestInv'
    BY <2>3, <2>4 DEF RequestInv
  <2> QED
    BY <2>1, <2>5
<1>25. ASSUME NEW r \in Requests, ConfirmLock(r) PROVE Basic'
  <2>1. TypeOK'
    BY <1>25, SMTT(30)
     DEF ConfirmLock, ForUpdate, Goto, Finish, Read, Request, TypeOK,
        RequestInv, RequestOK, Steps, Finished, CreateSteps, ConfirmSteps,
        SnapSteps, RecordedSteps
  <2>2. RequestInv'
    BY <1>25
     DEF ConfirmLock, ForUpdate, Goto, Finish, Read, Request, TypeOK,
        RequestInv, RequestOK, Finished, CreateSteps, ConfirmSteps,
        RecordedSteps, SnapSteps
  <2> QED
    BY <2>1, <2>2
<1>26. ASSUME NEW r \in Requests, ConfirmInsert(r) PROVE Basic'
  <2>1. TypeOK'
    BY <1>26, ReleaseType
     DEF ConfirmInsert, EnterIndex, Goto, Finish, Rollback, TypeOK, RequestInv, RequestOK,
        Steps, Finished, CreateSteps, ConfirmSteps, SnapSteps, RecordedSteps
  <2>2. RequestInv'
    BY <1>26
     DEF ConfirmInsert, EnterIndex, Goto, Finish, Rollback, TypeOK, RequestInv, RequestOK,
        Finished, CreateSteps, ConfirmSteps, RecordedSteps, SnapSteps
  <2> QED
    BY <2>1, <2>2
<1>27. ASSUME NEW r \in Requests, ConfirmCommit(r) PROVE Basic'
  BY <1>27, CommitKeepsBasic
<1>28. ASSUME NEW r \in Requests, ConfirmNotify(r) PROVE Basic'
  <2>1. TypeOK'
    BY <1>28
     DEF ConfirmNotify, Goto, Event, TypeOK, RequestInv, RequestOK, Steps,
        Finished, CreateSteps, ConfirmSteps, SnapSteps, RecordedSteps
  <2>2. RequestInv'
    BY <1>28
     DEF ConfirmNotify, Goto, TypeOK, RequestInv, RequestOK, Finished,
        CreateSteps, ConfirmSteps, RecordedSteps, SnapSteps
  <2> QED
    BY <2>1, <2>2
<1>29. ASSUME NEW r \in Requests, ConfirmReceipt(r) PROVE Basic'
  <2>1. TypeOK'
    BY <1>29
     DEF ConfirmReceipt, Goto, Finish, Mintable, ConfirmPayload, TypeOK,
        RequestInv, RequestOK, Steps, Finished, CreateSteps, ConfirmSteps,
        SnapSteps, RecordedSteps
  <2>2. RequestInv'
    BY <1>29
     DEF ConfirmReceipt, Goto, Finish, Mintable, ConfirmPayload, TypeOK,
        RequestInv, RequestOK, Finished, CreateSteps, ConfirmSteps,
        RecordedSteps, SnapSteps
  <2> QED
    BY <2>1, <2>2
<1>30. ASSUME NEW r \in Requests, PatchWrite(r) PROVE Basic'
  <2>1. TypeOK'
    <3>1. req[r].inv \in Invoices
      BY <1>30 DEF PatchWrite, TypeOK, RequestInv, RequestOK, Request
    <3>2. invoices' \in [Invoices -> Invoice]
      <4>1. PICK status \in PatchStatuses \cup {invoices[req[r].inv].status},
                 total \in PatchTotals \cup {invoices[req[r].inv].total} :
              \/ invoices' = invoices
              \/ invoices' = [invoices EXCEPT ![req[r].inv].status = status,
                                              ![req[r].inv].total = total]
        BY <1>30 DEF PatchWrite
      <4>2. status \in Statuses /\ total \in Nat
        BY <3>1, SettlementAssumption
        DEF TypeOK, Invoice, SettlementAssumption
      <4>3. DEFINE row == [invoices[req[r].inv] EXCEPT !.status = status,
                                                       !.total = total]
      <4>4. row \in Invoice
        BY <3>1, <4>2, EditedType DEF TypeOK
      <4>5. \/ invoices' = invoices
            \/ invoices' = [invoices EXCEPT ![req[r].inv] = row]
        BY <3>1, <4>1 DEF TypeOK
      <4> HIDE DEF row
      <4> QED
        BY <4>4, <4>5 DEF TypeOK
    <3> QED
      BY <1>30, <3>2 DEF PatchWrite, Goto, Finish, TypeOK, Steps, Finished
  <2>2. RequestInv'
    BY <1>30
     DEF PatchWrite, Goto, Finish, TypeOK, RequestInv, RequestOK, Finished,
        CreateSteps, ConfirmSteps, RecordedSteps, SnapSteps
  <2> QED
    BY <2>1, <2>2
<1>31. ASSUME NEW r \in Requests, CancelWrite(r) PROVE Basic'
  <2>1. TypeOK'
    <3>1. req[r].inv \in Invoices
      BY <1>31 DEF CancelWrite, TypeOK, RequestInv, RequestOK, Request
    <3>2. invoices' \in [Invoices -> Invoice]
      <4>1. DEFINE row == [invoices[req[r].inv] EXCEPT !.status = "cancelled"]
      <4>2. row \in Invoice
        BY <3>1, EditedType DEF TypeOK, Statuses
      <4>3. \/ invoices' = invoices
            \/ invoices' = [invoices EXCEPT ![req[r].inv] = row]
        BY <1>31 DEF CancelWrite
      <4> HIDE DEF row
      <4> QED
        BY <4>2, <4>3 DEF TypeOK
    <3> QED
      BY <1>31, <3>2 DEF CancelWrite, Goto, Finish, TypeOK, Steps, Finished
  <2>2. RequestInv'
    BY <1>31
     DEF CancelWrite, Goto, Finish, TypeOK, RequestInv, RequestOK, Finished,
        CreateSteps, ConfirmSteps, RecordedSteps, SnapSteps
  <2> QED
    BY <2>1, <2>2
<1>32. ASSUME NEW r \in Requests, DeleteCheck(r) PROVE Basic'
  <2>1. TypeOK'
    BY <1>32
     DEF DeleteCheck, Goto, Finish, TypeOK, RequestInv, RequestOK, Steps,
        Finished, CreateSteps, ConfirmSteps, SnapSteps, RecordedSteps
  <2>2. RequestInv'
    BY <1>32
     DEF DeleteCheck, Goto, Finish, TypeOK, RequestInv, RequestOK, Finished,
        CreateSteps, ConfirmSteps, RecordedSteps, SnapSteps
  <2> QED
    BY <2>1, <2>2
<1>33. ASSUME NEW r \in Requests, DeleteRow(r) PROVE Basic'
  <2>1. TypeOK'
    <3>1. req[r].inv \in Invoices
      BY <1>33 DEF DeleteRow, TypeOK, RequestInv, RequestOK, Request
    <3>2. invoices' \in [Invoices -> Invoice]
      <4>1. DEFINE row == [invoices[req[r].inv] EXCEPT !.status = "deleted"]
      <4>2. row \in Invoice
        BY <3>1, EditedType DEF TypeOK, Statuses
      <4>3. \/ invoices' = invoices
            \/ invoices' = [invoices EXCEPT ![req[r].inv] = row]
        BY <1>33 DEF DeleteRow
      <4> HIDE DEF row
      <4> QED
        BY <4>2, <4>3 DEF TypeOK
    <3> QED
      BY <1>33, <3>2 DEF DeleteRow, Goto, Finish, TypeOK, Steps, Finished
  <2>2. RequestInv'
    BY <1>33
     DEF DeleteRow, Goto, Finish, TypeOK, RequestInv, RequestOK, Finished,
        CreateSteps, ConfirmSteps, RecordedSteps, SnapSteps
  <2> QED
    BY <2>1, <2>2
<1>34. ASSUME NEW r \in Requests, DeadlockVictim(r) PROVE Basic'
  <2>1. TypeOK'
    BY <1>34, ReleaseType, VictimWaits
     DEF Goto, Finish, Rollback, TypeOK, RequestInv, RequestOK, Steps,
        Finished, CreateSteps, ConfirmSteps, SnapSteps, RecordedSteps
  <2>2. RequestInv'
    BY <1>34, VictimWaits
     DEF Goto, Finish, Rollback, TypeOK, RequestInv, RequestOK, Finished,
        CreateSteps, ConfirmSteps, RecordedSteps, SnapSteps
  <2> QED
    BY <2>1, <2>2
<1>35. CASE Crash
  <2>1. TypeOK'
    BY <1>35 DEF Crash, Fault, TypeOK, Steps, Finished
  <2>2. RequestInv'
    BY <1>35
    DEF Crash, Fault, TypeOK, RequestInv, RequestOK, Finished, CreateSteps,
        ConfirmSteps, RecordedSteps, SnapSteps
  <2> QED
    BY <2>1, <2>2
<1>36. CASE UNCHANGED vars
  BY <1>36 DEF vars, TypeOK, RequestInv, RequestOK
<1>37. ASSUME NEW i \in Invoices, SellListing(i) PROVE Basic'
  <2>1. listing' \in [Invoices -> Rows]
    BY <1>37, RowsType DEF SellListing
  <2> QED
    BY <1>37, <2>1 DEF SellListing, TypeOK, RequestInv, RequestOK
<1>38. ASSUME NEW i \in Invoices, RouteToBuyer(i) PROVE Basic'
  <2>1. PICK b \in Payees :
          invoices' = [invoices EXCEPT ![i].payee = b,
                                       ![i].owners = @ \cup {b}]
    BY <1>38, SettlementAssumption DEF RouteToBuyer, SettlementAssumption
  <2> DEFINE row == [invoices[i] EXCEPT !.payee = b,
                                        !.owners = invoices[i].owners \cup {b}]
  <2>2. row \in Invoice
    BY RoutedType DEF TypeOK
  <2>3. invoices' = [invoices EXCEPT ![i] = row]
    BY <2>1 DEF TypeOK
  <2>4. invoices' \in [Invoices -> Invoice]
    <3> HIDE DEF row
    <3> QED
      BY <2>2, <2>3 DEF TypeOK
  <2> QED
    BY <1>38, <2>4 DEF RouteToBuyer, TypeOK, RequestInv, RequestOK
<1>39. ASSUME NEW r \in Requests, ListReceive(r) PROVE Basic'
  <2>1. TypeOK'
    BY <1>39, SettlementAssumption
     DEF ListReceive, Arrive, Goto, Request, Kinds, SettlementAssumption,
        TypeOK, RequestInv, RequestOK, Steps, Finished, CreateSteps,
        ConfirmSteps, SnapSteps, RecordedSteps
  <2>2. RequestInv'
    BY <1>39, SettlementAssumption
     DEF ListReceive, Arrive, Goto, Request, Kinds, SettlementAssumption,
        TypeOK, RequestInv, RequestOK, Finished, CreateSteps, ConfirmSteps,
        RecordedSteps, SnapSteps
  <2> QED
    BY <2>1, <2>2
<1>40. ASSUME NEW r \in Requests, ListCheck(r) PROVE Basic'
  <2>1. TypeOK'
    BY <1>40
     DEF ListCheck, Goto, Finish, TypeOK, RequestInv, RequestOK, Steps,
        Finished, CreateSteps, ConfirmSteps, SnapSteps, RecordedSteps
  <2>2. RequestInv'
    BY <1>40
     DEF ListCheck, Goto, Finish, TypeOK, RequestInv, RequestOK, Finished,
        CreateSteps, ConfirmSteps, RecordedSteps, SnapSteps
  <2> QED
    BY <2>1, <2>2
<1>41. ASSUME NEW r \in Requests, ListInsert(r) PROVE Basic'
  <2>1. TypeOK'
    <3>1. req[r].inv \in Invoices
      BY <1>41 DEF ListInsert, TypeOK, RequestInv, RequestOK, Request
    <3>2. listing' \in [Invoices -> Rows]
      <4>1. \/ UNCHANGED listing
            \/ \E n \in Nat :
                 listing' = [listing EXCEPT ![req[r].inv].active = @ + 1,
                                            ![req[r].inv].most = n]
        <5>1. /\ listing[req[r].inv].most \in Nat
              /\ listing[req[r].inv].active + 1 \in Nat
          BY <3>1 DEF TypeOK, Rows
        <5> QED
          BY <1>41, <5>1 DEF ListInsert
      <4>2. CASE UNCHANGED listing
        BY <4>2 DEF TypeOK
      <4>3. ASSUME NEW n \in Nat,
                   listing' = [listing EXCEPT ![req[r].inv].active = @ + 1,
                                              ![req[r].inv].most = n]
            PROVE  listing' \in [Invoices -> Rows]
        BY <3>1, <4>3, RowsType, Zenon
      <4> QED
        BY <4>1, <4>2, <4>3
    <3> QED
      BY <1>41, <3>2
      DEF ListInsert, Goto, Finish, TypeOK, Steps, Finished
  <2>2. RequestInv'
    BY <1>41
     DEF ListInsert, Goto, Finish, TypeOK, RequestInv, RequestOK, Finished,
        CreateSteps, ConfirmSteps, RecordedSteps, SnapSteps
  <2> QED
    BY <2>1, <2>2
<1>42. ASSUME NEW r \in Requests, ListWrite(r) PROVE Basic'
  <2>1. TypeOK'
    <3>1. req[r].inv \in Invoices
      BY <1>42 DEF ListWrite, TypeOK, RequestInv, RequestOK, Request
    <3>2. invoices' \in [Invoices -> Invoice]
      <4>1. DEFINE row == [invoices[req[r].inv] EXCEPT !.status = "listed"]
      <4>2. row \in Invoice
        BY <3>1, EditedType DEF TypeOK, Statuses
      <4>3. \/ invoices' = invoices
            \/ invoices' = [invoices EXCEPT ![req[r].inv] = row]
        BY <1>42 DEF ListWrite
      <4> HIDE DEF row
      <4> QED
        BY <4>2, <4>3 DEF TypeOK
    <3> QED
      BY <1>42, <3>2 DEF ListWrite, Goto, Finish, TypeOK, Steps, Finished
  <2>2. RequestInv'
    BY <1>42
     DEF ListWrite, Goto, Finish, TypeOK, RequestInv, RequestOK, Finished,
        CreateSteps, ConfirmSteps, RecordedSteps, SnapSteps
  <2> QED
    BY <2>1, <2>2
<1>43. ASSUME NEW r \in Requests, StatementFails(r) PROVE Basic'
  <2>1. TypeOK'
    BY <1>43, ReleaseType
     DEF StatementFails, Fault, Goto, Finish, TypeOK, Steps, Finished
  <2>2. RequestInv'
    BY <1>43
     DEF StatementFails, Fault, Goto, Finish, TypeOK, RequestInv, RequestOK,
        Finished, CreateSteps, ConfirmSteps, RecordedSteps, SnapSteps
  <2> QED
    BY <2>1, <2>2
<1> QED
  BY <1>1, <1>2, <1>3, <1>4, <1>5, <1>6, <1>7, <1>8, <1>9, <1>10, <1>11, <1>12,
     <1>13, <1>14, <1>15, <1>16, <1>17, <1>18, <1>19, <1>20, <1>21, <1>22,
     <1>23, <1>24, <1>25, <1>26, <1>27, <1>28, <1>29, <1>30, <1>31, <1>32,
     <1>33, <1>34, <1>35, <1>36, <1>37, <1>38, <1>39, <1>40, <1>41,
     <1>42, <1>43
   DEF Next, Receive, Step

-----------------------------------------------------------------------------
(* Locks.                                                                   *)

LEMMA LockInit == Init => LockInv
  BY SettlementAssumption
  DEF Init, LockInv, ExclInv, ShareInv, ClaimInv, ExclSteps, ShareSteps,
      ClaimSteps, SettlementAssumption

\* A COMMIT or ROLLBACK gives up every lock of its transaction and no other.
LEMMA ReleaseKeepsLocks ==
    ASSUME TypeOK, LockInv, NEW r \in Requests, Release(r), req' = req,
           NEW end \in {"rejected", "done", "notify", "confirmNotify"},
           pc' = [pc EXCEPT ![r] = end],
           \A s \in Sigs : payments'[s] = payments[s] \/ claim[s] = r
    PROVE  LockInv'
<1>1. ExclInv'
  BY SettlementAssumption
  DEF TypeOK, LockInv, ExclInv, ExclSteps, Release, SettlementAssumption
<1>2. ShareInv'
  BY DEF TypeOK, LockInv, ShareInv, ShareSteps, Release
<1>3. ClaimInv'
  BY SettlementAssumption
  DEF TypeOK, LockInv, ClaimInv, ClaimSteps, Release, SettlementAssumption
<1>4. \A i \in Invoices : excl'[i] # NoRequest => share'[i] = {}
  BY DEF TypeOK, LockInv, Release
<1>5. \A s \in Sigs : claim'[s] # NoRequest => payments'[s] = NoPayment
  BY DEF TypeOK, LockInv, Release
<1> QED
  BY <1>1, <1>2, <1>3, <1>4, <1>5 DEF LockInv

LEMMA LockStep == Basic /\ LockInv /\ [Next]_vars => LockInv'
<1> SUFFICES ASSUME Basic, LockInv, [Next]_vars PROVE LockInv'
  OBVIOUS
<1> USE DEF Basic, TypeOK, RequestInv, RequestOK, rowVars, lockVars,
            outsideVars, localVars
<1>1. ASSUME NEW s \in Sigs, PayDirectly(s) PROVE LockInv'
  BY <1>1
  DEF PayDirectly, LockInv, ExclInv, ShareInv, ClaimInv, ExclSteps, ShareSteps,
     ClaimSteps
<1>2. ASSUME NEW s \in Sigs, SignForRelay(s) PROVE LockInv'
  BY <1>2
  DEF SignForRelay, LockInv, ExclInv, ShareInv, ClaimInv, ExclSteps,
     ShareSteps, ClaimSteps
<1>3. ASSUME NEW s \in Sigs, ChainSettles(s) PROVE LockInv'
  BY <1>3
  DEF ChainSettles, LockInv, ExclInv, ShareInv, ClaimInv, ExclSteps,
     ShareSteps, ClaimSteps
<1>4. ASSUME NEW r \in Requests, DirectReceive(r) PROVE LockInv'
  BY <1>4
  DEF DirectReceive, Arrive, Goto, LockInv, ExclInv, ShareInv, ClaimInv,
     ExclSteps, ShareSteps, ClaimSteps
<1>5. ASSUME NEW r \in Requests, ManualReceive(r) PROVE LockInv'
  BY <1>5
  DEF ManualReceive, Arrive, Goto, LockInv, ExclInv, ShareInv, ClaimInv,
     ExclSteps, ShareSteps, ClaimSteps
<1>6. ASSUME NEW r \in Requests, RelayReceive(r) PROVE LockInv'
  BY <1>6
  DEF RelayReceive, Arrive, Goto, LockInv, ExclInv, ShareInv, ClaimInv,
     ExclSteps, ShareSteps, ClaimSteps
<1>7. ASSUME NEW r \in Requests, PatchReceive(r) PROVE LockInv'
  BY <1>7
  DEF PatchReceive, Arrive, Goto, LockInv, ExclInv, ShareInv, ClaimInv,
     ExclSteps, ShareSteps, ClaimSteps
<1>8. ASSUME NEW r \in Requests, DeleteReceive(r) PROVE LockInv'
  BY <1>8
  DEF DeleteReceive, Arrive, Goto, LockInv, ExclInv, ShareInv, ClaimInv,
     ExclSteps, ShareSteps, ClaimSteps
<1>9. ASSUME NEW r \in Requests, DirectVerify(r) PROVE LockInv'
  BY <1>9
  DEF DirectVerify, Goto, Finish, LockInv, ExclInv, ShareInv, ClaimInv,
     ExclSteps, ShareSteps, ClaimSteps
<1>10. ASSUME NEW r \in Requests, DirectReplay(r) PROVE LockInv'
  BY <1>10
  DEF DirectReplay, Goto, Finish, LockInv, ExclInv, ShareInv, ClaimInv,
     ExclSteps, ShareSteps, ClaimSteps
<1>11. ASSUME NEW r \in Requests, CreateCheck(r) PROVE LockInv'
  BY <1>11
  DEF CreateCheck, Goto, Finish, LockInv, ExclInv, ShareInv, ClaimInv,
     ExclSteps, ShareSteps, ClaimSteps
<1>12. ASSUME NEW r \in Requests, CreateInsert(r) PROVE LockInv'
  <2>1. CASE payments[req[r].sig] # NoPayment
    <3>1. /\ Release(r) /\ UNCHANGED <<req, payments>>
          /\ pc' = [pc EXCEPT ![r] = "rejected"]
      BY <1>12, <2>1 DEF CreateInsert, EnterIndex, Duplicate, Rollback, Finish, Goto
    <3> QED
      BY <3>1, ReleaseKeepsLocks
  <2>2. CASE payments[req[r].sig] = NoPayment
    <3>1. /\ pc[r] = "createInsert" /\ req[r].sig \in Sigs
          /\ claim[req[r].sig] = NoRequest
          /\ claim' = [claim EXCEPT ![req[r].sig] = r]
          /\ pc' = [pc EXCEPT ![r] = "createKeyShare"]
          /\ UNCHANGED <<excl, share, req, payments>>
      BY <1>12, <2>2 DEF CreateInsert, EnterIndex, Unclaimed, Duplicate, Goto, CreateSteps
    <3>2. ExclInv' /\ ShareInv'
      BY <3>1 DEF LockInv, ExclInv, ShareInv, ExclSteps, ShareSteps
    <3>3. ClaimInv'
      BY <3>1, SettlementAssumption
      DEF LockInv, ClaimInv, ClaimSteps, SettlementAssumption
    <3> QED
      BY <2>2, <3>1, <3>2, <3>3 DEF LockInv
  <2> QED
    BY <2>1, <2>2
<1>13. ASSUME NEW r \in Requests, CreateKeyShare(r) PROVE LockInv'
  <2>1. CASE invoices[req[r].inv].status = "deleted"
    <3>1. /\ Release(r) /\ UNCHANGED <<req, payments>>
          /\ pc' = [pc EXCEPT ![r] = "rejected"]
      BY <1>13, <2>1 DEF CreateKeyShare, Rollback, Finish, Goto
    <3> QED
      BY <3>1, ReleaseKeepsLocks
  <2>2. CASE invoices[req[r].inv].status # "deleted"
    <3>1. /\ pc[r] = "createKeyShare" /\ req[r].inv \in Invoices
          /\ excl[req[r].inv] = NoRequest
          /\ share' = [share EXCEPT ![req[r].inv] = @ \cup {r}]
          /\ pc' = [pc EXCEPT ![r] = "createRead"]
          /\ UNCHANGED <<excl, claim, req, payments>>
      BY <1>13, <2>2 DEF CreateKeyShare, Goto, Request
    <3>2. ExclInv' /\ ClaimInv'
      BY <3>1 DEF LockInv, ExclInv, ClaimInv, ExclSteps, ClaimSteps
    <3>3. ShareInv'
      BY <3>1 DEF LockInv, ShareInv, ShareSteps
    <3> QED
      BY <3>1, <3>2, <3>3 DEF LockInv
  <2> QED
    BY <2>1, <2>2
<1>14. ASSUME NEW r \in Requests, CreateRead(r) PROVE LockInv'
  BY <1>14
  DEF CreateRead, Goto, Read, LockInv, ExclInv, ShareInv, ClaimInv, ExclSteps,
     ShareSteps, ClaimSteps
<1>15. ASSUME NEW r \in Requests, CreateCommit(r) PROVE LockInv'
  <2>1. pc[r] = "createCommit" /\ claim[req[r].sig] = r /\ req[r].sig \in Sigs
    BY <1>15
    DEF CreateCommit, LockInv, ClaimInv, ClaimSteps, CreateSteps, ConfirmSteps
  <2>2. Release(r)
    BY <1>15, Zenon DEF CreateCommit, Record
  <2>3. \A s \in Sigs : s # req[r].sig => payments'[s] = payments[s]
    BY <1>15 DEF CreateCommit, Record
  <2>4. pc' = [pc EXCEPT ![r] = "notify"] /\ req' = req
    BY <1>15 DEF CreateCommit, Goto
  <2> QED
    BY <2>1, <2>2, <2>3, <2>4, ReleaseKeepsLocks
<1>16. ASSUME NEW r \in Requests, Notify(r) PROVE LockInv'
  BY <1>16
  DEF Notify, Goto, LockInv, ExclInv, ShareInv, ClaimInv, ExclSteps,
     ShareSteps, ClaimSteps
<1>17. ASSUME NEW r \in Requests, Receipt(r) PROVE LockInv'
  BY <1>17
  DEF Receipt, Goto, Finish, LockInv, ExclInv, ShareInv, ClaimInv, ExclSteps,
     ShareSteps, ClaimSteps
<1>18. ASSUME NEW r \in Requests, Flag(r) PROVE LockInv'
  <2>1. pc[r] = "flag" /\ payments[req[r].sig] # NoPayment
    BY <1>18 DEF Flag, RecordedSteps
  <2>2. \A s \in Sigs : s # req[r].sig => payments'[s] = payments[s]
    BY <1>18 DEF Flag
  <2>3. pc' = [pc EXCEPT ![r] = "done"] /\ UNCHANGED <<req, lockVars>>
    BY <1>18 DEF Flag, Goto, Finish
  <2> QED
    BY <2>1, <2>2, <2>3 DEF LockInv, ExclInv, ShareInv, ClaimInv,
       ExclSteps, ShareSteps, ClaimSteps
<1>19. ASSUME NEW r \in Requests, RelaySend(r) PROVE LockInv'
  BY <1>19
  DEF RelaySend, Goto, Finish, LockInv, ExclInv, ShareInv, ClaimInv, ExclSteps,
     ShareSteps, ClaimSteps
<1>20. ASSUME NEW r \in Requests, ConfirmReplay(r) PROVE LockInv'
  BY <1>20
  DEF ConfirmReplay, Goto, Finish, LockInv, ExclInv, ShareInv, ClaimInv,
     ExclSteps, ShareSteps, ClaimSteps
<1>21. ASSUME NEW r \in Requests, ConfirmWait(r) PROVE LockInv'
  BY <1>21
  DEF ConfirmWait, Goto, Finish, LockInv, ExclInv, ShareInv, ClaimInv,
     ExclSteps, ShareSteps, ClaimSteps
<1>22. ASSUME NEW r \in Requests, ConfirmRead(r) PROVE LockInv'
  BY <1>22
  DEF ConfirmRead, Goto, Finish, Read, LockInv, ExclInv, ShareInv, ClaimInv,
     ExclSteps, ShareSteps, ClaimSteps
<1>23. ASSUME NEW r \in Requests, ConfirmVerify(r) PROVE LockInv'
  BY <1>23
  DEF ConfirmVerify, Goto, Finish, LockInv, ExclInv, ShareInv, ClaimInv,
     ExclSteps, ShareSteps, ClaimSteps
<1>24. ASSUME NEW r \in Requests, ConfirmCheck(r) PROVE LockInv'
  BY <1>24
  DEF ConfirmCheck, Goto, LockInv, ExclInv, ShareInv, ClaimInv, ExclSteps,
     ShareSteps, ClaimSteps
<1>25. ASSUME NEW r \in Requests, ConfirmLock(r) PROVE LockInv'
  <2>1. /\ pc[r] = "confirmLock" /\ req[r].inv \in Invoices
        /\ excl[req[r].inv] = NoRequest /\ share[req[r].inv] = {}
        /\ UNCHANGED <<share, claim, req, payments>>
    BY <1>25 DEF ConfirmLock, ForUpdate, Finish, Goto, Read, Request
  <2>2. CASE lockVars' = lockVars
    <3>1. \/ pc' = [pc EXCEPT ![r] = "rejected"]
          \/ pc' = [pc EXCEPT ![r] = "confirmReceipt"]
      BY <1>25, <2>1, <2>2, SettlementAssumption
      DEF ConfirmLock, ForUpdate, Finish, Goto, SettlementAssumption
    <3> QED
      BY <2>1, <2>2, <3>1 DEF LockInv, ExclInv, ShareInv, ClaimInv,
         ExclSteps, ShareSteps, ClaimSteps
  <2>3. CASE /\ excl' = [excl EXCEPT ![req[r].inv] = r]
             /\ pc' = [pc EXCEPT ![r] = "confirmInsert"]
    <3>1. ExclInv'
      BY <2>1, <2>3, SettlementAssumption
      DEF LockInv, ExclInv, ExclSteps, SettlementAssumption
    <3>2. ShareInv' /\ ClaimInv'
      BY <2>1, <2>3 DEF LockInv, ShareInv, ClaimInv, ShareSteps, ClaimSteps
    <3> QED
      BY <2>1, <2>3, <3>1, <3>2 DEF LockInv
  <2> QED
    BY <1>25, <2>2, <2>3 DEF ConfirmLock, ForUpdate, Goto
<1>26. ASSUME NEW r \in Requests, ConfirmInsert(r) PROVE LockInv'
  <2>1. CASE payments[req[r].sig] # NoPayment
    <3>1. /\ Release(r) /\ UNCHANGED <<req, payments>>
          /\ pc' = [pc EXCEPT ![r] = "rejected"]
      BY <1>26, <2>1 DEF ConfirmInsert, EnterIndex, Duplicate, Rollback, Finish, Goto
    <3> QED
      BY <3>1, ReleaseKeepsLocks
  <2>2. CASE payments[req[r].sig] = NoPayment
    <3>1. /\ pc[r] = "confirmInsert" /\ req[r].sig \in Sigs
          /\ claim[req[r].sig] = NoRequest
          /\ claim' = [claim EXCEPT ![req[r].sig] = r]
          /\ pc' = [pc EXCEPT ![r] = "confirmCommit"]
          /\ UNCHANGED <<excl, share, req, payments>>
      BY <1>26, <2>2
      DEF ConfirmInsert, EnterIndex, Unclaimed, Duplicate, Goto, ConfirmSteps
    <3>2. ExclInv' /\ ShareInv'
      BY <3>1 DEF LockInv, ExclInv, ShareInv, ExclSteps, ShareSteps
    <3>3. ClaimInv'
      BY <3>1, SettlementAssumption
      DEF LockInv, ClaimInv, ClaimSteps, SettlementAssumption
    <3> QED
      BY <2>2, <3>1, <3>2, <3>3 DEF LockInv
  <2> QED
    BY <2>1, <2>2
<1>27. ASSUME NEW r \in Requests, ConfirmCommit(r) PROVE LockInv'
  <2>1. pc[r] = "confirmCommit" /\ claim[req[r].sig] = r /\ req[r].sig \in Sigs
    BY <1>27
    DEF ConfirmCommit, LockInv, ClaimInv, ClaimSteps, CreateSteps, ConfirmSteps
  <2>2. Release(r)
    BY <1>27, Zenon DEF ConfirmCommit, Record
  <2>3. \A s \in Sigs : s # req[r].sig => payments'[s] = payments[s]
    BY <1>27 DEF ConfirmCommit, Record
  <2>4. pc' = [pc EXCEPT ![r] = "confirmNotify"] /\ req' = req
    BY <1>27 DEF ConfirmCommit, Goto
  <2> QED
    BY <2>1, <2>2, <2>3, <2>4, ReleaseKeepsLocks
<1>28. ASSUME NEW r \in Requests, ConfirmNotify(r) PROVE LockInv'
  BY <1>28
  DEF ConfirmNotify, Goto, LockInv, ExclInv, ShareInv, ClaimInv, ExclSteps,
     ShareSteps, ClaimSteps
<1>29. ASSUME NEW r \in Requests, ConfirmReceipt(r) PROVE LockInv'
  BY <1>29
  DEF ConfirmReceipt, Goto, Finish, Mintable, ConfirmPayload, LockInv, ExclInv,
     ShareInv, ClaimInv, ExclSteps, ShareSteps, ClaimSteps
<1>30. ASSUME NEW r \in Requests, PatchWrite(r) PROVE LockInv'
  BY <1>30
  DEF PatchWrite, Goto, Finish, LockInv, ExclInv, ShareInv, ClaimInv,
     ExclSteps, ShareSteps, ClaimSteps
<1>31. ASSUME NEW r \in Requests, CancelWrite(r) PROVE LockInv'
  BY <1>31
  DEF CancelWrite, Goto, Finish, LockInv, ExclInv, ShareInv, ClaimInv,
     ExclSteps, ShareSteps, ClaimSteps
<1>32. ASSUME NEW r \in Requests, DeleteCheck(r) PROVE LockInv'
  BY <1>32
  DEF DeleteCheck, Goto, Finish, LockInv, ExclInv, ShareInv, ClaimInv,
     ExclSteps, ShareSteps, ClaimSteps
<1>33. ASSUME NEW r \in Requests, DeleteRow(r) PROVE LockInv'
  BY <1>33
  DEF DeleteRow, Goto, Finish, LockInv, ExclInv, ShareInv, ClaimInv, ExclSteps,
     ShareSteps, ClaimSteps
<1>34. ASSUME NEW r \in Requests, DeadlockVictim(r) PROVE LockInv'
  <2>1. /\ Release(r) /\ UNCHANGED <<req, payments>>
        /\ pc' = [pc EXCEPT ![r] = "rejected"]
    BY <1>34, VictimWaits DEF Rollback, Finish, Goto
  <2> QED
    BY <2>1, ReleaseKeepsLocks
<1>35. CASE Crash
  <2>1. \A r \in Requests : pc'[r] \in Finished \cup {"idle"}
    BY <1>35 DEF Crash, Fault, Finished
  <2>2. /\ excl' = [i \in Invoices |-> NoRequest]
        /\ share' = [i \in Invoices |-> {}]
        /\ claim' = [s \in Sigs |-> NoRequest]
    BY <1>35 DEF Crash
  <2>3. ExclInv' /\ ShareInv' /\ ClaimInv'
    <3>1. \A r \in Requests :
            pc'[r] \notin ExclSteps \cup ShareSteps \cup ClaimSteps
      BY <2>1 DEF ExclSteps, ShareSteps, ClaimSteps, Finished
    <3>2. ExclInv'
      BY <2>2, <3>1, SettlementAssumption
      DEF ExclInv, SettlementAssumption
    <3>3. ShareInv'
      BY <2>2, <3>1 DEF ShareInv
    <3>4. ClaimInv'
      BY <2>2, <3>1, SettlementAssumption
      DEF ClaimInv, SettlementAssumption
    <3> QED
      BY <3>2, <3>3, <3>4
  <2> QED
    BY <2>2, <2>3 DEF LockInv
<1>36. CASE UNCHANGED vars
  BY <1>36
  DEF vars, LockInv, ExclInv, ShareInv, ClaimInv, ExclSteps, ShareSteps,
     ClaimSteps
<1>37. ASSUME NEW i \in Invoices, SellListing(i) PROVE LockInv'
  BY <1>37
  DEF SellListing, LockInv, ExclInv, ShareInv, ClaimInv, ExclSteps, ShareSteps,
     ClaimSteps
<1>38. ASSUME NEW i \in Invoices, RouteToBuyer(i) PROVE LockInv'
  BY <1>38
  DEF RouteToBuyer, LockInv, ExclInv, ShareInv, ClaimInv, ExclSteps, ShareSteps,
     ClaimSteps
<1>39. ASSUME NEW r \in Requests, ListReceive(r) PROVE LockInv'
  BY <1>39
  DEF ListReceive, Arrive, Goto, LockInv, ExclInv, ShareInv, ClaimInv,
      ExclSteps, ShareSteps, ClaimSteps
<1>40. ASSUME NEW r \in Requests, ListCheck(r) PROVE LockInv'
  BY <1>40
  DEF ListCheck, Goto, Finish, LockInv, ExclInv, ShareInv, ClaimInv, ExclSteps,
      ShareSteps, ClaimSteps
<1>41. ASSUME NEW r \in Requests, ListInsert(r) PROVE LockInv'
  BY <1>41
  DEF ListInsert, Goto, Finish, LockInv, ExclInv, ShareInv, ClaimInv,
      ExclSteps, ShareSteps, ClaimSteps
<1>42. ASSUME NEW r \in Requests, ListWrite(r) PROVE LockInv'
  BY <1>42
  DEF ListWrite, Goto, Finish, LockInv, ExclInv, ShareInv, ClaimInv, ExclSteps,
      ShareSteps, ClaimSteps
<1>43. ASSUME NEW r \in Requests, StatementFails(r) PROVE LockInv'
  <2>1. Release(r) /\ UNCHANGED <<req, payments>>
    BY <1>43 DEF StatementFails, Finish
  <2>2. PICK end \in {"rejected", "done"} : pc' = [pc EXCEPT ![r] = end]
    BY <1>43 DEF StatementFails, Finish, Goto
  <2> QED
    BY <2>1, <2>2, ReleaseKeepsLocks
<1> QED
  BY <1>1, <1>2, <1>3, <1>4, <1>5, <1>6, <1>7, <1>8, <1>9, <1>10, <1>11, <1>12,
     <1>13, <1>14, <1>15, <1>16, <1>17, <1>18, <1>19, <1>20, <1>21, <1>22,
     <1>23, <1>24, <1>25, <1>26, <1>27, <1>28, <1>29, <1>30, <1>31, <1>32,
     <1>33, <1>34, <1>35, <1>36, <1>37, <1>38, <1>39, <1>40, <1>41,
     <1>42, <1>43
  DEF Next, Receive, Step

-----------------------------------------------------------------------------
(* Verification.                                                            *)

LEMMA VerifiedInit == Init => VerifiedInv /\ PaymentBacked
<1> SUFFICES ASSUME Init PROVE VerifiedInv /\ PaymentBacked
  OBVIOUS
<1>1. \A i \in Invoices : invoices[i].payee \in invoices[i].owners
  BY DEF Init, Created
<1>2. /\ \A r \in Requests : pc[r] = "idle"
      /\ \A s \in Sigs : payments[s] = NoPayment
  BY DEF Init
<1> QED
  BY <1>1, <1>2
  DEF VerifiedInv, PaymentBacked, SnapSteps, VerifiedSteps, CreateSteps

\* A request that reads its invoice has the payee as it is.
LEMMA ReadKeepsVerified ==
    ASSUME Basic, VerifiedInv, PaymentBacked, NEW r \in Requests,
           pc[r] # "idle",
           NEW step, pc' = [pc EXCEPT ![r] = step],
           step \in VerifiedSteps => pc[r] \in VerifiedSteps,
           snap' = [snap EXCEPT ![r] = invoices[req[r].inv]],
           UNCHANGED <<invoices, payments, chain, req>>
    PROVE  (VerifiedInv /\ PaymentBacked)'
<1>1. PaymentBacked'
  BY DEF PaymentBacked
<1>2. req[r].inv \in Invoices
  BY DEF Basic, RequestInv, RequestOK, Request
<1>3. VerifiedInv'
  BY <1>2, SMTT(30) DEF VerifiedInv, Basic, TypeOK
<1> QED
  BY <1>1, <1>3

\* A request that goes where nothing is read or recorded is of no concern.
LEMMA RestKeepsVerified ==
    ASSUME TypeOK, VerifiedInv, PaymentBacked, NEW r \in Requests,
           NEW step \in Finished \cup {"confirmReceipt"},
           pc' = [pc EXCEPT ![r] = step],
           \A q \in Requests : q # r => snap'[q] = snap[q],
           UNCHANGED <<invoices, payments, chain, req>>
    PROVE  (VerifiedInv /\ PaymentBacked)'
<1>1. PaymentBacked'
  BY DEF PaymentBacked
<1>2. VerifiedInv'
  BY DEF VerifiedInv, TypeOK, SnapSteps, VerifiedSteps, CreateSteps, Finished
<1> QED
  BY <1>1, <1>2

LEMMA VerifiedStep ==
    Basic /\ LockInv /\ VerifiedInv /\ PaymentBacked /\ [Next]_vars =>
      VerifiedInv' /\ PaymentBacked'
<1> SUFFICES ASSUME Basic, LockInv, VerifiedInv, PaymentBacked, [Next]_vars
             PROVE  (VerifiedInv /\ PaymentBacked)'
  OBVIOUS
<1> USE DEF Basic, TypeOK, RequestInv, RequestOK, rowVars, lockVars,
            outsideVars, localVars
<1>1. ASSUME NEW s \in Sigs, PayDirectly(s)
      PROVE  (VerifiedInv /\ PaymentBacked)'
  BY <1>1
  DEF PayDirectly, VerifiedInv, PaymentBacked, SnapSteps, VerifiedSteps,
     CreateSteps, ConfirmSteps
<1>2. ASSUME NEW s \in Sigs, SignForRelay(s)
      PROVE  (VerifiedInv /\ PaymentBacked)'
  BY <1>2
  DEF SignForRelay, VerifiedInv, PaymentBacked, SnapSteps, VerifiedSteps,
     CreateSteps, ConfirmSteps
<1>3. ASSUME NEW s \in Sigs, ChainSettles(s)
      PROVE  (VerifiedInv /\ PaymentBacked)'
  BY <1>3
  DEF ChainSettles, VerifiedInv, PaymentBacked, SnapSteps, VerifiedSteps,
     CreateSteps, ConfirmSteps
<1>4. ASSUME NEW r \in Requests, DirectReceive(r)
      PROVE  (VerifiedInv /\ PaymentBacked)'
  BY <1>4
  DEF DirectReceive, Arrive, Goto, VerifiedInv, PaymentBacked, SnapSteps,
     VerifiedSteps, CreateSteps, ConfirmSteps
<1>5. ASSUME NEW r \in Requests, ManualReceive(r)
      PROVE  (VerifiedInv /\ PaymentBacked)'
  BY <1>5
  DEF ManualReceive, Arrive, Goto, VerifiedInv, PaymentBacked, SnapSteps,
     VerifiedSteps, CreateSteps, ConfirmSteps
<1>6. ASSUME NEW r \in Requests, RelayReceive(r)
      PROVE  (VerifiedInv /\ PaymentBacked)'
  BY <1>6
  DEF RelayReceive, Arrive, Goto, VerifiedInv, PaymentBacked, SnapSteps,
     VerifiedSteps, CreateSteps, ConfirmSteps
<1>7. ASSUME NEW r \in Requests, PatchReceive(r)
      PROVE  (VerifiedInv /\ PaymentBacked)'
  BY <1>7
  DEF PatchReceive, Arrive, Goto, VerifiedInv, PaymentBacked, SnapSteps,
     VerifiedSteps, CreateSteps, ConfirmSteps
<1>8. ASSUME NEW r \in Requests, DeleteReceive(r)
      PROVE  (VerifiedInv /\ PaymentBacked)'
  BY <1>8
  DEF DeleteReceive, Arrive, Goto, VerifiedInv, PaymentBacked, SnapSteps,
     VerifiedSteps, CreateSteps, ConfirmSteps
<1>9. ASSUME NEW r \in Requests, DirectVerify(r)
      PROVE  (VerifiedInv /\ PaymentBacked)'
  <2>1. PaymentBacked'
    BY <1>9 DEF DirectVerify, Finish, Goto, PaymentBacked
  <2>2. /\ pc[r] = "directVerify"
        /\ UNCHANGED <<invoices, chain, req>>
        /\ \/ pc' = [pc EXCEPT ![r] = "rejected"]
           \/ /\ pc' = [pc EXCEPT ![r] = "directReplay"]
              /\ Verified(chain[req[r].sig], snap[r].payee,
                          PayeeShare(req[r].amount))
              /\ chain[req[r].sig].payer = Invoicee[req[r].inv]
    BY <1>9 DEF DirectVerify, FromInvoicee, Finish, Goto
  <2>3. \A q \in Requests : q # r => pc'[q] = pc[q] /\ snap'[q] = snap[q]
    BY <1>9 DEF DirectVerify, Finish, Goto
  <2>4. VerifiedInv'
    BY <2>2, <2>3
    DEF Verified, VerifiedInv, SnapSteps, VerifiedSteps, CreateSteps,
        ConfirmSteps
  <2> QED
    BY <2>1, <2>4
<1>10. ASSUME NEW r \in Requests, DirectReplay(r)
       PROVE  (VerifiedInv /\ PaymentBacked)'
  BY <1>10
  DEF DirectReplay, Goto, Finish, VerifiedInv, PaymentBacked, SnapSteps,
     VerifiedSteps, CreateSteps, ConfirmSteps
<1>11. ASSUME NEW r \in Requests, CreateCheck(r)
       PROVE  (VerifiedInv /\ PaymentBacked)'
  BY <1>11
  DEF CreateCheck, Goto, Finish, VerifiedInv, PaymentBacked, SnapSteps,
     VerifiedSteps, CreateSteps, ConfirmSteps
<1>12. ASSUME NEW r \in Requests, CreateInsert(r)
       PROVE  (VerifiedInv /\ PaymentBacked)'
  BY <1>12
  DEF CreateInsert, EnterIndex, Goto, Finish, Rollback, Release, Unclaimed, Duplicate,
     VerifiedInv, PaymentBacked, SnapSteps, VerifiedSteps, CreateSteps,
     ConfirmSteps
<1>13. ASSUME NEW r \in Requests, CreateKeyShare(r)
       PROVE  (VerifiedInv /\ PaymentBacked)'
  BY <1>13
  DEF CreateKeyShare, Goto, Finish, Rollback, Release, VerifiedInv,
     PaymentBacked, SnapSteps, VerifiedSteps, CreateSteps, ConfirmSteps
<1>14. ASSUME NEW r \in Requests, CreateRead(r)
       PROVE  (VerifiedInv /\ PaymentBacked)'
  <2>1. /\ pc[r] = "createRead"
        /\ pc' = [pc EXCEPT ![r] = "createCommit"]
        /\ snap' = [snap EXCEPT ![r] = invoices[req[r].inv]]
        /\ UNCHANGED <<invoices, payments, chain, req>>
    BY <1>14 DEF CreateRead, Goto, Read
  <2> QED
    BY <2>1, ReadKeepsVerified DEF SnapSteps, VerifiedSteps, CreateSteps
<1>15. ASSUME NEW r \in Requests, CreateCommit(r)
       PROVE  (VerifiedInv /\ PaymentBacked)'
  BY <1>15
  DEF CreateCommit, AmountPaid, Goto, Record, Release, VerifiedInv,
     PaymentBacked, SnapSteps, VerifiedSteps, CreateSteps, ConfirmSteps
<1>16. ASSUME NEW r \in Requests, Notify(r)
       PROVE  (VerifiedInv /\ PaymentBacked)'
  BY <1>16
  DEF Notify, Goto, VerifiedInv, PaymentBacked, SnapSteps, VerifiedSteps,
     CreateSteps, ConfirmSteps
<1>17. ASSUME NEW r \in Requests, Receipt(r)
       PROVE  (VerifiedInv /\ PaymentBacked)'
  BY <1>17
  DEF Receipt, Goto, Finish, VerifiedInv, PaymentBacked, SnapSteps,
     VerifiedSteps, CreateSteps, ConfirmSteps
<1>18. ASSUME NEW r \in Requests, Flag(r) PROVE (VerifiedInv /\ PaymentBacked)'
  <2>1. VerifiedInv'
    BY <1>18
    DEF Flag, Finish, Goto, VerifiedInv, SnapSteps, VerifiedSteps, CreateSteps,
        ConfirmSteps
  <2>2. \A s \in Sigs : payments'[s] # NoPayment =>
          /\ payments[s] # NoPayment
          /\ payments'[s].method = payments[s].method
          /\ payments'[s].invoice = payments[s].invoice
          /\ payments'[s].amount = payments[s].amount
    <3>1. payments[req[r].sig] \in Payment
      BY <1>18 DEF Flag, RecordedSteps
    <3>2. DEFINE row == [payments[req[r].sig] EXCEPT !.receipt = TRUE]
    <3>3. payments' = [payments EXCEPT ![req[r].sig] = row]
      BY <1>18 DEF Flag
    <3>4. /\ row.method = payments[req[r].sig].method
          /\ row.invoice = payments[req[r].sig].invoice
          /\ row.amount = payments[req[r].sig].amount
      BY <3>1 DEF Payment
    <3>5. payments[req[r].sig] # NoPayment
      BY <1>18 DEF Flag, RecordedSteps
    <3> HIDE DEF row
    <3> QED
      BY <3>3, <3>4, <3>5
  <2>3. UNCHANGED <<chain, invoices>>
    BY <1>18 DEF Flag
  <2>4. PaymentBacked'
    BY <2>2, <2>3 DEF PaymentBacked
  <2> QED
    BY <2>1, <2>4
<1>19. ASSUME NEW r \in Requests, RelaySend(r)
       PROVE  (VerifiedInv /\ PaymentBacked)'
  BY <1>19, SMTT(30)
  DEF RelaySend, Goto, Finish, VerifiedInv, PaymentBacked, SnapSteps,
     VerifiedSteps, CreateSteps, ConfirmSteps
<1>20. ASSUME NEW r \in Requests, ConfirmReplay(r)
       PROVE  (VerifiedInv /\ PaymentBacked)'
  BY <1>20
  DEF ConfirmReplay, Goto, Finish, VerifiedInv, PaymentBacked, SnapSteps,
     VerifiedSteps, CreateSteps, ConfirmSteps
<1>21. ASSUME NEW r \in Requests, ConfirmWait(r)
       PROVE  (VerifiedInv /\ PaymentBacked)'
  BY <1>21
  DEF ConfirmWait, Goto, Finish, VerifiedInv, PaymentBacked, SnapSteps,
     VerifiedSteps, CreateSteps, ConfirmSteps
<1>22. ASSUME NEW r \in Requests, ConfirmRead(r)
       PROVE  (VerifiedInv /\ PaymentBacked)'
  <2>1. UNCHANGED <<invoices, payments, chain, req>>
    BY <1>22 DEF ConfirmRead, Finish, Read
  <2>2. CASE pc' = [pc EXCEPT ![r] = "confirmVerify"]
    BY <1>22, <2>1, <2>2, ReadKeepsVerified
    DEF ConfirmRead, Goto, Finish, Read, VerifiedSteps, CreateSteps
  <2>3. CASE Finish(r, "rejected")
    BY <2>1, <2>3, RestKeepsVerified DEF Finish, Goto, Finished
  <2> QED
    BY <1>22, <2>2, <2>3 DEF ConfirmRead, Goto
<1>23. ASSUME NEW r \in Requests, ConfirmVerify(r)
       PROVE  (VerifiedInv /\ PaymentBacked)'
  <2>1. PaymentBacked'
    BY <1>23 DEF ConfirmVerify, Finish, Goto, PaymentBacked
  <2>2. /\ pc[r] = "confirmVerify"
        /\ UNCHANGED <<invoices, chain, req>>
        /\ \/ pc' = [pc EXCEPT ![r] = "rejected"]
           \/ /\ pc' = [pc EXCEPT ![r] = "confirmCheck"]
              /\ Verified(chain[req[r].sig], snap[r].payee,
                          snap[r].remaining)
              /\ chain[req[r].sig].payer = Invoicee[req[r].inv]
    BY <1>23 DEF ConfirmVerify, FromInvoicee, Finish, Goto
  <2>3. \A q \in Requests : q # r => pc'[q] = pc[q] /\ snap'[q] = snap[q]
    BY <1>23 DEF ConfirmVerify, Finish, Goto
  <2>4. VerifiedInv'
    BY <2>2, <2>3
    DEF Verified, VerifiedInv, SnapSteps, VerifiedSteps, CreateSteps,
        ConfirmSteps
  <2> QED
    BY <2>1, <2>4
<1>24. ASSUME NEW r \in Requests, ConfirmCheck(r)
       PROVE  (VerifiedInv /\ PaymentBacked)'
  BY <1>24
  DEF ConfirmCheck, Goto, VerifiedInv, PaymentBacked, SnapSteps, VerifiedSteps,
     CreateSteps, ConfirmSteps
<1>25. ASSUME NEW r \in Requests, ConfirmLock(r)
       PROVE  (VerifiedInv /\ PaymentBacked)'
  <2>1. /\ pc[r] = "confirmLock"
        /\ UNCHANGED <<invoices, payments, chain, req>>
    BY <1>25 DEF ConfirmLock, Finish, ForUpdate, Read
  <2>2. CASE /\ pc' = [pc EXCEPT ![r] = "confirmInsert"]
             /\ snap' = [snap EXCEPT ![r] = invoices[req[r].inv]]
    BY <2>1, <2>2, ReadKeepsVerified DEF VerifiedSteps, CreateSteps
  <2>3. CASE /\ \/ pc' = [pc EXCEPT ![r] = "rejected"]
                \/ pc' = [pc EXCEPT ![r] = "confirmReceipt"]
             /\ \A q \in Requests : q # r => snap'[q] = snap[q]
    BY <2>1, <2>3, RestKeepsVerified DEF Finished
  <2> QED
    BY <1>25, <2>2, <2>3 DEF ConfirmLock, ForUpdate, Read, Finish, Goto
<1>26. ASSUME NEW r \in Requests, ConfirmInsert(r)
       PROVE  (VerifiedInv /\ PaymentBacked)'
  <2>1. /\ pc[r] = "confirmInsert"
        /\ UNCHANGED <<invoices, payments, chain, req>>
    BY <1>26 DEF ConfirmInsert, EnterIndex, Finish, Rollback
  <2>2. CASE /\ pc' = [pc EXCEPT ![r] = "confirmCommit"]
             /\ UNCHANGED snap
    BY <2>1, <2>2
    DEF VerifiedInv, PaymentBacked, SnapSteps, VerifiedSteps, CreateSteps
  <2>3. CASE /\ pc' = [pc EXCEPT ![r] = "rejected"]
             /\ \A q \in Requests : q # r => snap'[q] = snap[q]
    BY <2>1, <2>3, RestKeepsVerified DEF Finished
  <2> QED
    BY <1>26, <2>2, <2>3 DEF ConfirmInsert, EnterIndex, Rollback, Finish, Goto
<1>27. ASSUME NEW r \in Requests, ConfirmCommit(r)
       PROVE  (VerifiedInv /\ PaymentBacked)'
  <2> DEFINE i == req[r].inv
             s == req[r].sig
  <2>1. /\ pc[r] = "confirmCommit" /\ req[r].kind = "relay"
        /\ i \in Invoices /\ s \in Sigs
        /\ pc' = [pc EXCEPT ![r] = "confirmNotify"]
        /\ UNCHANGED <<chain, req, snap>>
    BY <1>27
    DEF ConfirmCommit, Goto, CreateSteps, ConfirmSteps, Request
  <2>2. /\ payments' = [payments EXCEPT ![s] =
              [invoice |-> i, amount |-> chain[s].toPayee, method |-> "chain",
               receipt |-> FALSE]]
        /\ \A j \in Invoices : /\ invoices'[j].payee = invoices[j].payee
                              /\ invoices'[j].owners = invoices[j].owners
    BY <1>27 DEF ConfirmCommit, AmountReceived, Record, Invoice
  <2> HIDE DEF i, s
  <2>3. /\ chain[s] # NoTx
        /\ chain[s].status = "confirmed" /\ chain[s].payer = Invoicee[i]
        /\ chain[s].payee \in invoices[i].owners
    BY <2>1 DEF VerifiedInv, VerifiedSteps, ConfirmSteps, i, s
  <2>4. PaymentBacked'
    <3>1. /\ payments'[s] # NoPayment => /\ payments'[s].invoice = i
                                        /\ payments'[s].amount = chain[s].toPayee
          /\ \A q \in Sigs : q # s => payments'[q] = payments[q]
      BY <2>1, <2>2
    <3>2. \A q \in Sigs : payments[q] # NoPayment => payments[q].invoice \in Invoices
      BY DEF Payment
    <3> QED
      BY <2>1, <2>2, <2>3, <3>1, <3>2 DEF PaymentBacked
  <2>5. VerifiedInv'
    <3>1. \A q \in Requests : pc[q] # "idle" => req[q].inv \in Invoices
      BY DEF Request
    <3>2. \A q \in Requests : pc'[q] \in SnapSteps \cup VerifiedSteps =>
                              pc'[q] = pc[q] /\ pc[q] # "idle"
      BY <2>1 DEF SnapSteps, VerifiedSteps, CreateSteps
    <3> QED
      BY <2>1, <2>2, <3>1, <3>2 DEF VerifiedInv
  <2> QED
    BY <2>4, <2>5
<1>28. ASSUME NEW r \in Requests, ConfirmNotify(r)
       PROVE  (VerifiedInv /\ PaymentBacked)'
  BY <1>28
  DEF ConfirmNotify, Goto, VerifiedInv, PaymentBacked, SnapSteps,
     VerifiedSteps, CreateSteps, ConfirmSteps
<1>29. ASSUME NEW r \in Requests, ConfirmReceipt(r)
       PROVE  (VerifiedInv /\ PaymentBacked)'
  BY <1>29
  DEF ConfirmReceipt, Goto, Finish, Mintable, ConfirmPayload, VerifiedInv,
     PaymentBacked, SnapSteps, VerifiedSteps, CreateSteps, ConfirmSteps
<1>30. ASSUME NEW r \in Requests, PatchWrite(r)
       PROVE  (VerifiedInv /\ PaymentBacked)'
  <2>1. \A i \in Invoices : /\ invoices'[i].payee = invoices[i].payee
                            /\ invoices'[i].owners = invoices[i].owners
    BY <1>30 DEF PatchWrite, Invoice
  <2>2. /\ UNCHANGED <<payments, chain, req>>
        /\ \/ pc' = [pc EXCEPT ![r] = "done"]
           \/ pc' = [pc EXCEPT ![r] = "rejected"]
        /\ snap' = [snap EXCEPT ![r] = NoSnap]
        /\ pc[r] # "idle"
    BY <1>30 DEF PatchWrite, FromInvoicee, Finish, Goto
  <2>3. VerifiedInv'
    BY <2>1, <2>2, SMTT(30)
    DEF Request, VerifiedInv, SnapSteps, VerifiedSteps, CreateSteps,
        ConfirmSteps
  <2>4. PaymentBacked'
    BY <2>1, <2>2 DEF PaymentBacked, Payment
  <2> QED
    BY <2>3, <2>4
<1>31. ASSUME NEW r \in Requests, CancelWrite(r)
       PROVE  (VerifiedInv /\ PaymentBacked)'
  BY <1>31
  DEF CancelWrite, Goto, Finish, VerifiedInv, PaymentBacked, SnapSteps,
     VerifiedSteps, CreateSteps, ConfirmSteps
<1>32. ASSUME NEW r \in Requests, DeleteCheck(r)
       PROVE  (VerifiedInv /\ PaymentBacked)'
  BY <1>32
  DEF DeleteCheck, Goto, Finish, VerifiedInv, PaymentBacked, SnapSteps,
     VerifiedSteps, CreateSteps, ConfirmSteps
<1>33. ASSUME NEW r \in Requests, DeleteRow(r)
       PROVE  (VerifiedInv /\ PaymentBacked)'
  <2>1. \A i \in Invoices : /\ invoices'[i].payee = invoices[i].payee
                            /\ invoices'[i].owners = invoices[i].owners
    BY <1>33 DEF DeleteRow, Invoice
  <2>2. /\ UNCHANGED <<payments, chain, req>>
        /\ \/ pc' = [pc EXCEPT ![r] = "done"]
           \/ pc' = [pc EXCEPT ![r] = "rejected"]
        /\ snap' = [snap EXCEPT ![r] = NoSnap]
        /\ pc[r] # "idle"
    BY <1>33 DEF DeleteRow, FromInvoicee, Finish, Goto
  <2>3. VerifiedInv'
    BY <2>1, <2>2, SMTT(30)
    DEF Request, VerifiedInv, SnapSteps, VerifiedSteps, CreateSteps,
        ConfirmSteps
  <2>4. PaymentBacked'
    BY <2>1, <2>2 DEF PaymentBacked, Payment
  <2> QED
    BY <2>3, <2>4
<1>34. ASSUME NEW r \in Requests, DeadlockVictim(r)
       PROVE  (VerifiedInv /\ PaymentBacked)'
  BY <1>34, VictimWaits
  DEF Goto, Finish, Rollback, Release, VerifiedInv, PaymentBacked, SnapSteps,
     VerifiedSteps, CreateSteps, ConfirmSteps
<1>35. CASE Crash
  <2>1. PaymentBacked'
    BY <1>35 DEF Crash, Fault, PaymentBacked
  <2>2. /\ \A r \in Requests : pc'[r] \in Finished \cup {"idle"}
        /\ UNCHANGED invoices
    BY <1>35 DEF Crash, Fault, Finished
  <2>3. VerifiedInv'
    BY <2>2 DEF VerifiedInv, SnapSteps, VerifiedSteps, CreateSteps, Finished
  <2> QED
    BY <2>1, <2>3
<1>36. CASE UNCHANGED vars
  BY <1>36
  DEF vars, VerifiedInv, PaymentBacked, SnapSteps, VerifiedSteps, CreateSteps,
     ConfirmSteps
<1>37. ASSUME NEW i \in Invoices, SellListing(i)
       PROVE  (VerifiedInv /\ PaymentBacked)'
  BY <1>37
  DEF SellListing, VerifiedInv, PaymentBacked, SnapSteps, VerifiedSteps,
     CreateSteps, ConfirmSteps
<1>38. ASSUME NEW i \in Invoices, RouteToBuyer(i)
       PROVE  (VerifiedInv /\ PaymentBacked)'
  <2>1. \A j \in Invoices : /\ invoices[j].owners \subseteq invoices'[j].owners
                            /\ invoices'[j].payee \in invoices'[j].owners
    BY <1>38 DEF RouteToBuyer, VerifiedInv, Invoice
  <2>2. UNCHANGED <<payments, chain, req, snap, pc>>
    BY <1>38 DEF RouteToBuyer
  <2>3. VerifiedInv'
    BY <2>1, <2>2, SMTT(30)
    DEF Request, VerifiedInv, SnapSteps, VerifiedSteps, CreateSteps,
        ConfirmSteps
  <2>4. PaymentBacked'
    BY <2>1, <2>2 DEF PaymentBacked, Payment
  <2> QED
    BY <2>3, <2>4
<1>39. ASSUME NEW r \in Requests, ListReceive(r)
       PROVE  (VerifiedInv /\ PaymentBacked)'
  BY <1>39
  DEF ListReceive, Arrive, Goto, VerifiedInv, PaymentBacked, SnapSteps,
      VerifiedSteps, CreateSteps, ConfirmSteps
<1>40. ASSUME NEW r \in Requests, ListCheck(r)
       PROVE  (VerifiedInv /\ PaymentBacked)'
  BY <1>40
  DEF ListCheck, Goto, Finish, VerifiedInv, PaymentBacked, SnapSteps,
      VerifiedSteps, CreateSteps, ConfirmSteps
<1>41. ASSUME NEW r \in Requests, ListInsert(r)
       PROVE  (VerifiedInv /\ PaymentBacked)'
  BY <1>41
  DEF ListInsert, Goto, Finish, VerifiedInv, PaymentBacked, SnapSteps,
      VerifiedSteps, CreateSteps, ConfirmSteps
<1>42. ASSUME NEW r \in Requests, ListWrite(r)
       PROVE  (VerifiedInv /\ PaymentBacked)'
  <2>1. \A i \in Invoices : /\ invoices'[i].payee = invoices[i].payee
                            /\ invoices'[i].owners = invoices[i].owners
    BY <1>42 DEF ListWrite, Invoice
  <2>2. /\ UNCHANGED <<payments, chain, req>>
        /\ pc' = [pc EXCEPT ![r] = "done"]
        /\ snap' = [snap EXCEPT ![r] = NoSnap]
        /\ pc[r] # "idle"
    BY <1>42 DEF ListWrite, Finish, Goto
  <2>3. VerifiedInv'
    BY <2>1, <2>2, SMTT(30)
    DEF Request, VerifiedInv, SnapSteps, VerifiedSteps, CreateSteps,
        ConfirmSteps
  <2>4. PaymentBacked'
    BY <2>1, <2>2 DEF PaymentBacked, Payment
  <2> QED
    BY <2>3, <2>4
<1>43. ASSUME NEW r \in Requests, StatementFails(r)
       PROVE  (VerifiedInv /\ PaymentBacked)'
  BY <1>43
  DEF StatementFails, Fault, Goto, Finish, Release, VerifiedInv, PaymentBacked,
      SnapSteps, VerifiedSteps, CreateSteps, ConfirmSteps
<1> QED
  BY <1>1, <1>2, <1>3, <1>4, <1>5, <1>6, <1>7, <1>8, <1>9, <1>10, <1>11, <1>12,
     <1>13, <1>14, <1>15, <1>16, <1>17, <1>18, <1>19, <1>20, <1>21, <1>22,
     <1>23, <1>24, <1>25, <1>26, <1>27, <1>28, <1>29, <1>30, <1>31, <1>32,
     <1>33, <1>34, <1>35, <1>36, <1>37, <1>38, <1>39, <1>40, <1>41,
     <1>42, <1>43
  DEF Next, Receive, Step

-----------------------------------------------------------------------------
(* Credits.                                                                 *)

LEMMA CreditInit == Init => CreditInv
  BY DEF Init, CreditInv, CreditedOnce

\* What a COMMIT of a payment changes in the payments table and the credits.
LEMMA CommitShape ==
    ASSUME Basic, LockInv, NEW r \in Requests,
           CreateCommit(r) \/ ConfirmCommit(r)
    PROVE  /\ payments[req[r].sig] = NoPayment
           /\ payments'[req[r].sig] # NoPayment
           /\ payments'[req[r].sig].invoice = req[r].inv
           /\ payments'[req[r].sig].receipt = FALSE
           /\ \A s \in Sigs : s # req[r].sig => payments'[s] = payments[s]
           /\ credits' = credits \cup
                {[sig |-> req[r].sig, inv |-> req[r].inv,
                  amount |-> payments'[req[r].sig].amount, by |-> r]}
<1>1. PICK amount \in Nat, method \in {"chain", "manual"},
           columns \in [paid : Nat, remaining : Nat, status : Statuses] :
        Record(r, amount, method, columns)
  BY CommitRecords
<1>2. /\ pc[r] \in {"createCommit", "confirmCommit"}
      /\ req[r] \in Request /\ req[r].sig \in Sigs
  BY CommitRecords
<1>3. claim[req[r].sig] = r
  BY <1>2 DEF LockInv, ClaimInv, ClaimSteps
<1>4. payments[req[r].sig] = NoPayment
  BY <1>2, <1>3, SettlementAssumption DEF LockInv, SettlementAssumption
<1>5. DEFINE row == [invoice |-> req[r].inv, amount |-> amount,
                     method |-> method, receipt |-> FALSE]
<1>6. row # NoPayment
  BY <1>2, PaymentType DEF Request
<1>7. payments' = [payments EXCEPT ![req[r].sig] = row]
  BY <1>1 DEF Record
<1>8. payments'[req[r].sig] = row
  BY <1>2, <1>7 DEF Basic, TypeOK
<1>9. /\ row.invoice = req[r].inv
      /\ row.amount = amount
      /\ row.receipt = FALSE
  OBVIOUS
<1>10. credits' = credits \cup {[sig |-> req[r].sig, inv |-> req[r].inv,
                                 amount |-> amount, by |-> r]}
  BY <1>1 DEF Record
<1>11. \A s \in Sigs : s # req[r].sig => payments'[s] = payments[s]
  BY <1>7 DEF Basic, TypeOK
<1> HIDE DEF row
<1> QED
  BY <1>4, <1>6, <1>8, <1>9, <1>10, <1>11

LEMMA CommitKeepsCredits ==
    ASSUME Basic, LockInv, CreditInv, AnnouncedIsRecorded, NEW r \in Requests,
           CreateCommit(r) \/ ConfirmCommit(r)
    PROVE  CreditInv'
<1> DEFINE i == req[r].inv
           s == req[r].sig
<1> DEFINE amount == payments'[s].amount
<1>1. /\ payments[s] = NoPayment
      /\ payments'[s] # NoPayment
      /\ payments'[s].invoice = i
      /\ \A q \in Sigs : q # s => payments'[q] = payments[q]
      /\ credits' = credits \cup
           {[sig |-> s, inv |-> i, amount |-> amount, by |-> r]}
  BY CommitShape
<1>2. /\ pc[r] \in {"createCommit", "confirmCommit"} /\ s \in Sigs
      /\ pc' = [pc EXCEPT ![r] = IF pc[r] = "createCommit" THEN "notify"
                                 ELSE "confirmNotify"]
      /\ UNCHANGED <<req, events, halfDone>>
  BY CommitRecords DEF localVars, outsideVars
<1>3. \A c \in credits : c.by \in Requests /\ c.sig \in Sigs
  BY DEF Basic, TypeOK, Credit
<1>4. \A c \in credits : c.sig # s /\ c.by # r
  BY <1>1, <1>2 DEF CreditInv, CreditedOnce, Unannounced, CommittedSteps
<1>5. \A q \in Sigs : q # s => payments'[q] = payments[q]
  BY <1>1
<1>6. CreditedOnce'
  <2>1. \A c, d \in credits' : c.sig = d.sig => c = d
    BY <1>1, <1>4 DEF CreditInv, CreditedOnce
  <2>2. \A c \in credits' : /\ payments'[c.sig] # NoPayment
                            /\ payments'[c.sig].invoice = c.inv
                            /\ payments'[c.sig].amount = c.amount
    BY <1>1, <1>3, <1>4, <1>5 DEF CreditInv, CreditedOnce
  <2> QED
    BY <2>1, <2>2 DEF CreditedOnce
<1>7. \A c \in credits' :
        /\ \/ pc'[c.by] \in CommittedSteps
           \/ /\ pc'[c.by] = "rejected" /\ c.by \in halfDone'
              /\ Unannounced(c.sig)'
        /\ pc'[c.by] \in {"notify", "confirmNotify"} => Unannounced(c.sig)'
  <2>1. Unannounced(s)
    BY <1>1 DEF AnnouncedIsRecorded, Unannounced
  <2>2. \A c \in credits' : (Unannounced(c.sig) <=> Unannounced(c.sig)')
    BY <1>2 DEF Unannounced
  <2>3. \A c \in credits : pc'[c.by] = pc[c.by]
    BY <1>2, <1>3, <1>4 DEF Basic, TypeOK
  <2>4. pc'[r] \in {"notify", "confirmNotify"}
    BY <1>2 DEF Basic, TypeOK
  <2> QED
    BY <1>1, <1>2, <2>1, <2>2, <2>3, <2>4 DEF CreditInv, CommittedSteps
<1>8. ASSUME NEW q \in Requests,
             pc'[q] \in {"notify", "receipt", "flag", "confirmNotify"}
      PROVE  \E c \in credits' : c.by = q /\ c.sig = req'[q].sig
  <2>1. CASE q = r
    <3> DEFINE c == [sig |-> s, inv |-> i, amount |-> amount, by |-> r]
    <3>1. c \in credits' /\ c.by = q /\ c.sig = req'[q].sig
      BY <1>1, <1>2, <2>1
    <3> HIDE DEF c
    <3> QED
      BY <3>1
  <2>2. CASE q # r
    BY <1>1, <1>2, <1>8, <2>2 DEF Basic, TypeOK, CreditInv
  <2> QED
    BY <2>1, <2>2
<1> QED
  BY <1>6, <1>7, <1>8 DEF CreditInv

\* The flag is all that is set on a payment.
LEMMA FlagKeepsPayment ==
    ASSUME Basic, NEW r \in Requests, Flag(r)
    PROVE  \A s \in Sigs :
             /\ payments'[s] # NoPayment <=> payments[s] # NoPayment
             /\ payments'[s].invoice = payments[s].invoice
             /\ payments'[s].amount = payments[s].amount
             /\ payments'[s].method = payments[s].method
             /\ payments'[s].receipt =
                  IF s = req[r].sig THEN TRUE ELSE payments[s].receipt
<1>1. /\ pc[r] = "flag" /\ req[r].sig \in Sigs
      /\ payments[req[r].sig] \in Payment /\ payments[req[r].sig] # NoPayment
  BY DEF Flag, Basic, TypeOK, RequestInv, RequestOK, RecordedSteps
<1>2. DEFINE row == [payments[req[r].sig] EXCEPT !.receipt = TRUE]
<1>3. payments' = [payments EXCEPT ![req[r].sig] = row]
  BY DEF Flag
<1>4. /\ row # NoPayment
      /\ row.invoice = payments[req[r].sig].invoice
      /\ row.amount = payments[req[r].sig].amount
      /\ row.method = payments[req[r].sig].method
      /\ row.receipt = TRUE
  BY <1>1, FlaggedType DEF Payment
<1> HIDE DEF row
<1> QED
  BY <1>1, <1>3, <1>4 DEF Basic, TypeOK

LEMMA CreditStep ==
    /\ Basic /\ LockInv /\ CreditInv /\ AnnouncedIsRecorded /\ [Next]_vars
    => CreditInv'
<1> SUFFICES ASSUME Basic, LockInv, CreditInv, AnnouncedIsRecorded, [Next]_vars
             PROVE  CreditInv'
  OBVIOUS
<1>0. \A c \in credits : c.by \in Requests /\ c.sig \in Sigs
  BY DEF Basic, TypeOK, Credit
<1> USE <1>0 DEF Basic, TypeOK, RequestInv, RequestOK, rowVars, lockVars,
            outsideVars, localVars
<1>1. ASSUME NEW s \in Sigs, PayDirectly(s) PROVE CreditInv'
  BY <1>1, SMTT(30)
  DEF PayDirectly, CreditInv, CreditedOnce, Unannounced, CommittedSteps
<1>2. ASSUME NEW s \in Sigs, SignForRelay(s) PROVE CreditInv'
  BY <1>2, SMTT(30)
  DEF SignForRelay, CreditInv, CreditedOnce, Unannounced, CommittedSteps
<1>3. ASSUME NEW s \in Sigs, ChainSettles(s) PROVE CreditInv'
  BY <1>3, SMTT(30)
  DEF ChainSettles, CreditInv, CreditedOnce, Unannounced, CommittedSteps
<1>4. ASSUME NEW r \in Requests, DirectReceive(r) PROVE CreditInv'
  BY <1>4, SMTT(30)
  DEF DirectReceive, Arrive, Goto, CreditInv, CreditedOnce, Unannounced, CommittedSteps
<1>5. ASSUME NEW r \in Requests, ManualReceive(r) PROVE CreditInv'
  BY <1>5, SMTT(30)
  DEF ManualReceive, Arrive, Goto, CreditInv, CreditedOnce, Unannounced, CommittedSteps
<1>6. ASSUME NEW r \in Requests, RelayReceive(r) PROVE CreditInv'
  BY <1>6, SMTT(30)
  DEF RelayReceive, Arrive, Goto, CreditInv, CreditedOnce, Unannounced, CommittedSteps
<1>7. ASSUME NEW r \in Requests, PatchReceive(r) PROVE CreditInv'
  BY <1>7, SMTT(30)
  DEF PatchReceive, Arrive, Goto, CreditInv, CreditedOnce, Unannounced, CommittedSteps
<1>8. ASSUME NEW r \in Requests, DeleteReceive(r) PROVE CreditInv'
  BY <1>8, SMTT(30)
  DEF DeleteReceive, Arrive, Goto, CreditInv, CreditedOnce, Unannounced, CommittedSteps
<1>9. ASSUME NEW r \in Requests, DirectVerify(r) PROVE CreditInv'
  BY <1>9, SMTT(30)
  DEF DirectVerify, Goto, Finish, CreditInv, CreditedOnce, Unannounced, CommittedSteps
<1>10. ASSUME NEW r \in Requests, DirectReplay(r) PROVE CreditInv'
  BY <1>10, SMTT(30)
  DEF DirectReplay, Goto, Finish, CreditInv, CreditedOnce, Unannounced, CommittedSteps
<1>11. ASSUME NEW r \in Requests, CreateCheck(r) PROVE CreditInv'
  BY <1>11, SMTT(30)
  DEF CreateCheck, Goto, Finish, CreditInv, CreditedOnce, Unannounced, CommittedSteps
<1>12. ASSUME NEW r \in Requests, CreateInsert(r) PROVE CreditInv'
  BY <1>12, SMTT(30)
  DEF CreateInsert, EnterIndex, Goto, Finish, Rollback, Release, Unclaimed, Duplicate,
     CreditInv, CreditedOnce, Unannounced, CommittedSteps
<1>13. ASSUME NEW r \in Requests, CreateKeyShare(r) PROVE CreditInv'
  BY <1>13, SMTT(30)
  DEF CreateKeyShare, Goto, Finish, Rollback, Release, CreditInv, CreditedOnce,
     Unannounced, CommittedSteps
<1>14. ASSUME NEW r \in Requests, CreateRead(r) PROVE CreditInv'
  BY <1>14, SMTT(30)
  DEF CreateRead, Goto, Read, CreditInv, CreditedOnce, Unannounced, CommittedSteps
<1>15. ASSUME NEW r \in Requests, CreateCommit(r) PROVE CreditInv'
  BY <1>15, CommitKeepsCredits
<1>16. ASSUME NEW r \in Requests, Notify(r) PROVE CreditInv'
  <2>1. /\ UNCHANGED <<credits, req, payments, halfDone>>
        /\ pc[r] = "notify" /\ pc' = [pc EXCEPT ![r] = "receipt"]
        /\ \A e \in events' : e \in events \/ e.sig = req[r].sig
    BY <1>16 DEF Notify, Goto
  <2>2. \A c \in credits : c.sig = req[r].sig => c.by = r
    BY <2>1 DEF CreditInv, CreditedOnce
  <2>3. \A c \in credits : c.by # r /\ Unannounced(c.sig) =>
                             Unannounced(c.sig)'
    BY <2>1, <2>2 DEF Unannounced
  <2>4. CreditedOnce'
    BY <2>1 DEF CreditInv, CreditedOnce
  <2>5. \A c \in credits' :
          /\ \/ pc'[c.by] \in CommittedSteps
             \/ /\ pc'[c.by] = "rejected" /\ c.by \in halfDone'
                /\ Unannounced(c.sig)'
          /\ pc'[c.by] \in {"notify", "confirmNotify"} => Unannounced(c.sig)'
    BY <2>1, <2>3 DEF CreditInv, CommittedSteps
  <2>6. \A q \in Requests :
          pc'[q] \in {"notify", "receipt", "flag", "confirmNotify"} =>
            \E c \in credits' : c.by = q /\ c.sig = req'[q].sig
    BY <2>1 DEF CreditInv
  <2> QED
    BY <2>4, <2>5, <2>6 DEF CreditInv
<1>17. ASSUME NEW r \in Requests, Receipt(r) PROVE CreditInv'
  BY <1>17, SMTT(30)
  DEF Receipt, Goto, Finish, CreditInv, CreditedOnce, Unannounced, CommittedSteps
<1>18. ASSUME NEW r \in Requests, Flag(r) PROVE CreditInv'
  <2>1. /\ UNCHANGED <<credits, req, events, halfDone>>
        /\ pc[r] = "flag" /\ pc' = [pc EXCEPT ![r] = "done"]
    BY <1>18 DEF Flag, Finish, Goto
  <2>2. \A s \in Sigs : payments[s] # NoPayment =>
          /\ payments'[s] # NoPayment
          /\ payments'[s].invoice = payments[s].invoice
          /\ payments'[s].amount = payments[s].amount
    BY <1>18, FlagKeepsPayment
  <2>3. CreditedOnce'
    BY <2>1, <2>2 DEF CreditInv, CreditedOnce
  <2>4. \A c \in credits' :
          /\ \/ pc'[c.by] \in CommittedSteps
             \/ /\ pc'[c.by] = "rejected" /\ c.by \in halfDone'
                /\ Unannounced(c.sig)'
          /\ pc'[c.by] \in {"notify", "confirmNotify"} => Unannounced(c.sig)'
    BY <2>1 DEF CreditInv, CommittedSteps, Unannounced
  <2>5. \A q \in Requests :
          pc'[q] \in {"notify", "receipt", "flag", "confirmNotify"} =>
            \E c \in credits' : c.by = q /\ c.sig = req'[q].sig
    BY <2>1 DEF CreditInv
  <2> QED
    BY <2>3, <2>4, <2>5 DEF CreditInv
<1>19. ASSUME NEW r \in Requests, RelaySend(r) PROVE CreditInv'
  BY <1>19, SMTT(30)
  DEF RelaySend, Goto, Finish, CreditInv, CreditedOnce, Unannounced, CommittedSteps
<1>20. ASSUME NEW r \in Requests, ConfirmReplay(r) PROVE CreditInv'
  BY <1>20, SMTT(30)
  DEF ConfirmReplay, Goto, Finish, CreditInv, CreditedOnce, Unannounced, CommittedSteps
<1>21. ASSUME NEW r \in Requests, ConfirmWait(r) PROVE CreditInv'
  BY <1>21, SMTT(30)
  DEF ConfirmWait, Goto, Finish, CreditInv, CreditedOnce, Unannounced, CommittedSteps
<1>22. ASSUME NEW r \in Requests, ConfirmRead(r) PROVE CreditInv'
  BY <1>22, SMTT(30)
  DEF ConfirmRead, Goto, Finish, Read, CreditInv, CreditedOnce, Unannounced, CommittedSteps
<1>23. ASSUME NEW r \in Requests, ConfirmVerify(r) PROVE CreditInv'
  BY <1>23, SMTT(30)
  DEF ConfirmVerify, Goto, Finish, CreditInv, CreditedOnce, Unannounced, CommittedSteps
<1>24. ASSUME NEW r \in Requests, ConfirmCheck(r) PROVE CreditInv'
  BY <1>24, SMTT(30)
  DEF ConfirmCheck, Goto, CreditInv, CreditedOnce, Unannounced, CommittedSteps
<1>25. ASSUME NEW r \in Requests, ConfirmLock(r) PROVE CreditInv'
  BY <1>25, SMTT(30)
  DEF ConfirmLock, ForUpdate, Goto, Finish, Read, CreditInv, CreditedOnce,
     Unannounced, CommittedSteps
<1>26. ASSUME NEW r \in Requests, ConfirmInsert(r) PROVE CreditInv'
  BY <1>26, SMTT(30)
  DEF ConfirmInsert, EnterIndex, Goto, Finish, Rollback, Release, Unclaimed, Duplicate,
     CreditInv, CreditedOnce, Unannounced, CommittedSteps
<1>27. ASSUME NEW r \in Requests, ConfirmCommit(r) PROVE CreditInv'
  BY <1>27, CommitKeepsCredits
<1>28. ASSUME NEW r \in Requests, ConfirmNotify(r) PROVE CreditInv'
  <2>1. /\ UNCHANGED <<credits, req, payments, halfDone>>
        /\ pc[r] = "confirmNotify" /\ pc' = [pc EXCEPT ![r] = "confirmReceipt"]
        /\ \A e \in events' : e \in events \/ e.sig = req[r].sig
    BY <1>28 DEF ConfirmNotify, Goto
  <2>2. \A c \in credits : c.sig = req[r].sig => c.by = r
    BY <2>1 DEF CreditInv, CreditedOnce
  <2>3. \A c \in credits : c.by # r /\ Unannounced(c.sig) =>
                             Unannounced(c.sig)'
    BY <2>1, <2>2 DEF Unannounced
  <2>4. CreditedOnce'
    BY <2>1 DEF CreditInv, CreditedOnce
  <2>5. \A c \in credits' :
          /\ \/ pc'[c.by] \in CommittedSteps
             \/ /\ pc'[c.by] = "rejected" /\ c.by \in halfDone'
                /\ Unannounced(c.sig)'
          /\ pc'[c.by] \in {"notify", "confirmNotify"} => Unannounced(c.sig)'
    BY <2>1, <2>3 DEF CreditInv, CommittedSteps
  <2>6. \A q \in Requests :
          pc'[q] \in {"notify", "receipt", "flag", "confirmNotify"} =>
            \E c \in credits' : c.by = q /\ c.sig = req'[q].sig
    BY <2>1 DEF CreditInv
  <2> QED
    BY <2>4, <2>5, <2>6 DEF CreditInv
<1>29. ASSUME NEW r \in Requests, ConfirmReceipt(r) PROVE CreditInv'
  BY <1>29, SMTT(30)
  DEF ConfirmReceipt, Goto, Finish, Mintable, ConfirmPayload, CreditInv,
     CreditedOnce, Unannounced, CommittedSteps
<1>30. ASSUME NEW r \in Requests, PatchWrite(r) PROVE CreditInv'
  BY <1>30, SMTT(30)
  DEF PatchWrite, Goto, Finish, CreditInv, CreditedOnce, Unannounced, CommittedSteps
<1>31. ASSUME NEW r \in Requests, CancelWrite(r) PROVE CreditInv'
  BY <1>31, SMTT(30)
  DEF CancelWrite, Goto, Finish, CreditInv, CreditedOnce, Unannounced, CommittedSteps
<1>32. ASSUME NEW r \in Requests, DeleteCheck(r) PROVE CreditInv'
  BY <1>32, SMTT(30)
  DEF DeleteCheck, Goto, Finish, CreditInv, CreditedOnce, Unannounced, CommittedSteps
<1>33. ASSUME NEW r \in Requests, DeleteRow(r) PROVE CreditInv'
  BY <1>33, SMTT(30)
  DEF DeleteRow, Goto, Finish, CreditInv, CreditedOnce, Unannounced, CommittedSteps
<1>34. ASSUME NEW r \in Requests, DeadlockVictim(r) PROVE CreditInv'
  <2>1. /\ pc[r] \in {"createInsert", "confirmInsert", "createKeyShare"}
        /\ pc' = [pc EXCEPT ![r] = "rejected"]
        /\ UNCHANGED <<req, credits, payments, events, halfDone>>
    BY <1>34, VictimWaits DEF Rollback, Finish, Goto
  <2> QED
    BY <2>1, SMTT(30)
    DEF CreditInv, CreditedOnce, Unannounced, CommittedSteps
<1>35. CASE Crash
  BY <1>35, SMTT(30)
  DEF Crash, Fault, CreditInv, CreditedOnce, Unannounced, CommittedSteps, Finished
<1>36. CASE UNCHANGED vars
  BY <1>36, SMTT(30)
  DEF vars, CreditInv, CreditedOnce, Unannounced, CommittedSteps
<1>37. ASSUME NEW i \in Invoices, SellListing(i) PROVE CreditInv'
  BY <1>37, SMTT(30)
  DEF SellListing, CreditInv, CreditedOnce, Unannounced, CommittedSteps
<1>38. ASSUME NEW i \in Invoices, RouteToBuyer(i) PROVE CreditInv'
  BY <1>38, SMTT(30)
  DEF RouteToBuyer, CreditInv, CreditedOnce, Unannounced, CommittedSteps
<1>39. ASSUME NEW r \in Requests, ListReceive(r) PROVE CreditInv'
  BY <1>39, SMTT(30)
  DEF ListReceive, Arrive, Goto, CreditInv, CreditedOnce, Unannounced,
      CommittedSteps
<1>40. ASSUME NEW r \in Requests, ListCheck(r) PROVE CreditInv'
  BY <1>40, SMTT(30)
  DEF ListCheck, Goto, Finish, CreditInv, CreditedOnce, Unannounced,
      CommittedSteps
<1>41. ASSUME NEW r \in Requests, ListInsert(r) PROVE CreditInv'
  BY <1>41, SMTT(30)
  DEF ListInsert, Goto, Finish, CreditInv, CreditedOnce, Unannounced,
      CommittedSteps
<1>42. ASSUME NEW r \in Requests, ListWrite(r) PROVE CreditInv'
  BY <1>42, SMTT(30)
  DEF ListWrite, Goto, Finish, CreditInv, CreditedOnce, Unannounced,
      CommittedSteps
<1>43. ASSUME NEW r \in Requests, StatementFails(r) PROVE CreditInv'
  <2>1. /\ UNCHANGED <<req, credits, payments, events>>
        /\ pc[r] \notin Finished \cup {"idle", "confirmNotify"}
        /\ pc' = [pc EXCEPT ![r] =
                    IF pc[r] \in {"receipt", "flag", "confirmReceipt"}
                    THEN "done" ELSE "rejected"]
        /\ halfDone \subseteq halfDone'
        /\ pc[r] = "notify" => r \in halfDone'
    BY <1>43 DEF StatementFails, Finish, Goto, CommittedBefore
  <2> QED
    BY <2>1, SMTT(30)
    DEF CreditInv, CreditedOnce, Unannounced, CommittedSteps, Finished
<1> QED
  BY <1>1, <1>2, <1>3, <1>4, <1>5, <1>6, <1>7, <1>8, <1>9, <1>10, <1>11, <1>12,
     <1>13, <1>14, <1>15, <1>16, <1>17, <1>18, <1>19, <1>20, <1>21, <1>22,
     <1>23, <1>24, <1>25, <1>26, <1>27, <1>28, <1>29, <1>30, <1>31, <1>32,
     <1>33, <1>34, <1>35, <1>36, <1>37, <1>38, <1>39, <1>40, <1>41,
     <1>42, <1>43
  DEF Next, Receive, Step

-----------------------------------------------------------------------------
(* Receipts and announcements.                                              *)

LEMMA ReceiptInit == Init => ReceiptInv /\ AnnouncedIsRecorded
  BY DEF Init, ReceiptInv, ReceiptOnce, AnnouncedIsRecorded

LEMMA CommitKeepsReceipts ==
    ASSUME Basic, LockInv, ReceiptInv, AnnouncedIsRecorded,
           NEW r \in Requests, CreateCommit(r) \/ ConfirmCommit(r)
    PROVE  (ReceiptInv /\ AnnouncedIsRecorded)'
<1> DEFINE s == req[r].sig
<1>1. /\ payments[s] = NoPayment
      /\ payments'[s] # NoPayment
      /\ payments'[s].receipt = FALSE
      /\ \A q \in Sigs : q # s => payments'[q] = payments[q]
  BY CommitShape DEF Basic, TypeOK
<1>2. /\ pc[r] \in {"createCommit", "confirmCommit"} /\ s \in Sigs
      /\ pc' = [pc EXCEPT ![r] = IF pc[r] = "createCommit" THEN "notify"
                                 ELSE "confirmNotify"]
      /\ UNCHANGED <<req, receipts, events>>
  BY CommitRecords DEF localVars, outsideVars
<1>3. receipts[s] = 0
  BY <1>1, <1>2 DEF ReceiptInv
<1>4. ReceiptOnce'
  BY <1>1, <1>2, <1>3 DEF ReceiptInv, ReceiptOnce
<1>5. ReceiptInv'
  BY <1>1, <1>2, <1>3, <1>4 DEF Basic, TypeOK, ReceiptInv
<1>6. AnnouncedIsRecorded'
  BY <1>1, <1>2 DEF Basic, TypeOK, Event, AnnouncedIsRecorded
<1> QED
  BY <1>5, <1>6

LEMMA ReceiptStep ==
    /\ Basic /\ LockInv /\ CreditInv
    /\ ReceiptInv /\ AnnouncedIsRecorded /\ [Next]_vars
    => ReceiptInv' /\ AnnouncedIsRecorded'
<1> SUFFICES ASSUME Basic, LockInv, CreditInv, ReceiptInv, AnnouncedIsRecorded,
                    [Next]_vars
             PROVE  (ReceiptInv /\ AnnouncedIsRecorded)'
  OBVIOUS
<1> USE DEF Basic, TypeOK, RequestInv, RequestOK, rowVars, lockVars,
            outsideVars, localVars
<1>1. ASSUME NEW s \in Sigs, PayDirectly(s)
      PROVE  (ReceiptInv /\ AnnouncedIsRecorded)'
  BY <1>1 DEF PayDirectly, ReceiptInv, ReceiptOnce, AnnouncedIsRecorded
<1>2. ASSUME NEW s \in Sigs, SignForRelay(s)
      PROVE  (ReceiptInv /\ AnnouncedIsRecorded)'
  BY <1>2 DEF SignForRelay, ReceiptInv, ReceiptOnce, AnnouncedIsRecorded
<1>3. ASSUME NEW s \in Sigs, ChainSettles(s)
      PROVE  (ReceiptInv /\ AnnouncedIsRecorded)'
  BY <1>3 DEF ChainSettles, ReceiptInv, ReceiptOnce, AnnouncedIsRecorded
<1>4. ASSUME NEW r \in Requests, DirectReceive(r)
      PROVE  (ReceiptInv /\ AnnouncedIsRecorded)'
  BY <1>4
  DEF DirectReceive, Arrive, Goto, ReceiptInv, ReceiptOnce, AnnouncedIsRecorded
<1>5. ASSUME NEW r \in Requests, ManualReceive(r)
      PROVE  (ReceiptInv /\ AnnouncedIsRecorded)'
  BY <1>5
  DEF ManualReceive, Arrive, Goto, ReceiptInv, ReceiptOnce, AnnouncedIsRecorded
<1>6. ASSUME NEW r \in Requests, RelayReceive(r)
      PROVE  (ReceiptInv /\ AnnouncedIsRecorded)'
  BY <1>6
  DEF RelayReceive, Arrive, Goto, ReceiptInv, ReceiptOnce, AnnouncedIsRecorded
<1>7. ASSUME NEW r \in Requests, PatchReceive(r)
      PROVE  (ReceiptInv /\ AnnouncedIsRecorded)'
  BY <1>7
  DEF PatchReceive, Arrive, Goto, ReceiptInv, ReceiptOnce, AnnouncedIsRecorded
<1>8. ASSUME NEW r \in Requests, DeleteReceive(r)
      PROVE  (ReceiptInv /\ AnnouncedIsRecorded)'
  BY <1>8
  DEF DeleteReceive, Arrive, Goto, ReceiptInv, ReceiptOnce, AnnouncedIsRecorded
<1>9. ASSUME NEW r \in Requests, DirectVerify(r)
      PROVE  (ReceiptInv /\ AnnouncedIsRecorded)'
  BY <1>9
  DEF DirectVerify, Goto, Finish, ReceiptInv, ReceiptOnce, AnnouncedIsRecorded
<1>10. ASSUME NEW r \in Requests, DirectReplay(r)
       PROVE  (ReceiptInv /\ AnnouncedIsRecorded)'
  BY <1>10
  DEF DirectReplay, Goto, Finish, ReceiptInv, ReceiptOnce, AnnouncedIsRecorded
<1>11. ASSUME NEW r \in Requests, CreateCheck(r)
       PROVE  (ReceiptInv /\ AnnouncedIsRecorded)'
  BY <1>11
  DEF CreateCheck, Goto, Finish, ReceiptInv, ReceiptOnce, AnnouncedIsRecorded
<1>12. ASSUME NEW r \in Requests, CreateInsert(r)
       PROVE  (ReceiptInv /\ AnnouncedIsRecorded)'
  BY <1>12
  DEF CreateInsert, EnterIndex, Goto, Finish, Rollback, Release, Unclaimed, Duplicate,
     ReceiptInv, ReceiptOnce, AnnouncedIsRecorded
<1>13. ASSUME NEW r \in Requests, CreateKeyShare(r)
       PROVE  (ReceiptInv /\ AnnouncedIsRecorded)'
  BY <1>13
  DEF CreateKeyShare, Goto, Finish, Rollback, Release, ReceiptInv, ReceiptOnce,
     AnnouncedIsRecorded
<1>14. ASSUME NEW r \in Requests, CreateRead(r)
       PROVE  (ReceiptInv /\ AnnouncedIsRecorded)'
  BY <1>14
  DEF CreateRead, Goto, Read, ReceiptInv, ReceiptOnce, AnnouncedIsRecorded
<1>15. ASSUME NEW r \in Requests, CreateCommit(r)
       PROVE  (ReceiptInv /\ AnnouncedIsRecorded)'
  BY <1>15, CommitKeepsReceipts
<1>16. ASSUME NEW r \in Requests, Notify(r)
       PROVE  (ReceiptInv /\ AnnouncedIsRecorded)'
  <2>1. /\ pc[r] = "notify" /\ pc' = [pc EXCEPT ![r] = "receipt"]
        /\ UNCHANGED <<payments, receipts, req>>
    BY <1>16 DEF Notify, Goto
  <2>2. ReceiptInv'
    BY <2>1 DEF ReceiptInv, ReceiptOnce
  <2>3. \A e \in events' : e \in events \/ e.sig = req[r].sig
    BY <1>16 DEF Notify
  <2>4. payments[req[r].sig] # NoPayment
    BY <2>1 DEF RecordedSteps
  <2> QED
    BY <2>1, <2>2, <2>3, <2>4 DEF AnnouncedIsRecorded
<1>17. ASSUME NEW r \in Requests, Receipt(r)
       PROVE  (ReceiptInv /\ AnnouncedIsRecorded)'
  <2>1. pc[r] = "receipt" /\ UNCHANGED <<payments, req, events>>
    BY <1>17 DEF Receipt, Finish, Goto
  <2>2. AnnouncedIsRecorded'
    BY <2>1 DEF AnnouncedIsRecorded
  <2>3. CASE receipts' = receipts /\ pc' = [pc EXCEPT ![r] = "done"]
    BY <2>1, <2>2, <2>3 DEF ReceiptInv, ReceiptOnce
  <2>4. CASE /\ receipts' = [receipts EXCEPT ![req[r].sig] = @ + 1]
             /\ pc' = [pc EXCEPT ![r] = "flag"]
    <3>1. /\ req[r].sig \in Sigs /\ payments[req[r].sig] # NoPayment
          /\ receipts[req[r].sig] = 0
      BY <2>1 DEF RecordedSteps, ReceiptInv
    <3>2. \A q \in Requests \ {r} :
            pc[q] \in {"notify", "receipt", "flag", "confirmNotify"} =>
              req[q].sig # req[r].sig
      BY <2>1 DEF CreditInv, CreditedOnce
    <3>3. ReceiptOnce'
      BY <2>1, <2>4, <3>1 DEF ReceiptInv, ReceiptOnce
    <3>4. ReceiptInv'
      BY <2>1, <2>4, <3>1, <3>2, <3>3 DEF ReceiptInv
    <3> QED
      BY <2>2, <3>4
  <2> QED
    BY <1>17, <2>3, <2>4 DEF Receipt, Finish, Goto
<1>18. ASSUME NEW r \in Requests, Flag(r)
       PROVE  (ReceiptInv /\ AnnouncedIsRecorded)'
  <2>1. /\ pc[r] = "flag" /\ pc' = [pc EXCEPT ![r] = "done"]
        /\ UNCHANGED <<receipts, events, req>>
    BY <1>18 DEF Flag, Finish, Goto
  <2>2. receipts[req[r].sig] = 1
    BY <2>1 DEF ReceiptInv
  <2>3. \A s \in Sigs :
          /\ payments'[s] # NoPayment <=> payments[s] # NoPayment
          /\ payments'[s].invoice = payments[s].invoice
          /\ payments'[s].amount = payments[s].amount
          /\ payments'[s].method = payments[s].method
          /\ payments'[s].receipt =
               IF s = req[r].sig THEN TRUE ELSE payments[s].receipt
    BY <1>18, FlagKeepsPayment, Zenon
  <2>4. AnnouncedIsRecorded'
    BY <2>1, <2>3 DEF AnnouncedIsRecorded, Event
  <2>5. ReceiptInv'
    BY <2>1, <2>2, <2>3 DEF ReceiptInv, ReceiptOnce
  <2> QED
    BY <2>4, <2>5
<1>19. ASSUME NEW r \in Requests, RelaySend(r)
       PROVE  (ReceiptInv /\ AnnouncedIsRecorded)'
  BY <1>19
  DEF RelaySend, Goto, Finish, ReceiptInv, ReceiptOnce, AnnouncedIsRecorded
<1>20. ASSUME NEW r \in Requests, ConfirmReplay(r)
       PROVE  (ReceiptInv /\ AnnouncedIsRecorded)'
  BY <1>20
  DEF ConfirmReplay, Goto, Finish, ReceiptInv, ReceiptOnce, AnnouncedIsRecorded
<1>21. ASSUME NEW r \in Requests, ConfirmWait(r)
       PROVE  (ReceiptInv /\ AnnouncedIsRecorded)'
  BY <1>21
  DEF ConfirmWait, Goto, Finish, ReceiptInv, ReceiptOnce, AnnouncedIsRecorded
<1>22. ASSUME NEW r \in Requests, ConfirmRead(r)
       PROVE  (ReceiptInv /\ AnnouncedIsRecorded)'
  BY <1>22
  DEF ConfirmRead, Goto, Finish, Read, ReceiptInv, ReceiptOnce,
     AnnouncedIsRecorded
<1>23. ASSUME NEW r \in Requests, ConfirmVerify(r)
       PROVE  (ReceiptInv /\ AnnouncedIsRecorded)'
  BY <1>23
  DEF ConfirmVerify, Goto, Finish, ReceiptInv, ReceiptOnce, AnnouncedIsRecorded
<1>24. ASSUME NEW r \in Requests, ConfirmCheck(r)
       PROVE  (ReceiptInv /\ AnnouncedIsRecorded)'
  BY <1>24 DEF ConfirmCheck, Goto, ReceiptInv, ReceiptOnce, AnnouncedIsRecorded
<1>25. ASSUME NEW r \in Requests, ConfirmLock(r)
       PROVE  (ReceiptInv /\ AnnouncedIsRecorded)'
  BY <1>25
  DEF ConfirmLock, ForUpdate, Goto, Finish, Read, ReceiptInv, ReceiptOnce,
     AnnouncedIsRecorded
<1>26. ASSUME NEW r \in Requests, ConfirmInsert(r)
       PROVE  (ReceiptInv /\ AnnouncedIsRecorded)'
  BY <1>26
  DEF ConfirmInsert, EnterIndex, Goto, Finish, Rollback, Release, Unclaimed, Duplicate,
     ReceiptInv, ReceiptOnce, AnnouncedIsRecorded
<1>27. ASSUME NEW r \in Requests, ConfirmCommit(r)
       PROVE  (ReceiptInv /\ AnnouncedIsRecorded)'
  BY <1>27, CommitKeepsReceipts
<1>28. ASSUME NEW r \in Requests, ConfirmNotify(r)
       PROVE  (ReceiptInv /\ AnnouncedIsRecorded)'
  <2>1. /\ pc[r] = "confirmNotify" /\ pc' = [pc EXCEPT ![r] = "confirmReceipt"]
        /\ UNCHANGED <<payments, receipts, req>>
    BY <1>28 DEF ConfirmNotify, Goto
  <2>2. ReceiptInv'
    BY <2>1 DEF ReceiptInv, ReceiptOnce
  <2>3. \A e \in events' : e \in events \/ e.sig = req[r].sig
    BY <1>28 DEF ConfirmNotify
  <2>4. payments[req[r].sig] # NoPayment
    BY <2>1 DEF RecordedSteps
  <2> QED
    BY <2>1, <2>2, <2>3, <2>4 DEF AnnouncedIsRecorded
<1>29. ASSUME NEW r \in Requests, ConfirmReceipt(r)
       PROVE  (ReceiptInv /\ AnnouncedIsRecorded)'
  BY <1>29
  DEF ConfirmReceipt, Goto, Finish, Mintable, ConfirmPayload, ReceiptInv,
     ReceiptOnce, AnnouncedIsRecorded
<1>30. ASSUME NEW r \in Requests, PatchWrite(r)
       PROVE  (ReceiptInv /\ AnnouncedIsRecorded)'
  BY <1>30
  DEF PatchWrite, Goto, Finish, ReceiptInv, ReceiptOnce, AnnouncedIsRecorded
<1>31. ASSUME NEW r \in Requests, CancelWrite(r)
       PROVE  (ReceiptInv /\ AnnouncedIsRecorded)'
  BY <1>31
  DEF CancelWrite, Goto, Finish, ReceiptInv, ReceiptOnce, AnnouncedIsRecorded
<1>32. ASSUME NEW r \in Requests, DeleteCheck(r)
       PROVE  (ReceiptInv /\ AnnouncedIsRecorded)'
  BY <1>32
  DEF DeleteCheck, Goto, Finish, ReceiptInv, ReceiptOnce, AnnouncedIsRecorded
<1>33. ASSUME NEW r \in Requests, DeleteRow(r)
       PROVE  (ReceiptInv /\ AnnouncedIsRecorded)'
  BY <1>33
  DEF DeleteRow, Goto, Finish, ReceiptInv, ReceiptOnce, AnnouncedIsRecorded
<1>34. ASSUME NEW r \in Requests, DeadlockVictim(r)
       PROVE  (ReceiptInv /\ AnnouncedIsRecorded)'
  BY <1>34, VictimWaits
  DEF Goto, Finish, Rollback, Release, ReceiptInv, ReceiptOnce,
     AnnouncedIsRecorded
<1>35. CASE Crash
  BY <1>35 DEF Crash, Fault, ReceiptInv, ReceiptOnce, AnnouncedIsRecorded, Finished
<1>36. CASE UNCHANGED vars
  BY <1>36 DEF vars, ReceiptInv, ReceiptOnce, AnnouncedIsRecorded
<1>37. ASSUME NEW i \in Invoices, SellListing(i)
       PROVE  (ReceiptInv /\ AnnouncedIsRecorded)'
  BY <1>37 DEF SellListing, ReceiptInv, ReceiptOnce, AnnouncedIsRecorded
<1>38. ASSUME NEW i \in Invoices, RouteToBuyer(i)
       PROVE  (ReceiptInv /\ AnnouncedIsRecorded)'
  BY <1>38 DEF RouteToBuyer, ReceiptInv, ReceiptOnce, AnnouncedIsRecorded
<1>39. ASSUME NEW r \in Requests, ListReceive(r)
       PROVE  (ReceiptInv /\ AnnouncedIsRecorded)'
  BY <1>39
  DEF ListReceive, Arrive, Goto, ReceiptInv, ReceiptOnce, AnnouncedIsRecorded
<1>40. ASSUME NEW r \in Requests, ListCheck(r)
       PROVE  (ReceiptInv /\ AnnouncedIsRecorded)'
  BY <1>40
  DEF ListCheck, Goto, Finish, ReceiptInv, ReceiptOnce, AnnouncedIsRecorded
<1>41. ASSUME NEW r \in Requests, ListInsert(r)
       PROVE  (ReceiptInv /\ AnnouncedIsRecorded)'
  BY <1>41
  DEF ListInsert, Goto, Finish, ReceiptInv, ReceiptOnce, AnnouncedIsRecorded
<1>42. ASSUME NEW r \in Requests, ListWrite(r)
       PROVE  (ReceiptInv /\ AnnouncedIsRecorded)'
  BY <1>42
  DEF ListWrite, Goto, Finish, ReceiptInv, ReceiptOnce, AnnouncedIsRecorded
<1>43. ASSUME NEW r \in Requests, StatementFails(r)
       PROVE  (ReceiptInv /\ AnnouncedIsRecorded)'
  BY <1>43
  DEF StatementFails, Fault, Goto, Finish, Release, ReceiptInv, ReceiptOnce,
      AnnouncedIsRecorded
<1> QED
  BY <1>1, <1>2, <1>3, <1>4, <1>5, <1>6, <1>7, <1>8, <1>9, <1>10, <1>11, <1>12,
     <1>13, <1>14, <1>15, <1>16, <1>17, <1>18, <1>19, <1>20, <1>21, <1>22,
     <1>23, <1>24, <1>25, <1>26, <1>27, <1>28, <1>29, <1>30, <1>31, <1>32,
     <1>33, <1>34, <1>35, <1>36, <1>37, <1>38, <1>39, <1>40, <1>41,
     <1>42, <1>43
  DEF Next, Receive, Step

-----------------------------------------------------------------------------
(* The relay implements the ledger.                                         *)

OnlyRelayed == Endpoints \cap {"direct", "manual"} = {}

\* A request comes from one of the endpoints.
KindInv == \A r \in Requests : pc[r] # "idle" => req[r].kind \in Endpoints

\* The balance a relay's transaction has read FOR UPDATE is the balance.
FreshInv ==
    \A r \in Requests :
      pc[r] \in ExclSteps => snap[r].paid = invoices[req[r].inv].paid

\* What a step does that records no payment: totals and statuses change by
\* PATCH, DELETE and POST /list alone, and nobody is paid.
NothingCredited ==
    /\ \A s \in Sigs : /\ payments'[s] = NoPayment <=> payments[s] = NoPayment
                       /\ payments'[s].invoice = payments[s].invoice
                       /\ payments'[s].amount = payments[s].amount
    /\ \A i \in Invoices :
         /\ invoices'[i].paid = invoices[i].paid
         /\ invoices'[i].remaining = invoices[i].remaining
         /\ invoices'[i].total \in {invoices[i].total} \cup PatchTotals
         /\ invoices'[i].status \in
              {invoices[i].status, "cancelled", "deleted", "listed"}
                \cup PatchStatuses

LEMMA OnlyCommitsCredit ==
    ASSUME Basic, [Next]_vars,
           \A r \in Requests : ~CreateCommit(r) /\ ~ConfirmCommit(r)
    PROVE  NothingCredited
<1> USE DEF Basic, TypeOK, RequestInv, RequestOK, rowVars, lockVars,
            outsideVars, localVars
<1>1. ASSUME NEW s \in Sigs, PayDirectly(s) PROVE NothingCredited
  BY <1>1 DEF PayDirectly, NothingCredited
<1>2. ASSUME NEW s \in Sigs, SignForRelay(s) PROVE NothingCredited
  BY <1>2 DEF SignForRelay, NothingCredited
<1>3. ASSUME NEW s \in Sigs, ChainSettles(s) PROVE NothingCredited
  BY <1>3 DEF ChainSettles, NothingCredited
<1>4. ASSUME NEW r \in Requests, DirectReceive(r) PROVE NothingCredited
  BY <1>4 DEF DirectReceive, Arrive, Goto, NothingCredited
<1>5. ASSUME NEW r \in Requests, ManualReceive(r) PROVE NothingCredited
  BY <1>5 DEF ManualReceive, Arrive, Goto, NothingCredited
<1>6. ASSUME NEW r \in Requests, RelayReceive(r) PROVE NothingCredited
  BY <1>6 DEF RelayReceive, Arrive, Goto, NothingCredited
<1>7. ASSUME NEW r \in Requests, PatchReceive(r) PROVE NothingCredited
  BY <1>7 DEF PatchReceive, Arrive, Goto, NothingCredited
<1>8. ASSUME NEW r \in Requests, DeleteReceive(r) PROVE NothingCredited
  BY <1>8 DEF DeleteReceive, Arrive, Goto, NothingCredited
<1>9. ASSUME NEW r \in Requests, DirectVerify(r) PROVE NothingCredited
  BY <1>9 DEF DirectVerify, Goto, Finish, NothingCredited
<1>10. ASSUME NEW r \in Requests, DirectReplay(r) PROVE NothingCredited
  BY <1>10 DEF DirectReplay, Goto, Finish, NothingCredited
<1>11. ASSUME NEW r \in Requests, CreateCheck(r) PROVE NothingCredited
  BY <1>11 DEF CreateCheck, Goto, Finish, NothingCredited
<1>12. ASSUME NEW r \in Requests, CreateInsert(r) PROVE NothingCredited
  BY <1>12
  DEF CreateInsert, EnterIndex, Goto, Finish, Rollback, Release, Unclaimed, Duplicate,
     NothingCredited
<1>13. ASSUME NEW r \in Requests, CreateKeyShare(r) PROVE NothingCredited
  BY <1>13 DEF CreateKeyShare, Goto, Finish, Rollback, Release, NothingCredited
<1>14. ASSUME NEW r \in Requests, CreateRead(r) PROVE NothingCredited
  BY <1>14 DEF CreateRead, Goto, Read, NothingCredited
<1>15. ASSUME NEW r \in Requests, CreateCommit(r) PROVE NothingCredited
  BY <1>15
<1>16. ASSUME NEW r \in Requests, Notify(r) PROVE NothingCredited
  BY <1>16 DEF Notify, Goto, NothingCredited
<1>17. ASSUME NEW r \in Requests, Receipt(r) PROVE NothingCredited
  BY <1>17 DEF Receipt, Goto, Finish, NothingCredited
<1>18. ASSUME NEW r \in Requests, Flag(r) PROVE NothingCredited
  <2>1. UNCHANGED invoices
    BY <1>18 DEF Flag
  <2> QED
    BY <1>18, <2>1, FlagKeepsPayment DEF NothingCredited
<1>19. ASSUME NEW r \in Requests, RelaySend(r) PROVE NothingCredited
  BY <1>19 DEF RelaySend, Goto, Finish, NothingCredited
<1>20. ASSUME NEW r \in Requests, ConfirmReplay(r) PROVE NothingCredited
  BY <1>20 DEF ConfirmReplay, Goto, Finish, NothingCredited
<1>21. ASSUME NEW r \in Requests, ConfirmWait(r) PROVE NothingCredited
  BY <1>21 DEF ConfirmWait, Goto, Finish, NothingCredited
<1>22. ASSUME NEW r \in Requests, ConfirmRead(r) PROVE NothingCredited
  BY <1>22 DEF ConfirmRead, Goto, Finish, Read, NothingCredited
<1>23. ASSUME NEW r \in Requests, ConfirmVerify(r) PROVE NothingCredited
  BY <1>23 DEF ConfirmVerify, Goto, Finish, NothingCredited
<1>24. ASSUME NEW r \in Requests, ConfirmCheck(r) PROVE NothingCredited
  BY <1>24 DEF ConfirmCheck, Goto, NothingCredited
<1>25. ASSUME NEW r \in Requests, ConfirmLock(r) PROVE NothingCredited
  BY <1>25 DEF ConfirmLock, ForUpdate, Goto, Finish, Read, NothingCredited
<1>26. ASSUME NEW r \in Requests, ConfirmInsert(r) PROVE NothingCredited
  BY <1>26
  DEF ConfirmInsert, EnterIndex, Goto, Finish, Rollback, Release, Unclaimed, Duplicate,
     NothingCredited
<1>27. ASSUME NEW r \in Requests, ConfirmCommit(r) PROVE NothingCredited
  BY <1>27
<1>28. ASSUME NEW r \in Requests, ConfirmNotify(r) PROVE NothingCredited
  BY <1>28 DEF ConfirmNotify, Goto, NothingCredited
<1>29. ASSUME NEW r \in Requests, ConfirmReceipt(r) PROVE NothingCredited
  BY <1>29
  DEF ConfirmReceipt, Goto, Finish, Mintable, ConfirmPayload, NothingCredited
<1>30. ASSUME NEW r \in Requests, PatchWrite(r) PROVE NothingCredited
  <2>1. \A i \in Invoices :
          /\ invoices'[i].paid = invoices[i].paid
          /\ invoices'[i].remaining = invoices[i].remaining
          /\ invoices'[i].total \in {invoices[i].total} \cup PatchTotals
          /\ invoices'[i].status \in
               {invoices[i].status, "cancelled", "deleted", "listed"}
                 \cup PatchStatuses
    BY <1>30 DEF PatchWrite, Invoice
  <2>2. UNCHANGED payments
    BY <1>30 DEF PatchWrite
  <2> QED
    BY <2>1, <2>2 DEF NothingCredited
<1>31. ASSUME NEW r \in Requests, CancelWrite(r) PROVE NothingCredited
  <2>1. \A i \in Invoices :
          /\ invoices'[i].paid = invoices[i].paid
          /\ invoices'[i].remaining = invoices[i].remaining
          /\ invoices'[i].total \in {invoices[i].total} \cup PatchTotals
          /\ invoices'[i].status \in
               {invoices[i].status, "cancelled", "deleted", "listed"}
                 \cup PatchStatuses
    BY <1>31 DEF CancelWrite, Invoice
  <2>2. UNCHANGED payments
    BY <1>31 DEF CancelWrite
  <2> QED
    BY <2>1, <2>2 DEF NothingCredited
<1>32. ASSUME NEW r \in Requests, DeleteCheck(r) PROVE NothingCredited
  BY <1>32 DEF DeleteCheck, Goto, Finish, NothingCredited
<1>33. ASSUME NEW r \in Requests, DeleteRow(r) PROVE NothingCredited
  <2>1. \A i \in Invoices :
          /\ invoices'[i].paid = invoices[i].paid
          /\ invoices'[i].remaining = invoices[i].remaining
          /\ invoices'[i].total \in {invoices[i].total} \cup PatchTotals
          /\ invoices'[i].status \in
               {invoices[i].status, "cancelled", "deleted", "listed"}
                 \cup PatchStatuses
    BY <1>33 DEF DeleteRow, Invoice
  <2>2. UNCHANGED payments
    BY <1>33 DEF DeleteRow
  <2> QED
    BY <2>1, <2>2 DEF NothingCredited
<1>34. ASSUME NEW r \in Requests, DeadlockVictim(r) PROVE NothingCredited
  BY <1>34, VictimWaits DEF Goto, Finish, Rollback, Release, NothingCredited
<1>35. CASE Crash
  BY <1>35 DEF Crash, Fault, NothingCredited
<1>36. CASE UNCHANGED vars
  BY <1>36 DEF vars, NothingCredited
<1>37. ASSUME NEW i \in Invoices, SellListing(i) PROVE NothingCredited
  BY <1>37 DEF SellListing, NothingCredited
<1>38. ASSUME NEW i \in Invoices, RouteToBuyer(i) PROVE NothingCredited
  <2>1. \A j \in Invoices : /\ invoices'[j].paid = invoices[j].paid
                            /\ invoices'[j].remaining = invoices[j].remaining
                            /\ invoices'[j].total = invoices[j].total
                            /\ invoices'[j].status = invoices[j].status
    BY <1>38 DEF RouteToBuyer, Basic, TypeOK, Invoice
  <2>2. UNCHANGED payments
    BY <1>38 DEF RouteToBuyer
  <2> QED
    BY <2>1, <2>2 DEF NothingCredited
<1>39. ASSUME NEW r \in Requests, ListReceive(r) PROVE NothingCredited
  BY <1>39
  DEF ListReceive, Arrive, Goto, NothingCredited
<1>40. ASSUME NEW r \in Requests, ListCheck(r) PROVE NothingCredited
  BY <1>40
  DEF ListCheck, Goto, Finish, NothingCredited
<1>41. ASSUME NEW r \in Requests, ListInsert(r) PROVE NothingCredited
  BY <1>41
  DEF ListInsert, Goto, Finish, NothingCredited
<1>42. ASSUME NEW r \in Requests, ListWrite(r) PROVE NothingCredited
  <2>1. \A i \in Invoices :
          /\ invoices'[i].paid = invoices[i].paid
          /\ invoices'[i].remaining = invoices[i].remaining
          /\ invoices'[i].total \in {invoices[i].total} \cup PatchTotals
          /\ invoices'[i].status \in
               {invoices[i].status, "cancelled", "deleted", "listed"}
                 \cup PatchStatuses
    BY <1>42 DEF ListWrite, Invoice
  <2>2. UNCHANGED payments
    BY <1>42 DEF ListWrite
  <2> QED
    BY <2>1, <2>2 DEF NothingCredited
<1>43. ASSUME NEW r \in Requests, StatementFails(r) PROVE NothingCredited
  BY <1>43
  DEF StatementFails, Fault, Goto, Finish, Release, NothingCredited
<1> QED
  BY <1>1, <1>2, <1>3, <1>4, <1>5, <1>6, <1>7, <1>8, <1>9, <1>10, <1>11, <1>12,
     <1>13, <1>14, <1>15, <1>16, <1>17, <1>18, <1>19, <1>20, <1>21, <1>22,
     <1>23, <1>24, <1>25, <1>26, <1>27, <1>28, <1>29, <1>30, <1>31, <1>32,
     <1>33, <1>34, <1>35, <1>36, <1>37, <1>38, <1>39, <1>40, <1>41,
     <1>42, <1>43
  DEF Next, Receive, Step

\* What a request asks for is what it has asked for since it came in; a row it
\* works on is one it has just read, or has already worked on.
OnlyReads ==
    \A r \in Requests :
      /\ pc'[r] # "idle" =>
           \/ pc[r] # "idle" /\ req'[r] = req[r]
           \/ req'[r].kind \in Endpoints
      /\ pc'[r] \in SnapSteps =>
           /\ req'[r] \in Request
           /\ \/ snap'[r] = invoices[req'[r].inv]
              \/ pc[r] \in SnapSteps /\ snap'[r] = snap[r] /\ req'[r] = req[r]

LEMMA RowsAreRead ==
    ASSUME Basic, [Next]_vars
    PROVE  OnlyReads
<1> USE DEF Basic, TypeOK, RequestInv, RequestOK, rowVars, lockVars,
            outsideVars, localVars, SnapSteps, CreateSteps, ConfirmSteps
<1>1. ASSUME NEW s \in Sigs, PayDirectly(s) PROVE OnlyReads
  BY <1>1 DEF PayDirectly, OnlyReads
<1>2. ASSUME NEW s \in Sigs, SignForRelay(s) PROVE OnlyReads
  BY <1>2 DEF SignForRelay, OnlyReads
<1>3. ASSUME NEW s \in Sigs, ChainSettles(s) PROVE OnlyReads
  BY <1>3 DEF ChainSettles, OnlyReads
<1>4. ASSUME NEW r \in Requests, DirectReceive(r) PROVE OnlyReads
  <2>1. PICK i \in Invoices, s \in Sigs, a \in DirectAmounts :
          /\ "direct" \in Endpoints
          /\ req' = [req EXCEPT ![r] = [kind |-> "direct", inv |-> i, sig |-> s,
                                        amount |-> a]]
          /\ snap' = [snap EXCEPT ![r] = invoices[i]]
          /\ pc' = [pc EXCEPT ![r] = "directVerify"]
    BY <1>4 DEF DirectReceive, Arrive, Goto
  <2>2. [kind |-> "direct", inv |-> i, sig |-> s, amount |-> a] \in Request
    BY SettlementAssumption DEF SettlementAssumption, Request, Kinds
  <2> QED
    BY <2>1, <2>2 DEF OnlyReads
<1>5. ASSUME NEW r \in Requests, ManualReceive(r) PROVE OnlyReads
  BY <1>5 DEF ManualReceive, Arrive, Goto, OnlyReads
<1>6. ASSUME NEW r \in Requests, RelayReceive(r) PROVE OnlyReads
  BY <1>6 DEF RelayReceive, Arrive, Goto, OnlyReads
<1>7. ASSUME NEW r \in Requests, PatchReceive(r) PROVE OnlyReads
  BY <1>7 DEF PatchReceive, Arrive, Goto, OnlyReads
<1>8. ASSUME NEW r \in Requests, DeleteReceive(r) PROVE OnlyReads
  BY <1>8 DEF DeleteReceive, Arrive, Goto, OnlyReads
<1>9. ASSUME NEW r \in Requests, DirectVerify(r) PROVE OnlyReads
  BY <1>9 DEF DirectVerify, Goto, Finish, OnlyReads
<1>10. ASSUME NEW r \in Requests, DirectReplay(r) PROVE OnlyReads
  BY <1>10 DEF DirectReplay, Goto, Finish, OnlyReads
<1>11. ASSUME NEW r \in Requests, CreateCheck(r) PROVE OnlyReads
  BY <1>11 DEF CreateCheck, Goto, Finish, OnlyReads
<1>12. ASSUME NEW r \in Requests, CreateInsert(r) PROVE OnlyReads
  BY <1>12 DEF CreateInsert, EnterIndex, Goto, Finish, Rollback, Release, Unclaimed,
      Duplicate, OnlyReads
<1>13. ASSUME NEW r \in Requests, CreateKeyShare(r) PROVE OnlyReads
  BY <1>13 DEF CreateKeyShare, Goto, Finish, Rollback, Release, OnlyReads
<1>14. ASSUME NEW r \in Requests, CreateRead(r) PROVE OnlyReads
  BY <1>14 DEF CreateRead, Goto, Read, OnlyReads
<1>15. ASSUME NEW r \in Requests, CreateCommit(r) PROVE OnlyReads
  BY <1>15 DEF CreateCommit, Goto, OnlyReads
<1>16. ASSUME NEW r \in Requests, Notify(r) PROVE OnlyReads
  BY <1>16 DEF Notify, Goto, OnlyReads
<1>17. ASSUME NEW r \in Requests, Receipt(r) PROVE OnlyReads
  BY <1>17 DEF Receipt, Goto, Finish, OnlyReads
<1>18. ASSUME NEW r \in Requests, Flag(r) PROVE OnlyReads
  BY <1>18 DEF Flag, Goto, Finish, OnlyReads
<1>19. ASSUME NEW r \in Requests, RelaySend(r) PROVE OnlyReads
  BY <1>19 DEF RelaySend, Goto, Finish, OnlyReads
<1>20. ASSUME NEW r \in Requests, ConfirmReplay(r) PROVE OnlyReads
  BY <1>20 DEF ConfirmReplay, Goto, Finish, OnlyReads
<1>21. ASSUME NEW r \in Requests, ConfirmWait(r) PROVE OnlyReads
  BY <1>21 DEF ConfirmWait, Goto, Finish, OnlyReads
<1>22. ASSUME NEW r \in Requests, ConfirmRead(r) PROVE OnlyReads
  BY <1>22 DEF ConfirmRead, Goto, Finish, Read, OnlyReads
<1>23. ASSUME NEW r \in Requests, ConfirmVerify(r) PROVE OnlyReads
  BY <1>23 DEF ConfirmVerify, Goto, Finish, OnlyReads
<1>24. ASSUME NEW r \in Requests, ConfirmCheck(r) PROVE OnlyReads
  BY <1>24 DEF ConfirmCheck, Goto, OnlyReads
<1>25. ASSUME NEW r \in Requests, ConfirmLock(r) PROVE OnlyReads
  BY <1>25 DEF ConfirmLock, ForUpdate, Goto, Finish, Read, OnlyReads
<1>26. ASSUME NEW r \in Requests, ConfirmInsert(r) PROVE OnlyReads
  BY <1>26 DEF ConfirmInsert, EnterIndex, Goto, Finish, Rollback, Release, Unclaimed,
      Duplicate, OnlyReads
<1>27. ASSUME NEW r \in Requests, ConfirmCommit(r) PROVE OnlyReads
  BY <1>27 DEF ConfirmCommit, Goto, OnlyReads
<1>28. ASSUME NEW r \in Requests, ConfirmNotify(r) PROVE OnlyReads
  BY <1>28 DEF ConfirmNotify, Goto, OnlyReads
<1>29. ASSUME NEW r \in Requests, ConfirmReceipt(r) PROVE OnlyReads
  BY <1>29 DEF ConfirmReceipt, Goto, Finish, Mintable, ConfirmPayload,
      OnlyReads
<1>30. ASSUME NEW r \in Requests, PatchWrite(r) PROVE OnlyReads
  BY <1>30 DEF PatchWrite, Goto, Finish, OnlyReads
<1>31. ASSUME NEW r \in Requests, CancelWrite(r) PROVE OnlyReads
  BY <1>31 DEF CancelWrite, Goto, Finish, OnlyReads
<1>32. ASSUME NEW r \in Requests, DeleteCheck(r) PROVE OnlyReads
  BY <1>32 DEF DeleteCheck, Goto, Finish, OnlyReads
<1>33. ASSUME NEW r \in Requests, DeleteRow(r) PROVE OnlyReads
  BY <1>33 DEF DeleteRow, Goto, Finish, OnlyReads
<1>34. ASSUME NEW r \in Requests, DeadlockVictim(r) PROVE OnlyReads
  BY <1>34, VictimWaits DEF Goto, Finish, Rollback, OnlyReads
<1>35. CASE Crash
  BY <1>35 DEF Crash, Fault, OnlyReads, Finished
<1>36. CASE UNCHANGED vars
  BY <1>36 DEF vars, OnlyReads
<1>37. ASSUME NEW i \in Invoices, SellListing(i) PROVE OnlyReads
  BY <1>37 DEF SellListing, OnlyReads
<1>38. ASSUME NEW i \in Invoices, RouteToBuyer(i) PROVE OnlyReads
  BY <1>38 DEF RouteToBuyer, OnlyReads
<1>39. ASSUME NEW r \in Requests, ListReceive(r) PROVE OnlyReads
  BY <1>39
  DEF ListReceive, Arrive, Goto, OnlyReads
<1>40. ASSUME NEW r \in Requests, ListCheck(r) PROVE OnlyReads
  BY <1>40
  DEF ListCheck, Goto, Finish, OnlyReads
<1>41. ASSUME NEW r \in Requests, ListInsert(r) PROVE OnlyReads
  BY <1>41
  DEF ListInsert, Goto, Finish, OnlyReads
<1>42. ASSUME NEW r \in Requests, ListWrite(r) PROVE OnlyReads
  BY <1>42
  DEF ListWrite, Goto, Finish, OnlyReads
<1>43. ASSUME NEW r \in Requests, StatementFails(r) PROVE OnlyReads
  BY <1>43
  DEF StatementFails, Fault, Goto, Finish, Release, OnlyReads
<1> QED
  BY <1>1, <1>2, <1>3, <1>4, <1>5, <1>6, <1>7, <1>8, <1>9, <1>10, <1>11, <1>12,
     <1>13, <1>14, <1>15, <1>16, <1>17, <1>18, <1>19, <1>20, <1>21, <1>22,
     <1>23, <1>24, <1>25, <1>26, <1>27, <1>28, <1>29, <1>30, <1>31, <1>32,
     <1>33, <1>34, <1>35, <1>36, <1>37, <1>38, <1>39, <1>40, <1>41,
     <1>42, <1>43
  DEF Next, Receive, Step

LEMMA FreshInit == Init => KindInv /\ FreshInv
  BY DEF Init, KindInv, FreshInv, ExclSteps

LEMMA KindStep ==
    ASSUME Basic, KindInv, [Next]_vars
    PROVE  KindInv'
  BY RowsAreRead DEF OnlyReads, KindInv

LEMMA FreshStep ==
    ASSUME OnlyRelayed, Basic, LockInv, KindInv, FreshInv, [Next]_vars
    PROVE  FreshInv'
<1> USE DEF Basic, TypeOK, RequestInv, RequestOK, rowVars, lockVars,
            outsideVars, localVars
<1>1. ASSUME NEW s \in Sigs, PayDirectly(s) PROVE FreshInv'
  BY <1>1 DEF PayDirectly, FreshInv, ExclSteps
<1>2. ASSUME NEW s \in Sigs, SignForRelay(s) PROVE FreshInv'
  BY <1>2 DEF SignForRelay, FreshInv, ExclSteps
<1>3. ASSUME NEW s \in Sigs, ChainSettles(s) PROVE FreshInv'
  BY <1>3 DEF ChainSettles, FreshInv, ExclSteps
<1>4. ASSUME NEW r \in Requests, DirectReceive(r) PROVE FreshInv'
  BY <1>4 DEF DirectReceive, Arrive, Goto, FreshInv, ExclSteps
<1>5. ASSUME NEW r \in Requests, ManualReceive(r) PROVE FreshInv'
  BY <1>5 DEF ManualReceive, Arrive, Goto, FreshInv, ExclSteps
<1>6. ASSUME NEW r \in Requests, RelayReceive(r) PROVE FreshInv'
  BY <1>6 DEF RelayReceive, Arrive, Goto, FreshInv, ExclSteps
<1>7. ASSUME NEW r \in Requests, PatchReceive(r) PROVE FreshInv'
  BY <1>7 DEF PatchReceive, Arrive, Goto, FreshInv, ExclSteps
<1>8. ASSUME NEW r \in Requests, DeleteReceive(r) PROVE FreshInv'
  BY <1>8 DEF DeleteReceive, Arrive, Goto, FreshInv, ExclSteps
<1>9. ASSUME NEW r \in Requests, DirectVerify(r) PROVE FreshInv'
  BY <1>9 DEF DirectVerify, Goto, Finish, FreshInv, ExclSteps
<1>10. ASSUME NEW r \in Requests, DirectReplay(r) PROVE FreshInv'
  BY <1>10 DEF DirectReplay, Goto, Finish, FreshInv, ExclSteps
<1>11. ASSUME NEW r \in Requests, CreateCheck(r) PROVE FreshInv'
  BY <1>11 DEF CreateCheck, Goto, Finish, FreshInv, ExclSteps
<1>12. ASSUME NEW r \in Requests, CreateInsert(r) PROVE FreshInv'
  BY <1>12
  DEF CreateInsert, EnterIndex, Goto, Finish, Rollback, Release, Unclaimed, Duplicate,
     FreshInv, ExclSteps
<1>13. ASSUME NEW r \in Requests, CreateKeyShare(r) PROVE FreshInv'
  BY <1>13
  DEF CreateKeyShare, Goto, Finish, Rollback, Release, KindInv, FreshInv,
     ExclSteps
<1>14. ASSUME NEW r \in Requests, CreateRead(r) PROVE FreshInv'
  BY <1>14 DEF CreateRead, Goto, Read, FreshInv, ExclSteps
<1>15. ASSUME NEW r \in Requests, CreateCommit(r) PROVE FreshInv'
  BY <1>15 DEF CreateCommit, KindInv, OnlyRelayed, CreateSteps
<1>16. ASSUME NEW r \in Requests, Notify(r) PROVE FreshInv'
  BY <1>16 DEF Notify, Goto, FreshInv, ExclSteps
<1>17. ASSUME NEW r \in Requests, Receipt(r) PROVE FreshInv'
  BY <1>17 DEF Receipt, Goto, Finish, FreshInv, ExclSteps
<1>18. ASSUME NEW r \in Requests, Flag(r) PROVE FreshInv'
  BY <1>18 DEF Flag, Goto, Finish, FreshInv, ExclSteps
<1>19. ASSUME NEW r \in Requests, RelaySend(r) PROVE FreshInv'
  BY <1>19 DEF RelaySend, Goto, Finish, FreshInv, ExclSteps
<1>20. ASSUME NEW r \in Requests, ConfirmReplay(r) PROVE FreshInv'
  BY <1>20 DEF ConfirmReplay, Goto, Finish, FreshInv, ExclSteps
<1>21. ASSUME NEW r \in Requests, ConfirmWait(r) PROVE FreshInv'
  BY <1>21 DEF ConfirmWait, Goto, Finish, FreshInv, ExclSteps
<1>22. ASSUME NEW r \in Requests, ConfirmRead(r) PROVE FreshInv'
  BY <1>22 DEF ConfirmRead, Goto, Finish, Read, FreshInv, ExclSteps
<1>23. ASSUME NEW r \in Requests, ConfirmVerify(r) PROVE FreshInv'
  BY <1>23 DEF ConfirmVerify, Goto, Finish, FreshInv, ExclSteps
<1>24. ASSUME NEW r \in Requests, ConfirmCheck(r) PROVE FreshInv'
  BY <1>24 DEF ConfirmCheck, Goto, FreshInv, ExclSteps
<1>25. ASSUME NEW r \in Requests, ConfirmLock(r) PROVE FreshInv'
  BY <1>25
  DEF ConfirmLock, ForUpdate, Goto, Finish, Read, FreshInv, ExclSteps
<1>26. ASSUME NEW r \in Requests, ConfirmInsert(r) PROVE FreshInv'
  BY <1>26
  DEF ConfirmInsert, EnterIndex, Goto, Finish, Rollback, Release, Unclaimed, Duplicate,
     FreshInv, ExclSteps
<1>27. ASSUME NEW r \in Requests, ConfirmCommit(r) PROVE FreshInv'
  <2>1. PICK amount \in Nat, method \in {"chain", "manual"},
             columns \in [paid : Nat, remaining : Nat, status : Statuses] :
          Record(r, amount, method, columns)
    BY <1>27, CommitRecords
  <2>2. /\ pc[r] = "confirmCommit" /\ pc' = [pc EXCEPT ![r] = "confirmNotify"]
        /\ UNCHANGED <<req, snap>>
    BY <1>27 DEF ConfirmCommit, Goto
  <2>3. \A i \in Invoices : i # req[r].inv => invoices'[i] = invoices[i]
    BY <2>1 DEF Record
  <2>4. ASSUME NEW q \in Requests, q # r, pc[q] \in ExclSteps
        PROVE  req[q].inv # req[r].inv /\ req[q].inv \in Invoices
    BY <2>2, <2>4 DEF LockInv, ExclInv, ExclSteps, Request
  <2> QED
    BY <2>2, <2>3, <2>4 DEF FreshInv, ExclSteps
<1>28. ASSUME NEW r \in Requests, ConfirmNotify(r) PROVE FreshInv'
  BY <1>28 DEF ConfirmNotify, Goto, FreshInv, ExclSteps
<1>29. ASSUME NEW r \in Requests, ConfirmReceipt(r) PROVE FreshInv'
  BY <1>29
  DEF ConfirmReceipt, Goto, Finish, Mintable, ConfirmPayload,
     FreshInv, ExclSteps
<1>30. ASSUME NEW r \in Requests, PatchWrite(r) PROVE FreshInv'
  <2>1. \A i \in Invoices : invoices'[i].paid = invoices[i].paid
    BY <1>30 DEF PatchWrite, Invoice
  <2>2. /\ UNCHANGED req
        /\ \/ pc' = [pc EXCEPT ![r] = "done"]
           \/ pc' = [pc EXCEPT ![r] = "rejected"]
        /\ snap' = [snap EXCEPT ![r] = NoSnap]
        /\ pc[r] # "idle"
    BY <1>30 DEF PatchWrite, Finish, Goto
  <2> QED
    BY <2>1, <2>2 DEF FreshInv, ExclSteps, Request
<1>31. ASSUME NEW r \in Requests, CancelWrite(r) PROVE FreshInv'
  BY <1>31 DEF CancelWrite, Goto, Finish, FreshInv, ExclSteps
<1>32. ASSUME NEW r \in Requests, DeleteCheck(r) PROVE FreshInv'
  BY <1>32 DEF DeleteCheck, Goto, Finish, FreshInv, ExclSteps
<1>33. ASSUME NEW r \in Requests, DeleteRow(r) PROVE FreshInv'
  <2>1. \A i \in Invoices : invoices'[i].paid = invoices[i].paid
    BY <1>33 DEF DeleteRow, Invoice
  <2>2. /\ UNCHANGED req
        /\ \/ pc' = [pc EXCEPT ![r] = "done"]
           \/ pc' = [pc EXCEPT ![r] = "rejected"]
        /\ snap' = [snap EXCEPT ![r] = NoSnap]
        /\ pc[r] # "idle"
    BY <1>33 DEF DeleteRow, Finish, Goto
  <2> QED
    BY <2>1, <2>2 DEF FreshInv, ExclSteps, Request
<1>34. ASSUME NEW r \in Requests, DeadlockVictim(r) PROVE FreshInv'
  BY <1>34, VictimWaits
  DEF Goto, Finish, Rollback, Release, FreshInv, ExclSteps
<1>35. CASE Crash
  <2>1. /\ req' = req
        /\ \A r \in Requests : /\ pc'[r] \in Finished \cup {"idle"}
                               /\ pc'[r] = "idle" <=> pc[r] = "idle"
    BY <1>35 DEF Crash, Fault, Finished
  <2> QED
    BY <2>1 DEF FreshInv, ExclSteps, Finished
<1>36. CASE UNCHANGED vars
  BY <1>36 DEF vars, FreshInv, ExclSteps
<1>37. ASSUME NEW i \in Invoices, SellListing(i) PROVE FreshInv'
  BY <1>37 DEF SellListing, FreshInv, ExclSteps
<1>38. ASSUME NEW i \in Invoices, RouteToBuyer(i) PROVE FreshInv'
  <2>1. \A j \in Invoices : invoices'[j].paid = invoices[j].paid
    BY <1>38 DEF RouteToBuyer, Invoice
  <2>2. UNCHANGED <<req, snap, pc>>
    BY <1>38 DEF RouteToBuyer
  <2> QED
    BY <2>1, <2>2 DEF FreshInv, ExclSteps, Request
<1>39. ASSUME NEW r \in Requests, ListReceive(r) PROVE FreshInv'
  BY <1>39
  DEF ListReceive, Arrive, Goto, FreshInv, ExclSteps
<1>40. ASSUME NEW r \in Requests, ListCheck(r) PROVE FreshInv'
  BY <1>40
  DEF ListCheck, Goto, Finish, FreshInv, ExclSteps
<1>41. ASSUME NEW r \in Requests, ListInsert(r) PROVE FreshInv'
  BY <1>41
  DEF ListInsert, Goto, Finish, FreshInv, ExclSteps
<1>42. ASSUME NEW r \in Requests, ListWrite(r) PROVE FreshInv'
  <2>1. \A i \in Invoices : invoices'[i].paid = invoices[i].paid
    BY <1>42 DEF ListWrite, Invoice
  <2>2. /\ UNCHANGED req
        /\ pc' = [pc EXCEPT ![r] = "done"]
        /\ snap' = [snap EXCEPT ![r] = NoSnap]
        /\ pc[r] # "idle"
    BY <1>42 DEF ListWrite, Finish, Goto
  <2> QED
    BY <2>1, <2>2 DEF FreshInv, ExclSteps, Request
<1>43. ASSUME NEW r \in Requests, StatementFails(r) PROVE FreshInv'
  BY <1>43
  DEF StatementFails, Fault, Goto, Finish, Release, FreshInv, ExclSteps
<1> QED
  BY <1>1, <1>2, <1>3, <1>4, <1>5, <1>6, <1>7, <1>8, <1>9, <1>10, <1>11, <1>12,
     <1>13, <1>14, <1>15, <1>16, <1>17, <1>18, <1>19, <1>20, <1>21, <1>22,
     <1>23, <1>24, <1>25, <1>26, <1>27, <1>28, <1>29, <1>30, <1>31, <1>32,
     <1>33, <1>34, <1>35, <1>36, <1>37, <1>38, <1>39, <1>40, <1>41,
     <1>42, <1>43
  DEF Next, Receive, Step

LEMMA OnlyRelayedConfirms ==
    ASSUME OnlyRelayed, Basic, KindInv, NEW r \in Requests
    PROVE  ~CreateCommit(r)
  BY DEF CreateCommit, Basic, RequestInv, RequestOK, CreateSteps, KindInv,
         OnlyRelayed

LEMMA LedgerInitially == Init => Ledger!LedgerInit
<1> SUFFICES ASSUME Init PROVE Ledger!LedgerInit
  OBVIOUS
<1>1. \A i \in Invoices : invoices[i].paid = 0
  BY DEF Init, Created
<1>2. \A s \in Sigs : payments[s] = NoPayment
  BY DEF Init
<1> QED
  BY <1>1, <1>2 DEF Ledger!LedgerInit

LEMMA CreditIsNext ==
    ASSUME NEW s \in Sigs, NEW i \in Invoices, Ledger!CreditTo(s, i)
    PROVE  Ledger!LedgerNext
  BY DEF Ledger!LedgerNext

LEMMA LedgerStep ==
    ASSUME OnlyRelayed, Basic, LockInv, KindInv, FreshInv, [Next]_vars
    PROVE  [Ledger!LedgerNext]_(Ledger!ledgerVars)
<1>1. CASE \A r \in Requests : ~CreateCommit(r) /\ ~ConfirmCommit(r)
  <2>1. NothingCredited
    BY <1>1, OnlyCommitsCredit
  <2> QED
    BY <2>1 DEF NothingCredited, Ledger!ledgerVars
<1>2. ASSUME NEW r \in Requests, CreateCommit(r)
      PROVE  FALSE
  BY <1>2, OnlyRelayedConfirms
<1>3. ASSUME NEW r \in Requests, ConfirmCommit(r)
      PROVE  Ledger!LedgerNext
  <2>0. PICK i \in Invoices, s \in Sigs : i = req[r].inv /\ s = req[r].sig
    BY <1>3, CommitRecords DEF Request
  <2> DEFINE amount == chain[s].toPayee
             columns == AfterConfirmation(snap[r], amount)
  <2>1. /\ pc[r] = "confirmCommit"
        /\ snap[r] \in Invoice /\ snap[r].paid = invoices[i].paid
        /\ payments[s] = NoPayment
        /\ amount \in Nat
    <3>1. pc[r] = "confirmCommit"
      BY <1>3 DEF ConfirmCommit
    <3>2. snap[r].paid = invoices[i].paid
      BY <2>0, <3>1 DEF FreshInv, ExclSteps
    <3>3. /\ snap[r] \in Invoice
          /\ chain[s] \in Tx
      BY <2>0, <3>1 DEF Basic, TypeOK, RequestInv, RequestOK, SnapSteps,
                        ConfirmSteps
    <3>4. payments[s] = NoPayment
      BY <1>3, <2>0, CommitShape
    <3> QED
      BY <3>1, <3>2, <3>3, <3>4 DEF Tx
  <2>2. Record(r, amount, "chain", columns)
    BY <1>3, <2>0 DEF ConfirmCommit, AmountReceived
  <2>3. columns.paid = invoices[i].paid + amount
    BY <2>1 DEF AfterConfirmation
  <2> HIDE DEF columns
  <2>4. /\ payments'[s] # NoPayment
        /\ payments'[s].invoice = i
        /\ payments'[s].amount = amount
        /\ \A q \in Sigs : q # s => payments'[q] = payments[q]
    BY <1>3, <2>0, <2>1, <2>2, CommitShape DEF Record, Basic, TypeOK
  <2>5. \A j \in Invoices :
          invoices'[j].paid = IF j = i THEN invoices[i].paid + amount
                              ELSE invoices[j].paid
    BY <2>0, <2>1, <2>2, <2>3 DEF Record, Basic, TypeOK, Invoice
  <2> HIDE DEF amount
  <2>6. Ledger!CreditTo(s, i)
    <3> DEFINE rows == [q \in Sigs |-> IF payments[q] = NoPayment
                                       THEN NoPayment
                                       ELSE [invoice |-> payments[q].invoice,
                                             amount |-> payments[q].amount]]
               paid == [j \in Invoices |-> invoices[j].paid]
               new == [invoice |-> i, amount |-> amount]
    <3>1. new \in [invoice : {i}, amount : Nat] /\ new.amount = amount
      BY <2>1
    <3>2. rows' = [rows EXCEPT ![s] = new]
      <4>1. \A q \in Sigs : q # s => rows'[q] = rows[q]
        BY <2>1, <2>4
      <4>2. rows'[s] = new
        BY <2>1, <2>4
      <4>3. /\ rows' = [q \in Sigs |-> rows'[q]]
            /\ rows = [q \in Sigs |-> rows[q]]
        OBVIOUS
      <4> HIDE DEF rows
      <4> QED
        BY <4>1, <4>2, <4>3
    <3>3. rows[s] = NoPayment /\ rows'[s] = new
      BY <2>1, <2>4
    <3>4. paid' = [paid EXCEPT ![i] = @ + amount]
      BY <2>1, <2>5
    <3> HIDE DEF new
    <3> QED
      BY <3>1, <3>2, <3>3, <3>4 DEF Ledger!CreditTo
  <2> QED
    BY <2>6, CreditIsNext
<1> QED
  BY <1>1, <1>2, <1>3

-----------------------------------------------------------------------------
(* Sums over finite sets.  Whatever holds of every smaller set holds of the  *)
(* set: first-order induction, by a smallest set for which it fails.         *)

\* The sums over the subsets of S, as SumFunctionOnSet computes them.
Body(f, it, U) ==
    IF U = {} THEN 0
    ELSE LET x == CHOOSE x \in U : TRUE IN f[x] + it[U \ {x}]
IsIter(f, S, it) == it = [U \in SUBSET S |-> Body(f, it, U)]
Iter(f, S) == CHOOSE it : IsIter(f, S, it)

LEMMA SumIsIter == ASSUME NEW f, NEW S PROVE SumFunctionOnSet(f, S) = Iter(f, S)[S]
  BY DEF SumFunctionOnSet, FoldFunctionOnSet, MapThenFoldSet, Iter, IsIter, Body

\* Whatever fails for a subset of a finite set fails for a smallest one.
LEMMA Smallest ==
    ASSUME NEW S, IsFiniteSet(S), NEW Bad, Bad \subseteq SUBSET S, Bad # {}
    PROVE  \E T \in Bad : \A U \in Bad : ~(U \subseteq T /\ U # T)
<1>1. IsWellFoundedOn(StrictSubsetOrdering(S), SUBSET S)
  BY FS_StrictSubsetOrderingWellFounded, FS_FiniteSubsetsOfFinite
<1>2. PICK T \in Bad : \A U \in Bad : <<U, T>> \notin StrictSubsetOrdering(S)
  BY <1>1, WFMin
<1> QED
  BY <1>2 DEF StrictSubsetOrdering

\* Two such functions agree where their arguments do.
LEMMA IterAgree ==
    ASSUME NEW S, IsFiniteSet(S), NEW A, NEW B, S \subseteq A, S \subseteq B,
           NEW f, NEW g, \A x \in S : f[x] = g[x],
           NEW a, NEW b, IsIter(f, A, a), IsIter(g, B, b)
    PROVE  a[S] = b[S]
<1> DEFINE Bad == {U \in SUBSET S : a[U] # b[U]}
<1>1. ASSUME Bad # {}
      PROVE  FALSE
  <2>0. Bad \subseteq SUBSET S
    OBVIOUS
  <2>1. PICK T \in Bad : \A U \in Bad : ~(U \subseteq T /\ U # T)
    <3> HIDE DEF Bad
    <3> QED
      BY <1>1, <2>0, Smallest
  <2>2. a[T] = Body(f, a, T) /\ b[T] = Body(g, b, T)
    BY DEF IsIter
  <2>3. T # {}
    BY <2>2 DEF Body
  <2> DEFINE x == CHOOSE x \in T : TRUE
  <2>4. x \in T
    BY <2>3
  <2>5. a[T] = f[x] + a[T \ {x}] /\ b[T] = g[x] + b[T \ {x}]
    BY <2>2, <2>3 DEF Body
  <2> HIDE DEF x
  <2>6. T \ {x} \in SUBSET S /\ T \ {x} # T
    BY <2>4
  <2>7. a[T \ {x}] = b[T \ {x}]
    BY <2>1, <2>6
  <2> QED
    BY <2>1, <2>4, <2>5, <2>7
<1> QED
  BY <1>1

\* There is such a function for every finite set.
LEMMA IterExists ==
    ASSUME NEW f, NEW S, IsFiniteSet(S)
    PROVE  IsIter(f, S, Iter(f, S))
<1> DEFINE Bad == {U \in SUBSET S : ~ IsIter(f, U, Iter(f, U))}
<1>1. ASSUME Bad # {}
      PROVE  FALSE
  <2>0. Bad \subseteq SUBSET S
    OBVIOUS
  <2>1. PICK T \in Bad : \A U \in Bad : ~(U \subseteq T /\ U # T)
    <3> HIDE DEF Bad
    <3> QED
      BY <1>1, <2>0, Smallest
  <2> DEFINE h == [U \in SUBSET T |-> Iter(f, U)[U]]
             it == [U \in SUBSET T |-> Body(f, h, U)]
  <2>2. ASSUME NEW U \in SUBSET T, U # T
        PROVE  it[U] = h[U]
    <3>1. IsIter(f, U, Iter(f, U))
      BY <2>1, <2>2
    <3>2. Iter(f, U)[U] = Body(f, Iter(f, U), U)
      BY <3>1 DEF IsIter
    <3>3. CASE U = {}
      BY <3>2, <3>3 DEF Body
    <3>4. CASE U # {}
      <4> DEFINE x == CHOOSE x \in U : TRUE
      <4>1. x \in U
        BY <3>4
      <4>2. /\ Iter(f, U)[U] = f[x] + Iter(f, U)[U \ {x}]
            /\ it[U] = f[x] + h[U \ {x}]
        BY <3>2, <3>4 DEF Body
      <4> HIDE DEF x
      <4>3. /\ U \ {x} \in SUBSET T /\ U \ {x} # T /\ IsFiniteSet(U \ {x})
        BY <2>2, <4>1, FS_Subset
      <4>4. IsIter(f, U \ {x}, Iter(f, U \ {x}))
        BY <2>1, <4>3
      <4>5. Iter(f, U)[U \ {x}] = Iter(f, U \ {x})[U \ {x}]
        BY <3>1, <4>3, <4>4, IterAgree
      <4>6. h[U \ {x}] = Iter(f, U \ {x})[U \ {x}]
        BY <4>3
      <4>7. h[U] = Iter(f, U)[U]
        BY <2>2
      <4> QED
        BY <4>2, <4>5, <4>6, <4>7
    <3> QED
      BY <3>3, <3>4
  <2>3. ASSUME NEW U \in SUBSET T
        PROVE  it[U] = Body(f, it, U)
    <3>1. CASE U = {}
      BY <3>1 DEF Body
    <3>2. CASE U # {}
      <4> DEFINE x == CHOOSE x \in U : TRUE
      <4>1. x \in U
        BY <3>2
      <4>2. /\ it[U] = f[x] + h[U \ {x}]
            /\ Body(f, it, U) = f[x] + it[U \ {x}]
        BY <3>2 DEF Body
      <4> HIDE DEF x
      <4>3. U \ {x} \in SUBSET T /\ U \ {x} # T
        BY <4>1
      <4>4. it[U \ {x}] = h[U \ {x}]
        BY <2>2, <4>3
      <4> HIDE DEF it, h
      <4> QED
        BY <4>2, <4>4
    <3> QED
      BY <3>1, <3>2
  <2>4. it = [U \in SUBSET T |-> it[U]]
    OBVIOUS
  <2> HIDE DEF it
  <2>5. IsIter(f, T, it)
    BY <2>3, <2>4 DEF IsIter
  <2>6. IsIter(f, T, Iter(f, T))
    BY <2>5 DEF Iter
  <2> QED
    BY <2>1, <2>6
<1> QED
  BY <1>1

\* Sums do not depend on what is not summed up.
LEMMA SumAgree ==
    ASSUME NEW S, IsFiniteSet(S), NEW f, NEW g, \A x \in S : f[x] = g[x]
    PROVE  SumFunctionOnSet(f, S) = SumFunctionOnSet(g, S)
  BY IterExists, IterAgree, SumIsIter

LEMMA SumEmpty == ASSUME NEW f PROVE SumFunctionOnSet(f, {}) = 0
<1>1. IsIter(f, {}, Iter(f, {}))
  BY IterExists, FS_EmptySet
<1>2. Iter(f, {})[{}] = 0
  BY <1>1 DEF IsIter, Body
<1> QED
  BY <1>2, SumIsIter

\* The sum without the element that was chosen first.
LEMMA SumChosen ==
    ASSUME NEW S, IsFiniteSet(S), S # {}, NEW f
    PROVE  \E x \in S : SumFunctionOnSet(f, S) = f[x] + SumFunctionOnSet(f, S \ {x})
<1> DEFINE x == CHOOSE x \in S : TRUE
<1>1. x \in S
  OBVIOUS
<1>2. IsIter(f, S, Iter(f, S))
  BY IterExists
<1>3. Iter(f, S)[S] = f[x] + Iter(f, S)[S \ {x}]
  BY <1>2 DEF IsIter, Body
<1> HIDE DEF x
<1>4. IsFiniteSet(S \ {x}) /\ IsIter(f, S \ {x}, Iter(f, S \ {x}))
  BY IterExists, FS_Subset
<1>5. Iter(f, S)[S \ {x}] = Iter(f, S \ {x})[S \ {x}]
  BY <1>2, <1>4, IterAgree
<1> QED
  BY <1>1, <1>3, <1>5, SumIsIter

\* ... and without any of them.
LEMMA SumRemove ==
    ASSUME NEW S, IsFiniteSet(S), NEW f, \A x \in S : f[x] \in Nat, NEW y \in S
    PROVE  /\ SumFunctionOnSet(f, S) = f[y] + SumFunctionOnSet(f, S \ {y})
           /\ SumFunctionOnSet(f, S) \in Nat
<1> DEFINE Sum(U) == SumFunctionOnSet(f, U)
           Good(U) == Sum(U) \in Nat /\ \A z \in U : Sum(U) = f[z] + Sum(U \ {z})
           Bad == {U \in SUBSET S : ~ Good(U)}
<1>1. ASSUME Bad # {}
      PROVE  FALSE
  <2>0. Bad \subseteq SUBSET S
    OBVIOUS
  <2>1. PICK T \in Bad : \A U \in Bad : ~(U \subseteq T /\ U # T)
    <3> HIDE DEF Bad
    <3> QED
      BY <1>1, <2>0, Smallest
  <2>2. T \in SUBSET S /\ IsFiniteSet(T) /\ ~ Good(T)
    BY <2>1, FS_Subset
  <2>3. ASSUME NEW U \in SUBSET T, U # T
        PROVE  Good(U)
    BY <2>1, <2>2, <2>3
  <2>4. T # {}
    BY <2>2, SumEmpty
  <2>5. PICK x \in T : Sum(T) = f[x] + Sum(T \ {x})
    BY <2>2, <2>4, SumChosen
  <2> HIDE DEF Sum
  <2>6. Good(T \ {x})
    BY <2>3
  <2>7. Sum(T) \in Nat
    BY <2>2, <2>5, <2>6
  <2>8. ASSUME NEW z \in T
        PROVE  Sum(T) = f[z] + Sum(T \ {z})
    <3>1. CASE z = x
      BY <2>5, <3>1
    <3>2. CASE z # x
      <4>1. Good(T \ {z})
        BY <2>3
      <4>2. (T \ {x}) \ {z} = (T \ {z}) \ {x}
        OBVIOUS
      <4>3. Sum(T \ {x}) = f[z] + Sum((T \ {z}) \ {x})
        BY <2>6, <3>2, <4>2
      <4>4. Sum(T \ {z}) = f[x] + Sum((T \ {z}) \ {x})
        BY <3>2, <4>1
      <4>5. Good((T \ {z}) \ {x})
        BY <2>3
      <4> QED
        BY <2>2, <2>5, <4>3, <4>4, <4>5
    <3> QED
      BY <3>1, <3>2
  <2> QED
    BY <2>2, <2>7, <2>8
<1> QED
  BY <1>1

LEMMA SumNat ==
    ASSUME NEW S, IsFiniteSet(S), NEW f, \A x \in S : f[x] \in Nat
    PROVE  SumFunctionOnSet(f, S) \in Nat
<1>1. CASE S = {}
  BY <1>1, SumEmpty
<1>2. CASE S # {}
  BY <1>2, SumRemove
<1> QED
  BY <1>1, <1>2

\* What a new element adds.
LEMMA SumAdd ==
    ASSUME NEW S, IsFiniteSet(S), NEW y, y \notin S, NEW f,
           \A x \in S \cup {y} : f[x] \in Nat
    PROVE  SumFunctionOnSet(f, S \cup {y}) = f[y] + SumFunctionOnSet(f, S)
<1>1. IsFiniteSet(S \cup {y}) /\ (S \cup {y}) \ {y} = S
  BY FS_AddElement
<1> QED
  BY <1>1, SumRemove

-----------------------------------------------------------------------------
(* Balances.                                                                *)

\* The signatures recorded so far are finitely many, and no balance, written or
\* read to be written, is more than they add up to.
Spent == {s \in Sigs : payments[s] # NoPayment}
OvercreditInv ==
    /\ IsFiniteSet(Spent)
    /\ NeverOvercredited
    /\ \A r \in Requests :
         pc[r] \in SnapSteps => snap[r].paid <= SumRecorded(req[r].inv)

\* Where every payment goes through the relay.
ExactInv == IsFiniteSet(Spent) /\ PaidAddsUp

\* Where the columns are left to the payments.
ColumnsKept == PatchTotals = {} /\ "paid" \notin PatchStatuses

RowAddsUp(inv) ==
    /\ inv.remaining = Clamped(inv.total - inv.paid)
    /\ inv.status = "paid" => inv.remaining = 0
BalanceInv ==
    /\ \A i \in Invoices : invoices[i].total = Total[i] /\ RowAddsUp(invoices[i])
    /\ \A r \in Requests :
         pc[r] \in SnapSteps =>
           snap[r].total = Total[req[r].inv] /\ RowAddsUp(snap[r])

LEMMA SumsType ==
    ASSUME TypeOK, IsFiniteSet(Spent), NEW i \in Invoices
    PROVE  /\ IsFiniteSet(Recorded(i)) /\ Recorded(i) \subseteq Sigs
           /\ \A s \in Sigs : Amounts[s] \in Nat
           /\ SumRecorded(i) \in Nat
<1>1. Recorded(i) \subseteq Spent /\ Recorded(i) \subseteq Sigs
  BY DEF Recorded, Spent
<1>2. IsFiniteSet(Recorded(i))
  BY <1>1, FS_Subset
<1>3. \A s \in Sigs : Amounts[s] \in Nat
  BY DEF Amounts, TypeOK, Payment
<1> QED
  BY <1>1, <1>2, <1>3, SumNat DEF SumRecorded

\* A step that records no payment changes no sum.
LEMMA SumsKept ==
    ASSUME TypeOK, IsFiniteSet(Spent), NothingCredited
    PROVE  /\ Spent' = Spent
           /\ \A i \in Invoices : SumRecorded(i)' = SumRecorded(i)
<1>1. Spent' = Spent
  BY DEF Spent, NothingCredited
<1>2. ASSUME NEW i \in Invoices
      PROVE  SumRecorded(i)' = SumRecorded(i)
  <2>1. Recorded(i)' = Recorded(i)
    BY DEF Recorded, NothingCredited
  <2>2. \A s \in Recorded(i) : Amounts'[s] = Amounts[s]
    BY DEF Recorded, Amounts, NothingCredited
  <2> QED
    BY <2>1, <2>2, SumsType, SumAgree DEF SumRecorded
<1> QED
  BY <1>1, <1>2

\* The columns a COMMIT writes, from the row its request has read.
LEMMA CommitWrites ==
    ASSUME Basic, LockInv, NEW r \in Requests,
           CreateCommit(r) \/ ConfirmCommit(r)
    PROVE  \E amount \in Nat, i \in Invoices, s \in Sigs :
             /\ i = req[r].inv /\ s = req[r].sig
             /\ snap[r] \in Invoice /\ pc[r] \in SnapSteps
             /\ payments'[s].amount = amount
             /\ \A j \in Invoices : j # i => invoices'[j] = invoices[j]
             /\ \E columns \in {AfterPayment(snap[r], amount),
                                AfterConfirmation(snap[r], amount)} :
                  /\ invoices'[i].paid = columns.paid
                  /\ invoices'[i].remaining = columns.remaining
                  /\ invoices'[i].status = columns.status
                  /\ invoices'[i].total = invoices[i].total
                  /\ columns.paid = snap[r].paid + amount
<1> USE DEF Basic, TypeOK, RequestInv, RequestOK
<1>1. PICK i \in Invoices, s \in Sigs : i = req[r].inv /\ s = req[r].sig
  BY CommitRecords DEF Request
<1>2. /\ pc[r] \in {"createCommit", "confirmCommit"}
      /\ snap[r] \in Invoice /\ pc[r] \in SnapSteps
      /\ req[r].kind # "manual" => chain[s] \in Tx
      /\ pc[r] = "confirmCommit" => req[r].kind = "relay"
      /\ req[r].amount \in Nat
  BY <1>1, CommitRecords DEF SnapSteps, CreateSteps, ConfirmSteps, Request
<1>3. PICK amount \in Nat, method \in {"chain", "manual"} :
        \E columns \in {AfterPayment(snap[r], amount),
                        AfterConfirmation(snap[r], amount)} :
          Record(r, amount, method, columns)
  <2>1. CASE CreateCommit(r)
    <3>1. AmountPaid(r) \in Nat
      BY <1>1, <1>2 DEF AmountPaid, Tx
    <3> QED
      BY <2>1, <3>1 DEF CreateCommit
  <2>2. CASE ConfirmCommit(r)
    <3>1. AmountReceived(r) \in Nat
      BY <1>1, <1>2, <2>2 DEF AmountReceived, ConfirmCommit, Tx
    <3> QED
      BY <2>2, <3>1 DEF ConfirmCommit
  <2> QED
    BY <2>1, <2>2
<1>4. PICK columns \in {AfterPayment(snap[r], amount),
                        AfterConfirmation(snap[r], amount)} :
        Record(r, amount, method, columns)
  BY <1>3, Zenon
<1>5. columns \in [paid : Nat, remaining : Nat, status : Statuses]
  <2>1. /\ AfterPayment(snap[r], amount) \in
             [paid : Nat, remaining : Nat, status : Statuses]
        /\ AfterConfirmation(snap[r], amount) \in
             [paid : Nat, remaining : Nat, status : Statuses]
    BY <1>2, ColumnsType
  <2> QED
    BY <2>1, Zenon
<1>6. columns.paid = snap[r].paid + amount
  BY DEF AfterPayment, AfterConfirmation
<1>7. \A j \in Invoices : j # i => invoices'[j] = invoices[j]
  BY <1>1, <1>4 DEF Record
<1>8. /\ invoices'[i].paid = columns.paid
      /\ invoices'[i].remaining = columns.remaining
      /\ invoices'[i].status = columns.status
      /\ invoices'[i].total = invoices[i].total
  BY <1>1, <1>4, <1>5 DEF Record, Invoice
<1>9. payments'[s].amount = amount
  BY <1>1, <1>4 DEF Record
<1> QED
  BY <1>1, <1>2, <1>6, <1>7, <1>8, <1>9

\* What a COMMIT adds to the sums.
LEMMA SumsGrow ==
    ASSUME Basic, LockInv, IsFiniteSet(Spent), NEW r \in Requests,
           CreateCommit(r) \/ ConfirmCommit(r),
           NEW i \in Invoices, NEW s \in Sigs, NEW amount \in Nat,
           i = req[r].inv, s = req[r].sig, payments'[s].amount = amount
    PROVE  /\ IsFiniteSet(Spent')
           /\ SumRecorded(i)' = SumRecorded(i) + amount
           /\ \A j \in Invoices : j # i => SumRecorded(j)' = SumRecorded(j)
<1>1. /\ payments[s] = NoPayment
      /\ payments'[s] # NoPayment
      /\ payments'[s].invoice = i
      /\ \A q \in Sigs : q # s => payments'[q] = payments[q]
      /\ req' = req
  BY CommitShape, CommitRecords DEF localVars
<1>2. Spent' = Spent \cup {s} /\ IsFiniteSet(Spent')
  <2>1. Spent' = Spent \cup {s}
    BY <1>1 DEF Spent
  <2> QED
    BY <2>1, FS_AddElement
<1>3. TypeOK /\ TypeOK'
  BY CommitKeepsBasic DEF Basic
<1>4. \A q \in Sigs : q # s => Amounts'[q] = Amounts[q]
  BY <1>1 DEF Amounts
<1>5. Amounts'[s] = amount
  BY <1>1 DEF Amounts
<1>6. ASSUME NEW j \in Invoices, j # i
      PROVE  SumRecorded(j)' = SumRecorded(j)
  <2>1. Recorded(j)' = Recorded(j) /\ \A q \in Recorded(j) : q # s
    BY <1>1, <1>6 DEF Recorded
  <2>2. IsFiniteSet(Recorded(j)) /\ Recorded(j) \subseteq Sigs
    BY <1>3, SumsType
  <2> QED
    BY <1>4, <2>1, <2>2, SumAgree DEF SumRecorded
<1>7. SumRecorded(i)' = SumRecorded(i) + amount
  <2>1. Recorded(i)' = Recorded(i) \cup {s} /\ s \notin Recorded(i)
    BY <1>1 DEF Recorded
  <2>2. /\ IsFiniteSet(Recorded(i)) /\ Recorded(i) \subseteq Sigs
        /\ SumRecorded(i) \in Nat
    BY <1>3, SumsType
  <2> DEFINE f == Amounts'
  <2>3. \A q \in Recorded(i) \cup {s} : f[q] \in Nat
    BY <1>3, <2>2 DEF Amounts, TypeOK, Payment
  <2>4. SumFunctionOnSet(f, Recorded(i) \cup {s}) =
          f[s] + SumFunctionOnSet(f, Recorded(i))
    <3> HIDE DEF f
    <3> QED
      BY <2>1, <2>2, <2>3, SumAdd
  <2>5. SumFunctionOnSet(f, Recorded(i)) = SumRecorded(i)
    <3>1. \A q \in Recorded(i) : f[q] = Amounts[q]
      BY <1>4, <2>1, <2>2
    <3> HIDE DEF f
    <3> QED
      BY <2>2, <3>1, SumAgree DEF SumRecorded
  <2> QED
    BY <1>5, <2>1, <2>2, <2>4, <2>5 DEF SumRecorded
<1> QED
  BY <1>2, <1>6, <1>7

LEMMA BalancesInit ==
    ASSUME Init
    PROVE  /\ OvercreditInv /\ ExactInv
           /\ ColumnsKept => BalanceInv
<1>1. Spent = {} /\ \A i \in Invoices : Recorded(i) = {}
  BY DEF Init, Spent, Recorded
<1>2. IsFiniteSet(Spent)
  BY <1>1, FS_EmptySet
<1>3. \A i \in Invoices : SumRecorded(i) = 0 /\ invoices[i].paid = 0
  <2>1. \A i \in Invoices : SumRecorded(i) = 0
    BY <1>1, SumEmpty DEF SumRecorded
  <2> QED
    BY <2>1 DEF Init, Created
<1>4. \A r \in Requests : pc[r] \notin SnapSteps
  BY DEF Init, SnapSteps
<1>5. ASSUME NEW i \in Invoices
      PROVE  invoices[i].total = Total[i] /\ RowAddsUp(invoices[i])
  <2>1. PICK status \in InitialStatuses, payee \in Payees :
          invoices[i] = Created(i, status, payee)
    BY DEF Init
  <2>2. Total[i] \in Nat /\ status # "paid"
    BY SettlementAssumption DEF SettlementAssumption
  <2> QED
    BY <2>1, <2>2 DEF Created, RowAddsUp, Clamped
<1> QED
  BY <1>2, <1>3, <1>4, <1>5
  DEF OvercreditInv, NeverOvercredited, ExactInv, PaidAddsUp, BalanceInv

LEMMA OvercreditStep ==
    ASSUME Basic, LockInv, OvercreditInv, [Next]_vars
    PROVE  OvercreditInv'
<1>0. /\ Basic' /\ OnlyReads
      /\ IsFiniteSet(Spent)
      /\ \A i \in Invoices : invoices[i].paid <= SumRecorded(i)
      /\ \A r \in Requests :
           pc[r] \in SnapSteps => snap[r].paid <= SumRecorded(req[r].inv)
  BY BasicStep, RowsAreRead DEF OvercreditInv, NeverOvercredited
<1>1. \A i \in Invoices : SumRecorded(i) \in Nat /\ invoices[i] \in Invoice
  BY <1>0, SumsType DEF Basic, TypeOK
<1>2. ASSUME IsFiniteSet(Spent'),
             \A i \in Invoices : /\ SumRecorded(i)' \in Nat
                                 /\ SumRecorded(i) <= SumRecorded(i)'
                                 /\ invoices'[i].paid <= SumRecorded(i)'
      PROVE  OvercreditInv'
  <2>1. ASSUME NEW r \in Requests, pc'[r] \in SnapSteps
        PROVE  (snap[r].paid <= SumRecorded(req[r].inv))'
    <3>1. PICK i \in Invoices : i = req'[r].inv
      BY <1>0, <2>1 DEF OnlyReads, Request
    <3>2. snap'[r].paid \in Nat
      BY <1>0, <2>1
      DEF Basic, RequestInv, RequestOK, SnapSteps, Invoice
    <3>3. snap'[r].paid <= SumRecorded(i)
      BY <1>0, <2>1, <3>1 DEF OnlyReads
    <3>4. SumRecorded(i) <= SumRecorded(i)'
      BY <1>2
    <3>5. SumRecorded(i) \in Nat /\ SumRecorded(i)' \in Nat
      BY <1>1, <1>2
    <3>6. snap'[r].paid <= SumRecorded(i)'
      BY <3>2, <3>3, <3>4, <3>5
    <3> QED
      BY <3>1, <3>6
  <2> QED
    BY <1>2, <2>1 DEF OvercreditInv, NeverOvercredited
<1>3. CASE \A r \in Requests : ~CreateCommit(r) /\ ~ConfirmCommit(r)
  <2>1. NothingCredited
    BY <1>3, OnlyCommitsCredit
  <2>2. /\ Spent' = Spent
        /\ \A i \in Invoices : SumRecorded(i)' = SumRecorded(i)
    BY <1>0, <2>1, SumsKept DEF Basic
  <2>3. \A i \in Invoices : invoices'[i].paid = invoices[i].paid
    BY <2>1 DEF NothingCredited
  <2> QED
    BY <1>0, <1>1, <1>2, <2>2, <2>3
<1>4. ASSUME NEW r \in Requests, CreateCommit(r) \/ ConfirmCommit(r)
      PROVE  OvercreditInv'
  <2>1. PICK amount \in Nat, i \in Invoices, s \in Sigs :
          /\ i = req[r].inv /\ s = req[r].sig
          /\ snap[r] \in Invoice /\ pc[r] \in SnapSteps
          /\ payments'[s].amount = amount
          /\ \A j \in Invoices : j # i => invoices'[j] = invoices[j]
          /\ invoices'[i].paid = snap[r].paid + amount
    BY <1>4, CommitWrites
  <2>2. /\ IsFiniteSet(Spent')
        /\ SumRecorded(i)' = SumRecorded(i) + amount
        /\ \A j \in Invoices : j # i => SumRecorded(j)' = SumRecorded(j)
    BY <1>0, <1>4, <2>1, SumsGrow
  <2>3. snap[r].paid <= SumRecorded(i) /\ snap[r].paid \in Nat
    BY <1>0, <2>1 DEF Invoice
  <2>4. ASSUME NEW j \in Invoices
        PROVE  /\ SumRecorded(j)' \in Nat
               /\ SumRecorded(j) <= SumRecorded(j)'
               /\ invoices'[j].paid <= SumRecorded(j)'
    <3>1. CASE j = i
      BY <1>1, <2>1, <2>2, <2>3, <3>1
    <3>2. CASE j # i
      BY <1>0, <1>1, <2>1, <2>2, <3>2 DEF Invoice
    <3> QED
      BY <3>1, <3>2
  <2> QED
    BY <1>2, <2>2, <2>4
<1> QED
  BY <1>3, <1>4

LEMMA ExactStep ==
    ASSUME OnlyRelayed, Basic, LockInv, KindInv, FreshInv, ExactInv, [Next]_vars
    PROVE  ExactInv'
<1>0. /\ IsFiniteSet(Spent)
      /\ \A i \in Invoices : invoices[i].paid = SumRecorded(i)
  BY DEF ExactInv, PaidAddsUp
<1>1. CASE \A r \in Requests : ~CreateCommit(r) /\ ~ConfirmCommit(r)
  <2>1. NothingCredited
    BY <1>1, OnlyCommitsCredit
  <2>2. /\ Spent' = Spent
        /\ \A i \in Invoices : SumRecorded(i)' = SumRecorded(i)
    BY <1>0, <2>1, SumsKept DEF Basic
  <2> QED
    BY <1>0, <2>1, <2>2 DEF NothingCredited, ExactInv, PaidAddsUp
<1>2. ASSUME NEW r \in Requests, CreateCommit(r)
      PROVE  FALSE
  BY <1>2, OnlyRelayedConfirms
<1>3. ASSUME NEW r \in Requests, ConfirmCommit(r)
      PROVE  ExactInv'
  <2>1. PICK amount \in Nat, i \in Invoices, s \in Sigs :
          /\ i = req[r].inv /\ s = req[r].sig
          /\ payments'[s].amount = amount
          /\ \A j \in Invoices : j # i => invoices'[j] = invoices[j]
          /\ invoices'[i].paid = snap[r].paid + amount
    BY <1>3, CommitWrites
  <2>2. /\ IsFiniteSet(Spent')
        /\ SumRecorded(i)' = SumRecorded(i) + amount
        /\ \A j \in Invoices : j # i => SumRecorded(j)' = SumRecorded(j)
    BY <1>0, <1>3, <2>1, SumsGrow
  <2>3. snap[r].paid = SumRecorded(i)
    BY <1>0, <1>3, <2>1 DEF ConfirmCommit, FreshInv, ExclSteps
  <2> QED
    BY <1>0, <2>1, <2>2, <2>3 DEF ExactInv, PaidAddsUp
<1> QED
  BY <1>1, <1>2, <1>3

\* Both ways of computing the columns agree on what is left to pay.
LEMMA ColumnsAddUp ==
    ASSUME NEW inv \in Invoice, RowAddsUp(inv), NEW a \in Nat,
           NEW columns \in {AfterPayment(inv, a), AfterConfirmation(inv, a)}
    PROVE  /\ columns.remaining = Clamped(inv.total - columns.paid)
           /\ columns.status = "paid" => columns.remaining = 0
<1>1. CASE columns = AfterPayment(inv, a)
  BY <1>1 DEF AfterPayment, RowAddsUp, Clamped, Invoice
<1>2. CASE columns = AfterConfirmation(inv, a)
  BY <1>2 DEF AfterConfirmation, RowAddsUp, Clamped, Invoice
<1> QED
  BY <1>1, <1>2

LEMMA BalanceStep ==
    ASSUME ColumnsKept, Basic, LockInv, BalanceInv, [Next]_vars
    PROVE  BalanceInv'
<1>0. OnlyReads
  BY RowsAreRead
<1>1. ASSUME \A i \in Invoices :
               invoices'[i].total = Total[i] /\ RowAddsUp(invoices'[i])
      PROVE  BalanceInv'
  <2>1. ASSUME NEW r \in Requests, pc'[r] \in SnapSteps
        PROVE  snap'[r].total = Total[req'[r].inv] /\ RowAddsUp(snap'[r])
    <3>1. req'[r].inv \in Invoices
      BY <1>0, <2>1 DEF OnlyReads, Request
    <3> QED
      BY <1>0, <2>1, <3>1 DEF OnlyReads, BalanceInv
  <2> QED
    BY <1>1, <2>1 DEF BalanceInv, RowAddsUp
<1>2. CASE \A r \in Requests : ~CreateCommit(r) /\ ~ConfirmCommit(r)
  <2>1. NothingCredited
    BY <1>2, OnlyCommitsCredit
  <2>2. ASSUME NEW i \in Invoices
        PROVE  invoices'[i].total = Total[i] /\ RowAddsUp(invoices'[i])
    BY <2>1 DEF NothingCredited, ColumnsKept, BalanceInv, RowAddsUp
  <2> QED
    BY <1>1, <2>2
<1>3. ASSUME NEW r \in Requests, CreateCommit(r) \/ ConfirmCommit(r)
      PROVE  BalanceInv'
  <2>1. PICK amount \in Nat, i \in Invoices :
          /\ i = req[r].inv
          /\ snap[r] \in Invoice /\ pc[r] \in SnapSteps
          /\ \A j \in Invoices : j # i => invoices'[j] = invoices[j]
          /\ \E columns \in {AfterPayment(snap[r], amount),
                             AfterConfirmation(snap[r], amount)} :
               /\ invoices'[i].paid = columns.paid
               /\ invoices'[i].remaining = columns.remaining
               /\ invoices'[i].status = columns.status
               /\ invoices'[i].total = invoices[i].total
    BY <1>3, CommitWrites
  <2>2. snap[r].total = Total[i] /\ RowAddsUp(snap[r])
    BY <2>1 DEF BalanceInv
  <2>3. RowAddsUp(invoices'[i]) /\ invoices'[i].total = Total[i]
    BY <2>1, <2>2, ColumnsAddUp DEF RowAddsUp, BalanceInv
  <2>4. \A j \in Invoices :
          invoices'[j].total = Total[j] /\ RowAddsUp(invoices'[j])
    BY <2>1, <2>3 DEF BalanceInv
  <2> QED
    BY <1>1, <2>4
<1> QED
  BY <1>2, <1>3

\* No more rows are active than ever were at once.
RowsInv == \A i \in Invoices : listing[i].active <= listing[i].most

\* What a step does to the rows of the listings: a row becomes active only by
\* ListInsert, whose request then has to write the status, or has failed to.
OnlyListed ==
    /\ halfDone \subseteq halfDone'
    /\ \A q \in Requests :
         pc[q] # "idle" => pc'[q] # "idle" /\ req'[q] = req[q]
    /\ \A q \in Requests :
         pc[q] = "listWrite" =>
           pc'[q] = "listWrite" \/ q \in halfDone' \/ ListWrite(q)
    /\ \A i \in Invoices :
         \/ /\ listing'[i].active <= listing[i].active
            /\ listing'[i].most = listing[i].most
         \/ /\ listing'[i].active <= listing'[i].most
            /\ \E q \in Requests : /\ pc'[q] = "listWrite"
                                  /\ req'[q].kind = "list"
                                  /\ req'[q].inv = i

LEMMA RowsAreListed ==
    ASSUME Basic, [Next]_vars
    PROVE  OnlyListed
<1> USE DEF Basic, TypeOK, RequestInv, RequestOK, Rows, rowVars, lockVars,
            outsideVars, localVars
<1>1. ASSUME NEW s \in Sigs, PayDirectly(s) PROVE OnlyListed
  BY <1>1 DEF PayDirectly, OnlyListed
<1>2. ASSUME NEW s \in Sigs, SignForRelay(s) PROVE OnlyListed
  BY <1>2 DEF SignForRelay, OnlyListed
<1>3. ASSUME NEW s \in Sigs, ChainSettles(s) PROVE OnlyListed
  BY <1>3 DEF ChainSettles, OnlyListed
<1>4. ASSUME NEW r \in Requests, DirectReceive(r) PROVE OnlyListed
  BY <1>4 DEF DirectReceive, Arrive, Goto, OnlyListed
<1>5. ASSUME NEW r \in Requests, ManualReceive(r) PROVE OnlyListed
  BY <1>5 DEF ManualReceive, Arrive, Goto, OnlyListed
<1>6. ASSUME NEW r \in Requests, RelayReceive(r) PROVE OnlyListed
  BY <1>6 DEF RelayReceive, Arrive, Goto, OnlyListed
<1>7. ASSUME NEW r \in Requests, PatchReceive(r) PROVE OnlyListed
  BY <1>7 DEF PatchReceive, Arrive, Goto, OnlyListed
<1>8. ASSUME NEW r \in Requests, DeleteReceive(r) PROVE OnlyListed
  BY <1>8 DEF DeleteReceive, Arrive, Goto, OnlyListed
<1>9. ASSUME NEW r \in Requests, DirectVerify(r) PROVE OnlyListed
  BY <1>9 DEF DirectVerify, Goto, Finish, OnlyListed
<1>10. ASSUME NEW r \in Requests, DirectReplay(r) PROVE OnlyListed
  BY <1>10 DEF DirectReplay, Goto, Finish, OnlyListed
<1>11. ASSUME NEW r \in Requests, CreateCheck(r) PROVE OnlyListed
  BY <1>11 DEF CreateCheck, Goto, Finish, OnlyListed
<1>12. ASSUME NEW r \in Requests, CreateInsert(r) PROVE OnlyListed
  BY <1>12 DEF CreateInsert, EnterIndex, Goto, Finish, Rollback, OnlyListed
<1>13. ASSUME NEW r \in Requests, CreateKeyShare(r) PROVE OnlyListed
  BY <1>13 DEF CreateKeyShare, Goto, Finish, Rollback, OnlyListed
<1>14. ASSUME NEW r \in Requests, CreateRead(r) PROVE OnlyListed
  BY <1>14 DEF CreateRead, Goto, Read, OnlyListed
<1>15. ASSUME NEW r \in Requests, CreateCommit(r) PROVE OnlyListed
  BY <1>15 DEF CreateCommit, Record, Goto, OnlyListed
<1>16. ASSUME NEW r \in Requests, Notify(r) PROVE OnlyListed
  BY <1>16 DEF Notify, Goto, OnlyListed
<1>17. ASSUME NEW r \in Requests, Receipt(r) PROVE OnlyListed
  BY <1>17 DEF Receipt, Goto, Finish, OnlyListed
<1>18. ASSUME NEW r \in Requests, Flag(r) PROVE OnlyListed
  BY <1>18 DEF Flag, Goto, Finish, OnlyListed
<1>19. ASSUME NEW r \in Requests, RelaySend(r) PROVE OnlyListed
  BY <1>19 DEF RelaySend, Goto, Finish, OnlyListed
<1>20. ASSUME NEW r \in Requests, ConfirmReplay(r) PROVE OnlyListed
  BY <1>20 DEF ConfirmReplay, Goto, Finish, OnlyListed
<1>21. ASSUME NEW r \in Requests, ConfirmWait(r) PROVE OnlyListed
  BY <1>21 DEF ConfirmWait, Goto, Finish, OnlyListed
<1>22. ASSUME NEW r \in Requests, ConfirmRead(r) PROVE OnlyListed
  BY <1>22 DEF ConfirmRead, Goto, Finish, Read, OnlyListed
<1>23. ASSUME NEW r \in Requests, ConfirmVerify(r) PROVE OnlyListed
  BY <1>23 DEF ConfirmVerify, Goto, Finish, OnlyListed
<1>24. ASSUME NEW r \in Requests, ConfirmCheck(r) PROVE OnlyListed
  BY <1>24 DEF ConfirmCheck, Goto, OnlyListed
<1>25. ASSUME NEW r \in Requests, ConfirmLock(r) PROVE OnlyListed
  BY <1>25 DEF ConfirmLock, ForUpdate, Goto, Finish, Read, OnlyListed
<1>26. ASSUME NEW r \in Requests, ConfirmInsert(r) PROVE OnlyListed
  BY <1>26 DEF ConfirmInsert, EnterIndex, Goto, Finish, Rollback, OnlyListed
<1>27. ASSUME NEW r \in Requests, ConfirmCommit(r) PROVE OnlyListed
  <2>1. req[r].inv \in Invoices
    BY <1>27 DEF ConfirmCommit, Request
  <2>2. \A i \in Invoices : /\ listing'[i].active <= listing[i].active
                            /\ listing'[i].most = listing[i].most
    BY <1>27, <2>1 DEF ConfirmCommit, CancelListing
  <2> QED
    BY <1>27, <2>2 DEF ConfirmCommit, Goto, OnlyListed
<1>28. ASSUME NEW r \in Requests, ConfirmNotify(r) PROVE OnlyListed
  BY <1>28 DEF ConfirmNotify, Goto, OnlyListed
<1>29. ASSUME NEW r \in Requests, ConfirmReceipt(r) PROVE OnlyListed
  BY <1>29 DEF ConfirmReceipt, Goto, Finish, OnlyListed
<1>30. ASSUME NEW r \in Requests, PatchWrite(r) PROVE OnlyListed
  BY <1>30 DEF PatchWrite, Goto, Finish, OnlyListed
<1>31. ASSUME NEW r \in Requests, CancelWrite(r) PROVE OnlyListed
  BY <1>31 DEF CancelWrite, Goto, Finish, OnlyListed
<1>32. ASSUME NEW r \in Requests, DeleteCheck(r) PROVE OnlyListed
  BY <1>32 DEF DeleteCheck, Goto, Finish, OnlyListed
<1>33. ASSUME NEW r \in Requests, DeleteRow(r) PROVE OnlyListed
  BY <1>33 DEF DeleteRow, Goto, Finish, OnlyListed
<1>34. ASSUME NEW r \in Requests, DeadlockVictim(r) PROVE OnlyListed
  BY <1>34, VictimWaits DEF Rollback, Goto, Finish, OnlyListed
<1>35. CASE Crash
  BY <1>35 DEF Crash, Fault, CommittedBefore, Finished, OnlyListed
<1>36. CASE UNCHANGED vars
  BY <1>36 DEF vars, OnlyListed
<1>37. ASSUME NEW i \in Invoices, SellListing(i) PROVE OnlyListed
  <2>1. \A j \in Invoices : /\ listing'[j].active <= listing[j].active
                            /\ listing'[j].most = listing[j].most
    BY <1>37 DEF SellListing
  <2> QED
    BY <1>37, <2>1 DEF SellListing, OnlyListed
<1>38. ASSUME NEW i \in Invoices, RouteToBuyer(i) PROVE OnlyListed
  BY <1>38 DEF RouteToBuyer, OnlyListed
<1>39. ASSUME NEW r \in Requests, ListReceive(r) PROVE OnlyListed
  BY <1>39 DEF ListReceive, Arrive, Goto, OnlyListed
<1>40. ASSUME NEW r \in Requests, ListCheck(r) PROVE OnlyListed
  BY <1>40 DEF ListCheck, Goto, Finish, OnlyListed
<1>41. ASSUME NEW r \in Requests, ListInsert(r) PROVE OnlyListed
  <2>1. /\ pc[r] = "listInsert" /\ req' = req
        /\ req[r].inv \in Invoices /\ req[r].kind = "list"
        /\ UNCHANGED halfDone
        /\ \/ pc' = [pc EXCEPT ![r] = "rejected"] /\ UNCHANGED listing
           \/ /\ pc' = [pc EXCEPT ![r] = "listWrite"]
              /\ \E n \in Nat :
                   /\ n > listing[req[r].inv].active
                   /\ n >= listing[req[r].inv].most
                   /\ listing' = [listing EXCEPT ![req[r].inv].active = @ + 1,
                                                ![req[r].inv].most = n]
    <3> DEFINE n == IF listing[req[r].inv].most > listing[req[r].inv].active
                    THEN listing[req[r].inv].most
                    ELSE listing[req[r].inv].active + 1
    <3>1. /\ pc[r] = "listInsert" /\ req' = req
          /\ req[r].inv \in Invoices /\ req[r].kind = "list"
          /\ UNCHANGED halfDone
      BY <1>41 DEF ListInsert, Finish, Request, ListSteps
    <3>2. /\ n \in Nat
          /\ n > listing[req[r].inv].active
          /\ n >= listing[req[r].inv].most
      BY <3>1
    <3>3. \/ pc' = [pc EXCEPT ![r] = "rejected"] /\ UNCHANGED listing
          \/ /\ pc' = [pc EXCEPT ![r] = "listWrite"]
             /\ listing' = [listing EXCEPT ![req[r].inv].active = @ + 1,
                                          ![req[r].inv].most = n]
      BY <1>41, Zenon DEF ListInsert, Goto, Finish
    <3> HIDE DEF n
    <3> QED
      BY <3>1, <3>2, <3>3
  <2>2. CASE UNCHANGED listing /\ pc' = [pc EXCEPT ![r] = "rejected"]
    BY <2>1, <2>2 DEF OnlyListed
  <2>3. CASE UNCHANGED listing /\ pc' = [pc EXCEPT ![r] = "listWrite"]
    BY <2>1, <2>3 DEF OnlyListed
  <2>4. CASE /\ pc' = [pc EXCEPT ![r] = "listWrite"]
             /\ \E n \in Nat :
                  /\ n > listing[req[r].inv].active
                  /\ n >= listing[req[r].inv].most
                  /\ listing' = [listing EXCEPT ![req[r].inv].active = @ + 1,
                                               ![req[r].inv].most = n]
    <3>1. \A i \in Invoices :
            \/ i # req[r].inv /\ listing'[i] = listing[i]
            \/ /\ i = req[r].inv
               /\ listing'[i].active <= listing'[i].most
               /\ listing'[i].most >= listing[i].most
      BY <2>1, <2>4
    <3>2. /\ pc'[r] = "listWrite"
          /\ req'[r].kind = "list"
          /\ \A q \in Requests : q # r => pc'[q] = pc[q]
      BY <2>1, <2>4
    <3>3. \A i \in Invoices :
            \/ /\ listing'[i].active <= listing[i].active
               /\ listing'[i].most = listing[i].most
            \/ /\ listing'[i].active <= listing'[i].most
               /\ \E q \in Requests : /\ pc'[q] = "listWrite"
                                     /\ req'[q].kind = "list"
                                     /\ req'[q].inv = i
      <4>1. ASSUME NEW i \in Invoices, i # req[r].inv
            PROVE  /\ listing'[i].active <= listing[i].active
                   /\ listing'[i].most = listing[i].most
        BY <2>1, <3>1, <4>1
      <4>2. /\ listing'[req[r].inv].active <= listing'[req[r].inv].most
            /\ req'[r].inv = req[r].inv
        BY <2>1, <3>1
      <4> QED
        BY <2>1, <3>2, <4>1, <4>2, Zenon
    <3>4. /\ halfDone \subseteq halfDone'
          /\ \A q \in Requests :
               pc[q] # "idle" => pc'[q] # "idle" /\ req'[q] = req[q]
          /\ \A q \in Requests : pc[q] = "listWrite" => pc'[q] = "listWrite"
      BY <2>1, <3>2
    <3> QED
      BY <3>3, <3>4, Zenon DEF OnlyListed
  <2> QED
    BY <2>1, <2>2, <2>3, <2>4
<1>42. ASSUME NEW r \in Requests, ListWrite(r) PROVE OnlyListed
  <2>1. /\ pc[r] = "listWrite" /\ pc' = [pc EXCEPT ![r] = "done"]
        /\ UNCHANGED <<req, listing, halfDone>>
    BY <1>42 DEF ListWrite, Goto, Finish
  <2>2. \A q \in Requests :
          pc[q] = "listWrite" => pc'[q] = "listWrite" \/ ListWrite(q)
    BY <1>42, <2>1
  <2> QED
    BY <2>1, <2>2 DEF OnlyListed
<1>43. ASSUME NEW r \in Requests, StatementFails(r) PROVE OnlyListed
  BY <1>43
  DEF StatementFails, Fault, CommittedBefore, Goto, Finish, Release, Finished,
      OnlyListed
<1> QED
  BY <1>1, <1>2, <1>3, <1>4, <1>5, <1>6, <1>7, <1>8, <1>9, <1>10, <1>11, <1>12,
     <1>13, <1>14, <1>15, <1>16, <1>17, <1>18, <1>19, <1>20, <1>21, <1>22,
     <1>23, <1>24, <1>25, <1>26, <1>27, <1>28, <1>29, <1>30, <1>31, <1>32,
     <1>33, <1>34, <1>35, <1>36, <1>37, <1>38, <1>39, <1>40, <1>41,
     <1>42, <1>43
  DEF Next, Receive, Step

\* A listing is active while its invoice has been settled only where POST /list
\* has put it there since, or a second row.
LEMMA DelistedStep ==
    ASSUME OnlyRelayed, "paid" \notin PatchStatuses, Basic, KindInv,
           RowsInv, PaidIsDelisted, [Next]_vars
    PROVE  RowsInv' /\ PaidIsDelisted'
<1>0. OnlyListed /\ Basic'
  BY RowsAreListed, BasicStep
<1>1. RowsInv'
  BY <1>0 DEF OnlyListed, RowsInv, Basic, TypeOK, Rows
<1>2. ASSUME NEW i \in Invoices, Overtaken(i),
             \A q \in Requests : ListWrite(q) => req[q].inv # i
      PROVE  Overtaken(i)'
  BY <1>0, <1>2 DEF OnlyListed, Overtaken
<1>3. ASSUME NEW i \in Invoices, invoices[i].status = "paid",
             invoices'[i].status = "paid", listing'[i].active > 0,
             ~(listing'[i].most > 1)
      PROVE  Overtaken(i)'
  <2>1. \A q \in Requests : ListWrite(q) => req[q].inv # i
    BY <1>3 DEF ListWrite, Basic, TypeOK, Invoice
  <2>2. CASE \E q \in Requests : /\ pc'[q] = "listWrite"
                                 /\ req'[q].kind = "list"
                                 /\ req'[q].inv = i
    BY <2>2 DEF Overtaken
  <2>3. CASE /\ listing'[i].active <= listing[i].active
             /\ listing'[i].most = listing[i].most
    <3>1. listing[i].active > 0 /\ ~(listing[i].most > 1)
      BY <1>0, <1>3, <2>3 DEF Basic, TypeOK, Rows
    <3>2. Overtaken(i)
      BY <1>3, <3>1 DEF PaidIsDelisted
    <3> QED
      BY <1>2, <2>1, <3>2
  <2> QED
    BY <1>0, <2>2, <2>3 DEF OnlyListed
<1>4. CASE \A r \in Requests : ~CreateCommit(r) /\ ~ConfirmCommit(r)
  <2>1. NothingCredited
    BY <1>4, OnlyCommitsCredit
  <2>2. \A i \in Invoices :
          invoices'[i].status = "paid" => invoices[i].status = "paid"
    BY <2>1 DEF NothingCredited
  <2> QED
    BY <1>1, <1>3, <2>2 DEF PaidIsDelisted
<1>5. ASSUME NEW r \in Requests, CreateCommit(r)
      PROVE  FALSE
  BY <1>5, OnlyRelayedConfirms
<1>6. ASSUME NEW r \in Requests, ConfirmCommit(r)
      PROVE  PaidIsDelisted'
  <2>1. \A j \in Invoices : j # req[r].inv => invoices'[j] = invoices[j]
    BY <1>6 DEF ConfirmCommit, Record
  <2>2. req[r].inv \in Invoices
    BY <1>6, CommitRecords DEF Request
  <2>3. ~(listing'[req[r].inv].most > 1) => ~(listing'[req[r].inv].active > 0)
    BY <1>6, <2>2 DEF ConfirmCommit, CancelListing, RowsInv, Basic, TypeOK, Rows
  <2>4. \A j \in Invoices :
          /\ invoices'[j].status = "paid" /\ listing'[j].active > 0
          /\ ~(listing'[j].most > 1)
          => invoices[j].status = "paid"
    BY <2>1, <2>3
  <2> QED
    BY <1>3, <2>4 DEF PaidIsDelisted
<1> QED
  BY <1>1, <1>4, <1>5, <1>6

-----------------------------------------------------------------------------
(* Deadlocks.                                                               *)

\* Who waits for a request waits for a lock it holds.
LEMMA WaitsForHolder ==
    ASSUME Basic, LockInv, NEW r \in Requests, NEW q \in Requests,
           WaitsFor(r) = q
    PROVE  \/ /\ pc[r] \in {"createInsert", "confirmInsert"}
              /\ pc[q] \in ClaimSteps /\ req[q].sig = req[r].sig
           \/ pc[r] = "createKeyShare" /\ pc[q] \in ExclSteps
<1>1. q # NoRequest
  BY SettlementAssumption DEF SettlementAssumption
<1>2. CASE pc[r] \in {"createInsert", "confirmInsert"}
  <2>1. req[r].sig \in Sigs
    BY <1>2
    DEF Basic, RequestInv, RequestOK, CreateSteps, ConfirmSteps, Request
  <2> QED
    BY <1>2, <2>1 DEF WaitsFor, LockInv, ClaimInv
<1>3. CASE pc[r] = "createKeyShare"
  <2>1. req[r].inv \in Invoices
    BY <1>3 DEF Basic, RequestInv, RequestOK, Request
  <2> QED
    BY <1>3, <2>1 DEF WaitsFor, LockInv, ExclInv
<1> QED
  BY <1>1, <1>2, <1>3 DEF WaitsFor

LEMMA CyclesAreMixed ==
    ASSUME Basic, LockInv
    PROVE  DeadlocksAreMixed
<1> SUFFICES ASSUME NEW cycle \in SUBSET Requests, cycle # {},
                    \A q \in cycle : WaitsFor(q) \in cycle
             PROVE  \E p, q \in cycle : /\ pc[p] = "createKeyShare"
                                        /\ pc[q] = "confirmInsert"
                                        /\ req[p].sig = req[q].sig
  BY DEF DeadlocksAreMixed
<1>1. ASSUME NEW r \in cycle
      PROVE  /\ WaitsFor(r) \in cycle
             /\ \/ /\ pc[r] \in {"createInsert", "confirmInsert"}
                   /\ pc[WaitsFor(r)] \in ClaimSteps
                   /\ req[WaitsFor(r)].sig = req[r].sig
                \/ pc[r] = "createKeyShare" /\ pc[WaitsFor(r)] \in ExclSteps
  BY WaitsForHolder
<1>2. ASSUME NEW r \in cycle, pc[r] \in {"createInsert", "confirmInsert"}
      PROVE  pc[WaitsFor(r)] = "createKeyShare"
  BY <1>1, <1>2 DEF ClaimSteps
<1>3. ASSUME NEW r \in cycle, pc[r] = "createKeyShare"
      PROVE  pc[WaitsFor(r)] = "confirmInsert"
  BY <1>1, <1>3 DEF ExclSteps
<1>4. PICK r \in cycle : pc[r] = "createKeyShare"
  BY <1>1, <1>2
<1>5. PICK q \in cycle : q = WaitsFor(r) /\ pc[q] = "confirmInsert"
  BY <1>1, <1>3, <1>4
<1>6. PICK p \in cycle : p = WaitsFor(q) /\ pc[p] = "createKeyShare"
  BY <1>1, <1>2, <1>5
<1>7. req[p].sig = req[q].sig
  BY <1>1, <1>5, <1>6
<1> QED
  BY <1>5, <1>6, <1>7

-----------------------------------------------------------------------------
(* Theorems.                                                                *)

LEMMA SettlementInductive ==
    /\ Init => SettlementInv
    /\ SettlementInv /\ [Next]_vars => SettlementInv'
<1>1. Init => SettlementInv
  BY BasicInit, LockInit, VerifiedInit, CreditInit, ReceiptInit
  DEF SettlementInv, Basic
<1>2. ASSUME SettlementInv, [Next]_vars
      PROVE  SettlementInv'
  <2>1. /\ Basic /\ LockInv /\ VerifiedInv /\ PaymentBacked /\ CreditInv
        /\ ReceiptInv /\ AnnouncedIsRecorded
    BY <1>2 DEF SettlementInv, Basic
  <2>2. /\ Basic' /\ LockInv' /\ VerifiedInv' /\ PaymentBacked' /\ CreditInv'
        /\ ReceiptInv' /\ AnnouncedIsRecorded'
    BY <1>2, <2>1, BasicStep, LockStep, VerifiedStep, CreditStep, ReceiptStep
  <2> QED
    BY <2>2 DEF SettlementInv, Basic
<1> QED
  BY <1>1, <1>2

\* Every variable keeps its type: the columns of the tables stay in range (no
\* handler makes a balance negative or a status out of the enum).
THEOREM TypeCorrect == Spec => []TypeOK
<1>1. Init => Basic
  BY BasicInit
<1>2. Basic /\ [Next]_vars => Basic'
  BY BasicStep
<1>3. Basic => TypeOK
  BY DEF Basic
<1> QED
  BY <1>1, <1>2, <1>3, PTL DEF Spec

\* The inductive invariant of the payment handlers holds, whatever requests
\* interleave and wherever the server crashes.
THEOREM SettlementSafe == Spec => []SettlementInv
  BY SettlementInductive, PTL DEF Spec

\* A transaction signature is credited to one invoice at most, by one request,
\* for what its payments row says (createPayment and
\* confirmPaymentAndMintOutcome).
THEOREM CreditedAtMostOnce == Spec => []CreditedOnce
<1>1. SettlementInv => CreditedOnce
  BY DEF SettlementInv, CreditInv
<1> QED
  BY <1>1, SettlementSafe, PTL

\* A payment recorded as made on chain is backed by a confirmed transaction of
\* the invoicee to the payee, of the amount recorded (verifyStablecoinPayment).
THEOREM PaymentsAreBacked == Spec => []PaymentBacked
<1>1. SettlementInv => PaymentBacked
  BY DEF SettlementInv
<1> QED
  BY <1>1, SettlementSafe, PTL

\* No payment gets two receipt NFTs, or is flagged without one
\* (mintPaymentReceiptNFT and its callers).
THEOREM ReceiptsAreUnique == Spec => []ReceiptOnce
<1>1. SettlementInv => ReceiptOnce
  BY DEF SettlementInv, ReceiptInv
<1> QED
  BY <1>1, SettlementSafe, PTL

\* A request that is answered with an error has credited nothing, unless it
\* failed between COMMIT and the event (getInvoice and the import that follow
\* createPayment), and then what it credited has not been announced.
THEOREM ErrorsAreBeforeTheEvent == Spec => []CreditedDespiteError
<1>1. SettlementInv => CreditedDespiteError
  BY DEF SettlementInv, CreditInv, CommittedSteps, CreditedDespiteError
<1> QED
  BY <1>1, SettlementSafe, PTL

\* Every payment event that goes out is about a recorded payment.
THEOREM AnnouncementsAreTrue == Spec => []AnnouncedIsRecorded
<1>1. SettlementInv => AnnouncedIsRecorded
  BY DEF SettlementInv
<1> QED
  BY <1>1, SettlementSafe, PTL

\* Where every payment goes through the relay, its transactions implement the
\* ledger: no update of a balance is lost (SELECT ... FOR UPDATE).
THEOREM RelayImplementsLedger ==
    ASSUME OnlyRelayed
    PROVE  Spec => LedgerSpec
<1> DEFINE Inv == Basic /\ LockInv /\ KindInv /\ FreshInv
<1>1. Init => Inv
  BY BasicInit, LockInit, FreshInit
<1>2. Inv /\ [Next]_vars => Inv'
  BY BasicStep, LockStep, KindStep, FreshStep
<1>3. Init => Ledger!LedgerInit
  BY LedgerInitially
<1>4. Inv /\ [Next]_vars => [Ledger!LedgerNext]_(Ledger!ledgerVars)
  BY LedgerStep
<1> HIDE DEF Inv
<1> QED
  BY <1>1, <1>2, <1>3, <1>4, PTL DEF Spec, LedgerSpec, Ledger!LedgerSpec

\* However the requests interleave, no invoice counts as paid more than what
\* was recorded for it: what is lost is lost to the invoicer, never invented.
THEOREM NothingOvercredited == Spec => []NeverOvercredited
<1> DEFINE Inv == Basic /\ LockInv /\ OvercreditInv
<1>1. Init => Inv
  BY BasicInit, LockInit, BalancesInit
<1>2. Inv /\ [Next]_vars => Inv'
  BY BasicStep, LockStep, OvercreditStep
<1>3. Inv => NeverOvercredited
  BY DEF OvercreditInv
<1> HIDE DEF Inv
<1> QED
  BY <1>1, <1>2, <1>3, PTL DEF Spec

\* Where every payment goes through the relay, balances are the sums of the
\* payments (what two requests to POST /api/payments at once can break).
THEOREM RelayedPaymentsAddUp ==
    ASSUME OnlyRelayed
    PROVE  Spec => []PaidAddsUp
<1> DEFINE Inv == Basic /\ LockInv /\ KindInv /\ FreshInv /\ ExactInv
<1>1. Init => Inv
  BY BasicInit, LockInit, FreshInit, BalancesInit
<1>2. Inv /\ [Next]_vars => Inv'
  BY BasicStep, LockStep, KindStep, FreshStep, ExactStep
<1>3. Inv => PaidAddsUp
  BY DEF ExactInv
<1> HIDE DEF Inv
<1> QED
  BY <1>1, <1>2, <1>3, PTL DEF Spec

\* As long as no PATCH sets a total or the status "paid", the columns of an
\* invoice agree with each other, lost updates and all: createPayment and
\* confirmPaymentAndMintOutcome compute them differently.
THEOREM ColumnsAgree ==
    ASSUME ColumnsKept
    PROVE  Spec => []BalanceAddsUp
<1> DEFINE Inv == Basic /\ LockInv /\ BalanceInv
<1>1. Init => Inv
  BY BasicInit, LockInit, BalancesInit
<1>2. Inv /\ [Next]_vars => Inv'
  BY BasicStep, LockStep, BalanceStep
<1>3. Inv => BalanceAddsUp
  BY DEF BalanceInv, BalanceAddsUp, RowAddsUp
<1> HIDE DEF Inv
<1> QED
  BY <1>1, <1>2, <1>3, PTL DEF Spec

\* As long as no PATCH sets a total or the status "paid", an invoice is paid only
\* if the payments recorded for it cover its total: its columns agree, and its
\* balance is not more than those payments.
THEOREM PaidInvoicesAreCovered ==
    ASSUME ColumnsKept
    PROVE  Spec => []PaidIsCovered
<1> DEFINE Inv == Basic /\ LockInv /\ OvercreditInv /\ BalanceInv
<1>1. Init => Inv
  BY BasicInit, LockInit, BalancesInit
<1>2. Inv /\ [Next]_vars => Inv'
  BY BasicStep, LockStep, OvercreditStep, BalanceStep
<1>3. Inv => PaidIsCovered
  <2> SUFFICES ASSUME Inv, NEW i \in Invoices, invoices[i].status = "paid"
               PROVE  SumRecorded(i) >= invoices[i].total
    BY DEF PaidIsCovered
  <2>1. /\ invoices[i].total \in Nat /\ invoices[i].paid \in Nat
        /\ SumRecorded(i) \in Nat
    BY SumsType DEF Basic, TypeOK, Invoice, OvercreditInv
  <2>2. Clamped(invoices[i].total - invoices[i].paid) = 0
    BY DEF BalanceInv, RowAddsUp
  <2>3. invoices[i].total <= invoices[i].paid
    BY <2>1, <2>2 DEF Clamped
  <2>4. invoices[i].paid <= SumRecorded(i)
    BY DEF OvercreditInv, NeverOvercredited
  <2> QED
    BY <2>1, <2>3, <2>4
<1> HIDE DEF Inv
<1> QED
  BY <1>1, <1>2, <1>3, PTL DEF Spec

\* Where every payment goes through the relay and no PATCH sets "paid", an
\* invoice that has been paid is for sale only if POST /list read it before, and
\* inserted its row after, the relay's COMMIT, or had been listed twice at once.
THEOREM PaidInvoicesAreDelisted ==
    ASSUME OnlyRelayed, "paid" \notin PatchStatuses
    PROVE  Spec => []PaidIsDelisted
<1> DEFINE Inv == Basic /\ KindInv /\ RowsInv /\ PaidIsDelisted
<1>1. Init => Inv
  <2>1. ASSUME Init
        PROVE  PaidIsDelisted /\ RowsInv
    <3>1. \A i \in Invoices : invoices[i].status # "paid"
      BY <2>1, SettlementAssumption DEF Init, Created, SettlementAssumption
    <3>2. \A i \in Invoices : listing[i].active <= listing[i].most
      BY <2>1 DEF Init, OneActive, NoRows
    <3> QED
      BY <3>1, <3>2 DEF PaidIsDelisted, RowsInv
  <2> QED
    BY <2>1, BasicInit, FreshInit
<1>2. Inv /\ [Next]_vars => Inv'
  BY BasicStep, KindStep, DelistedStep
<1>3. Inv => PaidIsDelisted
  OBVIOUS
<1> HIDE DEF Inv
<1> QED
  BY <1>1, <1>2, <1>3, PTL DEF Spec

\* A cycle of waiting transactions has one of POST /api/payments and one of the
\* relay in it that record the same signature: which locks each takes, and in
\* which order, admits no other deadlock.
THEOREM OnlyMixedDeadlocks == Spec => []DeadlocksAreMixed
<1>1. SettlementInv => DeadlocksAreMixed
  BY CyclesAreMixed DEF SettlementInv, Basic
<1> QED
  BY <1>1, SettlementSafe, PTL

\* So nobody is ever a victim of the deadlock detector where all payments come
\* by one of the two ways.
THEOREM OneWayNeverDeadlocks ==
    ASSUME OnlyRelayed \/ "relay" \notin Endpoints
    PROVE  Spec => [][\A r \in Requests : ~DeadlockVictim(r)]_vars
<1> DEFINE Inv == Basic /\ LockInv /\ KindInv
<1>1. Init => Inv
  BY BasicInit, LockInit, FreshInit
<1>2. Inv /\ [Next]_vars => Inv'
  BY BasicStep, LockStep, KindStep
<1>3. Inv /\ [Next]_vars => [\A r \in Requests : ~DeadlockVictim(r)]_vars
  <2> SUFFICES ASSUME Inv, NEW r \in Requests, DeadlockVictim(r) PROVE FALSE
    OBVIOUS
  <2>1. PICK p \in Requests, q \in Requests :
          pc[p] = "createKeyShare" /\ pc[q] = "confirmInsert"
    BY CyclesAreMixed DEF DeadlockVictim, DeadlocksAreMixed
  <2> QED
    BY <2>1
    DEF Basic, RequestInv, RequestOK, CreateSteps, ConfirmSteps, KindInv,
        OnlyRelayed
<1> HIDE DEF Inv
<1> QED
  BY <1>1, <1>2, <1>3, PTL DEF Spec
=============================================================================
