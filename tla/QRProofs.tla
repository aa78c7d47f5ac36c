------------------------------ MODULE QRProofs ------------------------------
(***************************************************************************)
(* Proofs about QRPayments: that QRInv and BalanceInv are invariants, for  *)
(* any number of invoices, payments and overlapping passes, any limit and  *)
(* window, and any number of crashes, failed calls and other requests.     *)
(***************************************************************************)
EXTENDS QRPayments, SequenceTheorems, TLAPS

\* What QRInv asks of a pass at a, as long as it distributes nothing.
Fine(a) ==
    /\ a.at # "idle" => \A j \in a.todo : a.row[j] \in Row
    /\ a.at \in {"look", "verify"} \cup DistributeSteps =>
         a.inv \in Invoices /\ a.row[a.inv] \in Row
    /\ a.at \in {"verify"} \cup DistributeSteps =>
         a.sig \in Sigs /\ chain[a.sig] # NoTx
    /\ \A k \in 1..Len(a.list) : chain[a.list[k]] # NoTx
    /\ \A k \in 1..Len(a.rest) : chain[a.rest[k]] # NoTx

\* A pass that does nothing.
LEMMA IdleFine == Idle \in Pass /\ Fine(Idle) /\ Idle.at = "idle"
<1>1. /\ <<>> \in Seq(Sigs)
      /\ Len(<<>>) = 0
    BY EmptySeq
<1>2. Idle \in Pass
    BY <1>1 DEF Idle, Pass
<1>3. Idle.at = "idle" /\ Idle.list = <<>> /\ Idle.rest = <<>>
    BY DEF Idle
<1>4. \A k \in 1..Len(<<>>) : FALSE
    BY <1>1
<1>5. \A k \in 1..Len(<<>>) : chain[<<>>[k]] # NoTx
    BY <1>4
<1> QED
    BY <1>2, <1>3, <1>5 DEF Fine, DistributeSteps

\* Where a pass is, it is fine.
LEMMA PassFine ==
    ASSUME QRInv, NEW p \in Passes
    PROVE  pass[p] \in Pass /\ Fine(pass[p])
BY DEF QRInv, TypeOK, PassOK, ListInv, Fine

\* A step of one pass to a keeps what QRInv says of the passes, if a is fine
\* and nothing is taken from another pass.
LEMMA Moves ==
    ASSUME QRInv, NEW p \in Passes, NEW a \in Pass, Fine(a),
           pass' = [pass EXCEPT ![p] = a],
           UNCHANGED money,
           recorded \subseteq recorded',
           \A s \in Sigs : forwarded[s] >= 1 => forwarded'[s] >= 1,
           a.at \in {"insert", "update"} => forwarded'[a.sig] >= 1,
           a.at = "update" => a.sig \in recorded' /\ credited'[a.sig] = 0,
           \A q \in Passes \ {p} :
             pass[q].at = "update" =>
               /\ credited'[pass[q].sig] = 0
               /\ a.at = "update" => pass[q].sig # a.sig
    PROVE  /\ pass' \in [Passes -> Pass]
           /\ \A q \in Passes : PassOK(q)'
           /\ ListInv'
           /\ OneUpdater'
<1>1. pass \in [Passes -> Pass]
    BY DEF QRInv, TypeOK
<1>2. pass'[p] = a /\ \A q \in Passes \ {p} : pass'[q] = pass[q]
    BY <1>1
<1>3. chain' = chain /\ treasury' = treasury
    BY DEF money
<1>4. pass' \in [Passes -> Pass]
    BY <1>1
<1>5. \A q \in Passes : PassOK(q)'
  <2>1. PassOK(p)'
      BY <1>2, <1>3 DEF PassOK, Fine, DistributeSteps
  <2>2. ASSUME NEW q \in Passes \ {p} PROVE PassOK(q)'
    <3>1. PassOK(q) /\ pass'[q] = pass[q]
        BY <1>2 DEF QRInv
    <3>2. pass[q].at = "update" => credited'[pass[q].sig] = 0
        OBVIOUS
    <3> QED
        BY <1>3, <3>1, <3>2 DEF PassOK, DistributeSteps
  <2> QED
      BY <2>1, <2>2
<1>6. ListInv'
    BY <1>2, <1>3 DEF QRInv, ListInv, Fine
<1>7. OneUpdater'
    BY <1>2 DEF QRInv, OneUpdater
<1> QED
    BY <1>4, <1>5, <1>6, <1>7

\* The newest transactions of the treasury are transactions that were paid.
LEMMA LatestPaid ==
    ASSUME QRInv
    PROVE  /\ Latest \in Seq(Sigs)
           /\ \A k \in 1..Len(Latest) : chain[Latest[k]] # NoTx
<1> DEFINE all == Len(treasury)
           n == IF all < Window THEN all ELSE Window
<1>1. treasury \in Seq(Sigs) /\ all \in Nat
    BY LenProperties DEF QRInv, TypeOK
<1>2. n \in Nat /\ n <= all
    BY <1>1, QRAssumption
<1>3. \A k \in 1..n : all - k + 1 \in 1..all
    BY <1>1, <1>2
<1>4. \A k \in 1..all : treasury[k] \in Sigs /\ chain[treasury[k]] # NoTx
    BY <1>1, ElementOfSeq DEF QRInv, ListInv
<1>5. Latest = [k \in 1..n |-> treasury[all - k + 1]]
    BY DEF Latest
<1>6. Latest \in [1..n -> Sigs]
    BY <1>3, <1>4, <1>5
<1>7. Latest \in Seq(Sigs)
    BY <1>2, <1>6, SeqDef
<1>8. Len(Latest) = n
    BY <1>2, <1>5, <1>7, LenProperties
<1> QED
    BY <1>3, <1>4, <1>5, <1>7, <1>8

\* What a pass writes to an invoice.
LEMMA PaymentType ==
    ASSUME NEW now \in Row, NEW row \in Row, NEW amount \in Nat
    PROVE  /\ AfterPayment(now, row, amount) \in Row
           /\ AfterPayment(now, row, amount).paid = row.paid + amount
           /\ AfterOther(now, row, amount) \in Row
           /\ AfterOther(now, row, amount).paid = row.paid + amount
<1>1. row.total \in Nat /\ row.paid \in Nat /\ now.total \in Nat
    BY DEF Row
<1>2. /\ AfterPayment(now, row, amount) \in Row
      /\ AfterPayment(now, row, amount).paid = row.paid + amount
    BY <1>1 DEF AfterPayment, Row, Statuses
<1>3. \A new \in Row : /\ [new EXCEPT !.status = "overdue"] \in Row
                        /\ [new EXCEPT !.status = "overdue"].paid = new.paid
    BY DEF Row, Statuses
<1> QED
    BY <1>2, <1>3 DEF AfterOther

\* Nothing but their own steps concerns the other requests.
LEMMA OthersKept ==
    ASSUME QRInv, UNCHANGED others
    PROVE  \A o \in Others : OtherOK(o)'
BY DEF QRInv, OtherOK

-----------------------------------------------------------------------------

LEMMA InitQR == Init => QRInv
<1> SUFFICES ASSUME Init PROVE QRInv
    OBVIOUS
<1>1. \A i \in Invoices :
        [status |-> "sent", total |-> Total[i], paid |-> 0,
         remaining |-> Total[i]] \in Row
    BY QRAssumption DEF Row, Statuses
<1>2. treasury \in Seq(Sigs) /\ Len(treasury) = 0
    BY EmptySeq DEF Init
<1>3. TypeOK
  <2>1. Silent \in Other
      BY DEF Silent, Other
  <2> QED
      BY <1>1, <1>2, <2>1, IdleFine DEF Init, TypeOK
<1>4. \A p \in Passes : pass[p] = Idle
    BY DEF Init
<1>5. \A p \in Passes : PassOK(p)
    BY <1>4, IdleFine DEF PassOK, DistributeSteps
<1>6. ListInv
    BY <1>2, <1>4, IdleFine DEF ListInv, Fine
<1>7. OneUpdater
    BY <1>4, IdleFine DEF OneUpdater
<1>8. CreditedOnce /\ RecordedWasForwarded /\ DroppedForAReason
    BY DEF Init, CreditedOnce, RecordedWasForwarded, DroppedForAReason
<1>9. \A o \in Others : OtherOK(o)
    BY DEF Init, OtherOK, Silent
<1> QED
    BY <1>3, <1>5, <1>6, <1>7, <1>8, <1>9 DEF QRInv

\* A customer's payment: nothing refers to it yet.
LEMMA PayStep ==
    ASSUME QRInv, NEW s \in Sigs, Pay(s)
    PROVE  QRInv'
<1> PICK i \in Invoices, amount \in Amounts :
      chain' = [chain EXCEPT ![s] = [inv |-> i, amount |-> amount]]
    BY DEF Pay
<1>1. [inv |-> i, amount |-> amount] \in Tx /\ [inv |-> i, amount |-> amount] # NoTx
    BY QRAssumption DEF Tx
<1>2. chain \in [Sigs -> Tx \cup {NoTx}] /\ treasury \in Seq(Sigs)
    BY DEF QRInv, TypeOK
<1>3. chain' \in [Sigs -> Tx \cup {NoTx}]
    BY <1>1, <1>2
<1>4. \A x \in Sigs : chain[x] # NoTx => chain'[x] # NoTx
    BY <1>1, <1>2
<1>5. chain'[s] # NoTx
    BY <1>1, <1>2
<1>6. /\ treasury' \in Seq(Sigs)
      /\ Len(treasury') = Len(treasury) + 1
      /\ \A k \in 1..Len(treasury) : treasury'[k] = treasury[k]
      /\ treasury'[Len(treasury) + 1] = s
    BY <1>2, AppendProperties DEF Pay
<1>7. TypeOK'
    BY <1>3, <1>6 DEF Pay, QRInv, TypeOK, tables, bounds
<1>8. \A p \in Passes : PassOK(p)'
  <2> TAKE p \in Passes
  <2>1. PassOK(p)
      BY DEF QRInv
  <2> QED
      BY <1>4, <2>1 DEF Pay, tables, bounds, PassOK, DistributeSteps
<1>9. ListInv'
  <2>1. Len(treasury) \in Nat
      BY <1>2, LenProperties
  <2>2. \A k \in 1..Len(treasury) : treasury[k] \in Sigs /\ chain[treasury[k]] # NoTx
      BY <1>2, ElementOfSeq DEF QRInv, ListInv
  <2>3. ASSUME NEW k \in 1..Len(treasury') PROVE chain'[treasury'[k]] # NoTx
    <3>1. k \in 1..Len(treasury) \/ k = Len(treasury) + 1
        BY <1>6, <2>1
    <3> QED
        BY <1>4, <1>5, <1>6, <2>2, <3>1
  <2>4. ASSUME NEW p \in Passes
        PROVE  /\ \A k \in 1..Len(pass[p].list) : chain'[pass[p].list[k]] # NoTx
               /\ \A k \in 1..Len(pass[p].rest) : chain'[pass[p].rest[k]] # NoTx
    <3>1. pass[p].list \in Seq(Sigs) /\ pass[p].rest \in Seq(Sigs)
        BY PassFine DEF Pass
    <3>2. /\ \A k \in 1..Len(pass[p].list) : pass[p].list[k] \in Sigs
          /\ \A k \in 1..Len(pass[p].rest) : pass[p].rest[k] \in Sigs
        BY <3>1, ElementOfSeq
    <3> QED
        BY <1>4, <3>2 DEF QRInv, ListInv
  <2> QED
      BY <2>3, <2>4, SMTT(30) DEF Pay, ListInv
<1>10. OneUpdater' /\ CreditedOnce' /\ RecordedWasForwarded' /\ DroppedForAReason'
    BY DEF Pay, tables, bounds, QRInv, OneUpdater, CreditedOnce,
           RecordedWasForwarded, DroppedForAReason
<1>11. UNCHANGED others
    BY DEF Pay, bounds
<1> QED
    BY <1>7, <1>8, <1>9, <1>10, <1>11, OthersKept DEF QRInv

\* Another request reads a row.
LEMMA OtherReadsStep ==
    ASSUME QRInv, NEW o \in Others, OtherReads(o)
    PROVE  QRInv'
<1> PICK i \in Invoices, at \in {"pay", "patch", "cancel"} :
      others' = [others EXCEPT ![o] = [at |-> at, inv |-> i, row |-> invoices[i]]]
    BY QRAssumption DEF OtherReads, QRAssumption
<1>1. /\ invoices[i] \in Row /\ others \in [Others -> Other]
      /\ [at |-> at, inv |-> i, row |-> invoices[i]] \in Other
    BY DEF QRInv, TypeOK, Other
<1>2. others' \in [Others -> Other]
    BY <1>1
<1>3. TypeOK'
    BY <1>2 DEF OtherReads, tables, money, QRInv, TypeOK
<1>4. \A q \in Others : OtherOK(q)'
    BY <1>1 DEF QRInv, OtherOK
<1>5. \A p \in Passes : PassOK(p)'
    BY DEF OtherReads, tables, money, QRInv, PassOK
<1>6. ListInv' /\ OneUpdater' /\ CreditedOnce' /\ RecordedWasForwarded'
      /\ DroppedForAReason'
    BY DEF OtherReads, tables, money, QRInv, ListInv, OneUpdater, CreditedOnce,
           RecordedWasForwarded, DroppedForAReason
<1> QED
    BY <1>3, <1>4, <1>5, <1>6 DEF QRInv

\* What another request writes to an invoice.
LEMMA OtherWritten ==
    ASSUME QRInv, NEW o \in Others, OtherWrites(o)
    PROVE  /\ others[o].inv \in Invoices /\ others[o].row \in Row
           /\ invoices' \in [Invoices -> Row]
           /\ counted' \in [Invoices -> Nat]
           /\ \A j \in Invoices \ {others[o].inv} :
                invoices'[j] = invoices[j] /\ counted'[j] = counted[j]
           /\ \/ \E a \in Nat :
                   /\ invoices'[others[o].inv].paid = others[o].row.paid + a
                   /\ counted'[others[o].inv] = counted[others[o].inv] + a
              \/ /\ invoices'[others[o].inv].paid = invoices[others[o].inv].paid
                 /\ counted'[others[o].inv] = counted[others[o].inv]
<1> DEFINE i == others[o].inv
<1>1. i \in Invoices /\ others[o].row \in Row
    BY DEF OtherWrites, QRInv, OtherOK
<1>2. /\ invoices \in [Invoices -> Row] /\ counted \in [Invoices -> Nat]
      /\ invoices[i] \in Row /\ counted[i] \in Nat
    BY <1>1 DEF QRInv, TypeOK
<1>3. ASSUME NEW a \in Amounts,
             invoices' = [invoices EXCEPT ![i] = AfterOther(@, others[o].row, a)],
             counted' = [counted EXCEPT ![i] = @ + a]
      PROVE  /\ invoices' \in [Invoices -> Row] /\ counted' \in [Invoices -> Nat]
             /\ \A j \in Invoices \ {i} :
                  invoices'[j] = invoices[j] /\ counted'[j] = counted[j]
             /\ a \in Nat
             /\ invoices'[i].paid = others[o].row.paid + a
             /\ counted'[i] = counted[i] + a
  <2>1. a \in Nat
      BY QRAssumption
  <2>2. /\ AfterOther(invoices[i], others[o].row, a) \in Row
        /\ AfterOther(invoices[i], others[o].row, a).paid = others[o].row.paid + a
      BY <1>1, <1>2, <2>1, PaymentType
  <2>3. counted[i] + a \in Nat
      BY <1>2, <2>1
  <2> QED
      BY <1>1, <1>2, <1>3, <2>1, <2>2, <2>3
<1>4. ASSUME NEW status \in Statuses, NEW total \in Nat,
             invoices' = [invoices EXCEPT ![i].status = status,
                                          ![i].total = total],
             UNCHANGED counted
      PROVE  /\ invoices' \in [Invoices -> Row] /\ counted' \in [Invoices -> Nat]
             /\ \A j \in Invoices \ {i} :
                  invoices'[j] = invoices[j] /\ counted'[j] = counted[j]
             /\ invoices'[i].paid = invoices[i].paid
             /\ counted'[i] = counted[i]
  <2>1. /\ [invoices[i] EXCEPT !.status = status, !.total = total] \in Row
        /\ [invoices[i] EXCEPT !.status = status, !.total = total].paid
             = invoices[i].paid
      BY <1>2 DEF Row
  <2>2. invoices' = [invoices EXCEPT ![i] =
                       [invoices[i] EXCEPT !.status = status, !.total = total]]
      BY <1>1, <1>2, <1>4
  <2> QED
      BY <1>1, <1>2, <1>4, <2>1, <2>2
<1>5. ASSUME invoices' = [invoices EXCEPT ![i].status = "cancelled"],
             UNCHANGED counted
      PROVE  /\ invoices' \in [Invoices -> Row] /\ counted' \in [Invoices -> Nat]
             /\ \A j \in Invoices \ {i} :
                  invoices'[j] = invoices[j] /\ counted'[j] = counted[j]
             /\ invoices'[i].paid = invoices[i].paid
             /\ counted'[i] = counted[i]
  <2>1. /\ [invoices[i] EXCEPT !.status = "cancelled"] \in Row
        /\ [invoices[i] EXCEPT !.status = "cancelled"].paid = invoices[i].paid
      BY <1>2 DEF Row, Statuses
  <2> QED
      BY <1>1, <1>2, <1>5, <2>1
<1>6. /\ PatchStatuses \cup {invoices[i].status} \subseteq Statuses
      /\ PatchTotals \cup {invoices[i].total} \subseteq Nat
    BY <1>2, QRAssumption DEF Row
<1>7. CASE \E a \in Amounts :
             /\ invoices' = [invoices EXCEPT ![i] = AfterOther(@, others[o].row, a)]
             /\ counted' = [counted EXCEPT ![i] = @ + a]
    BY <1>1, <1>3, <1>7
<1>8. CASE /\ \E status \in PatchStatuses \cup {invoices[i].status},
                 total \in PatchTotals \cup {invoices[i].total} :
                invoices' = [invoices EXCEPT ![i].status = status,
                                             ![i].total = total]
           /\ UNCHANGED counted
    BY <1>1, <1>4, <1>6, <1>8
<1>9. CASE /\ invoices' = [invoices EXCEPT ![i].status = "cancelled"]
           /\ UNCHANGED counted
    BY <1>1, <1>5, <1>9
<1> QED
    BY <1>7, <1>8, <1>9 DEF OtherWrites

LEMMA OtherWritesStep ==
    ASSUME QRInv, NEW o \in Others, OtherWrites(o)
    PROVE  QRInv'
<1>1. others' \in [Others -> Other]
  <2>1. [Silent EXCEPT !.at = "done"] \in Other
      BY DEF Silent, Other
  <2> QED
      BY <2>1 DEF OtherWrites, QRInv, TypeOK
<1>2. TypeOK'
    BY <1>1, OtherWritten DEF OtherWrites, money, QRInv, TypeOK
<1>3. \A q \in Others : OtherOK(q)'
    BY DEF OtherWrites, QRInv, TypeOK, OtherOK, Silent
<1>4. \A p \in Passes : PassOK(p)'
    BY DEF OtherWrites, money, QRInv, PassOK
<1>5. ListInv' /\ OneUpdater' /\ CreditedOnce' /\ RecordedWasForwarded'
      /\ DroppedForAReason'
    BY DEF OtherWrites, money, QRInv, ListInv, OneUpdater, CreditedOnce,
           RecordedWasForwarded, DroppedForAReason
<1> QED
    BY <1>2, <1>3, <1>4, <1>5 DEF QRInv

\* A crash: the set of processed signatures is empty again.
LEMMA CrashStep ==
    ASSUME QRInv, Crash
    PROVE  QRInv'
<1>1. faults' \in Nat /\ processed' = {} /\ pass' \in [Passes -> Pass]
    BY IdleFine DEF Crash, QRInv, TypeOK
<1>2. TypeOK'
    BY <1>1 DEF Crash, tables, money, QRInv, TypeOK
<1>3. \A p \in Passes : pass'[p] = Idle
    BY DEF Crash
<1>4. \A p \in Passes : PassOK(p)'
    BY <1>3, IdleFine DEF PassOK, DistributeSteps
<1>5. ListInv'
  <2>1. \A p \in Passes : Len(pass'[p].list) = 0 /\ Len(pass'[p].rest) = 0
      BY <1>3, EmptySeq DEF Idle
  <2> QED
      BY <2>1 DEF Crash, tables, money, QRInv, ListInv
<1>6. OneUpdater'
    BY <1>3, IdleFine DEF OneUpdater
<1>7. CreditedOnce' /\ RecordedWasForwarded' /\ DroppedForAReason'
    BY DEF Crash, tables, money, QRInv, CreditedOnce, RecordedWasForwarded,
           DroppedForAReason
<1>8. UNCHANGED others
    BY DEF Crash
<1> QED
    BY <1>2, <1>4, <1>5, <1>6, <1>7, <1>8, OthersKept DEF QRInv

-----------------------------------------------------------------------------
(* The steps of a pass.                                                     *)

\* A step of one pass to a that leaves the tables alone.
LEMMA Quiet ==
    ASSUME QRInv, NEW p \in Passes, NEW a \in Pass, Fine(a),
           pass' = [pass EXCEPT ![p] = a],
           UNCHANGED <<tables, money, others>>,
           faults' \in Nat,
           a.at # "update",
           a.at = "insert" => forwarded'[a.sig] >= 1,
           forwarded' \in [Sigs -> Nat],
           \A s \in Sigs : forwarded[s] >= 1 => forwarded'[s] >= 1,
           refused' \subseteq Sigs,
           processed' \subseteq recorded \cup refused'
    PROVE  QRInv'
<1>1. UNCHANGED money /\ recorded' = recorded /\ credited' = credited
    BY DEF tables
<1>2. /\ pass' \in [Passes -> Pass]
      /\ \A q \in Passes : PassOK(q)'
      /\ ListInv'
      /\ OneUpdater'
  <2>1. \A q \in Passes \ {p} : pass[q].at = "update" => credited'[pass[q].sig] = 0
      BY <1>1 DEF QRInv, PassOK
  <2> QED
      BY <1>1, <2>1, Moves
<1>3. TypeOK'
    BY <1>2 DEF tables, money, QRInv, TypeOK
<1>4. CreditedOnce' /\ RecordedWasForwarded' /\ DroppedForAReason'
    BY <1>1 DEF QRInv, TypeOK, CreditedOnce, RecordedWasForwarded, DroppedForAReason
<1> QED
    BY <1>2, <1>3, <1>4, OthersKept DEF QRInv

\* A pass on its way to the next invoice.
LEMMA LeaveFine ==
    ASSUME QRInv, NEW p \in Passes, pass[p].at # "idle", Leave(p)
    PROVE  \E a \in Pass : /\ Fine(a)
                           /\ a.at = "next"
                           /\ pass' = [pass EXCEPT ![p] = a]
<1> DEFINE a == [pass[p] EXCEPT !.at = "next", !.inv = NoInvoice,
                                !.rest = <<>>, !.sig = NoSig]
<1>1. pass[p] \in Pass /\ Fine(pass[p])
    BY PassFine
<1>2. <<>> \in Seq(Sigs) /\ Len(<<>>) = 0
    BY EmptySeq
<1>3. /\ a \in Pass
      /\ a.at = "next"
      /\ a.todo = pass[p].todo
      /\ a.row = pass[p].row
      /\ a.list = pass[p].list
      /\ a.rest = <<>>
    BY <1>1, <1>2 DEF Pass
<1>4. \A k \in 1..Len(a.rest) : chain[a.rest[k]] # NoTx
    BY <1>2, <1>3
<1>5. Fine(a)
    BY <1>1, <1>3, <1>4 DEF Fine, DistributeSteps
<1>6. pass' = [pass EXCEPT ![p] = a]
    BY DEF Leave
<1> QED
    BY <1>3, <1>5, <1>6

LEMMA BeginStep ==
    ASSUME QRInv, NEW p \in Passes, Begin(p)
    PROVE  QRInv'
<1> PICK batch \in SUBSET {i \in Invoices : Open(i)} :
      pass' = [pass EXCEPT ![p] =
                [Idle EXCEPT !.at = "fetch", !.todo = batch,
                             !.row = [i \in Invoices |->
                               IF i \in batch THEN invoices[i] ELSE NoRow]]]
    BY DEF Begin
<1> DEFINE a == [Idle EXCEPT !.at = "fetch", !.todo = batch,
                             !.row = [i \in Invoices |->
                               IF i \in batch THEN invoices[i] ELSE NoRow]]
<1>1. \A i \in Invoices : invoices[i] \in Row
    BY DEF QRInv, TypeOK
<1>2. /\ a \in Pass
      /\ a.at = "fetch"
      /\ a.todo = batch
      /\ \A i \in batch : a.row[i] = invoices[i]
      /\ a.list = Idle.list
      /\ a.rest = Idle.rest
    BY <1>1, IdleFine DEF Idle, Pass
<1>3. Fine(a)
    BY <1>1, <1>2, IdleFine DEF Fine, DistributeSteps
<1> QED
    BY <1>2, <1>3, Quiet
       DEF Begin, bounds, QRInv, TypeOK, DroppedForAReason

LEMMA FetchStep ==
    ASSUME QRInv, NEW p \in Passes, Fetch(p)
    PROVE  QRInv'
<1> DEFINE a == [pass[p] EXCEPT !.at = "next", !.list = Latest]
<1>1. pass[p] \in Pass /\ Fine(pass[p]) /\ pass[p].at = "fetch"
    BY PassFine DEF Fetch
<1>2. /\ a \in Pass
      /\ a.at = "next"
      /\ a.todo = pass[p].todo
      /\ a.row = pass[p].row
      /\ a.list = Latest
      /\ a.rest = pass[p].rest
    BY <1>1, LatestPaid DEF Pass
<1>3. Fine(a)
    BY <1>1, <1>2, LatestPaid DEF Fine, DistributeSteps
<1>4. pass' = [pass EXCEPT ![p] = a]
    BY DEF Fetch
<1> QED
    BY <1>2, <1>3, <1>4, Quiet
       DEF Fetch, bounds, QRInv, TypeOK, DroppedForAReason

LEMMA NextInvoiceStep ==
    ASSUME QRInv, NEW p \in Passes, NextInvoice(p)
    PROVE  QRInv'
<1>1. CASE pass' = [pass EXCEPT ![p] = Idle]
    BY <1>1, IdleFine, Quiet
       DEF NextInvoice, bounds, QRInv, TypeOK, DroppedForAReason
<1>2. ASSUME NEW i \in pass[p].todo,
             pass' = [pass EXCEPT ![p] =
                       [pass[p] EXCEPT !.at = "look", !.todo = @ \ {i}, !.inv = i,
                                       !.rest = pass[p].list]]
      PROVE  QRInv'
  <2> DEFINE a == [pass[p] EXCEPT !.at = "look", !.todo = @ \ {i}, !.inv = i,
                                  !.rest = pass[p].list]
  <2>1. pass[p] \in Pass /\ Fine(pass[p]) /\ pass[p].at = "next"
      BY PassFine DEF NextInvoice
  <2>2. i \in Invoices /\ pass[p].row[i] \in Row
      BY <2>1 DEF Pass, Fine
  <2>3. /\ a \in Pass
        /\ a.at = "look"
        /\ a.inv = i
        /\ a.todo = pass[p].todo \ {i}
        /\ a.row = pass[p].row
        /\ a.list = pass[p].list
        /\ a.rest = pass[p].list
      BY <2>1, <2>2 DEF Pass
  <2>4. Fine(a)
      BY <2>1, <2>2, <2>3 DEF Fine, DistributeSteps
  <2>5. pass' = [pass EXCEPT ![p] = a]
      BY <1>2
  <2> QED
      BY <2>3, <2>4, <2>5, Quiet
         DEF NextInvoice, bounds, QRInv, TypeOK, DroppedForAReason
<1> QED
    BY <1>1, <1>2 DEF NextInvoice

\* The rest of the list, after its first transaction.
LEMMA Further ==
    ASSUME QRInv, NEW p \in Passes, pass[p].rest # <<>>
    PROVE  /\ Head(pass[p].rest) \in Sigs
           /\ chain[Head(pass[p].rest)] # NoTx
           /\ Tail(pass[p].rest) \in Seq(Sigs)
           /\ \A k \in 1..Len(Tail(pass[p].rest)) : chain[Tail(pass[p].rest)[k]] # NoTx
<1> DEFINE r == pass[p].rest
<1>1. r \in Seq(Sigs) /\ r # <<>>
    BY PassFine DEF Pass
<1>2. \A k \in 1..Len(r) : chain[r[k]] # NoTx
    BY DEF QRInv, ListInv
<1>3. Len(r) \in Nat \ {0}
    BY <1>1, EmptySeq
<1>4. /\ Head(r) \in Sigs
      /\ Tail(r) \in Seq(Sigs)
      /\ Len(Tail(r)) = Len(r) - 1
      /\ \A k \in 1..Len(Tail(r)) : Tail(r)[k] = r[k + 1]
    BY <1>1, HeadTailProperties
<1>5. Head(r) = r[1]
    OBVIOUS
<1>6. chain[Head(r)] # NoTx
    BY <1>2, <1>3, <1>5
<1>7. \A k \in 1..Len(Tail(r)) : k + 1 \in 1..Len(r)
    BY <1>3, <1>4
<1>8. \A k \in 1..Len(Tail(r)) : chain[Tail(r)[k]] # NoTx
    BY <1>2, <1>4, <1>7
<1> QED
    BY <1>4, <1>6, <1>8

LEMMA LookStep ==
    ASSUME QRInv, NEW p \in Passes, Look(p)
    PROVE  QRInv'
<1>1. pass[p] \in Pass /\ Fine(pass[p]) /\ pass[p].at = "look"
    BY PassFine DEF Look
<1>2. UNCHANGED <<tables, money, bounds, processed, forwarded, refused>>
    BY DEF Look
<1>3. CASE Leave(p)
    BY <1>1, <1>2, <1>3, LeaveFine, Quiet
       DEF bounds, QRInv, TypeOK, DroppedForAReason
<1>4. CASE pass[p].rest # <<>>
  <2> DEFINE s == Head(pass[p].rest)
             more == [pass[p] EXCEPT !.rest = Tail(pass[p].rest)]
             found == [more EXCEPT !.at = "verify", !.sig = s]
  <2>1. /\ more \in Pass
        /\ more.at = "look"
        /\ more.todo = pass[p].todo
        /\ more.row = pass[p].row
        /\ more.inv = pass[p].inv
        /\ more.list = pass[p].list
        /\ more.rest = Tail(pass[p].rest)
      BY <1>1, <1>4, Further DEF Pass
  <2>2. Fine(more)
      BY <1>1, <1>4, <2>1, Further DEF Fine, DistributeSteps
  <2>3. /\ found \in Pass
        /\ found.at = "verify"
        /\ found.todo = more.todo
        /\ found.row = more.row
        /\ found.inv = more.inv
        /\ found.list = more.list
        /\ found.rest = more.rest
        /\ found.sig = s
      BY <1>4, <2>1, Further DEF Pass
  <2>4. Fine(found)
      BY <1>4, <2>1, <2>2, <2>3, Further DEF Fine, DistributeSteps
  <2>5. CASE pass' = [pass EXCEPT ![p] = more]
      BY <1>2, <2>1, <2>2, <2>5, Quiet
         DEF bounds, QRInv, TypeOK, DroppedForAReason
  <2>6. CASE pass' = [pass EXCEPT ![p] = found]
      BY <1>2, <2>3, <2>4, <2>6, Quiet
         DEF bounds, QRInv, TypeOK, DroppedForAReason
  <2> QED
      BY <1>4, <2>5, <2>6 DEF Look
<1> QED
    BY <1>3, <1>4 DEF Look

LEMMA UnknownStep ==
    ASSUME QRInv, NEW p \in Passes, Unknown(p)
    PROVE  QRInv'
<1> DEFINE a == [pass[p] EXCEPT !.rest = Tail(pass[p].rest)]
<1>1. pass[p] \in Pass /\ Fine(pass[p]) /\ pass[p].at = "look" /\ pass[p].rest # <<>>
    BY PassFine DEF Unknown
<1>2. /\ a \in Pass
      /\ a.at = "look"
      /\ a.todo = pass[p].todo
      /\ a.row = pass[p].row
      /\ a.inv = pass[p].inv
      /\ a.list = pass[p].list
      /\ a.rest = Tail(pass[p].rest)
    BY <1>1, Further DEF Pass
<1>3. Fine(a)
    BY <1>1, <1>2, Further DEF Fine, DistributeSteps
<1>4. pass' = [pass EXCEPT ![p] = a]
    BY DEF Unknown
<1>5. /\ UNCHANGED <<tables, money, others>>
      /\ faults' \in Nat
      /\ forwarded' = forwarded /\ forwarded \in [Sigs -> Nat]
      /\ refused' \subseteq Sigs
      /\ processed' \subseteq recorded \cup refused'
    BY DEF Unknown, QRInv, TypeOK, DroppedForAReason
<1> QED
    BY <1>2, <1>3, <1>4, <1>5, Quiet

LEMMA VerifyStep ==
    ASSUME QRInv, NEW p \in Passes, Verify(p)
    PROVE  QRInv'
<1> DEFINE s == pass[p].sig
           enough == [pass[p] EXCEPT !.at = "dedupe"]
           short == [pass[p] EXCEPT !.at = "look", !.sig = NoSig]
<1>1. pass[p] \in Pass /\ Fine(pass[p]) /\ pass[p].at = "verify"
    BY PassFine DEF Verify
<1>2. s \in Sigs
    BY <1>1 DEF Fine
<1>3. CASE pass' = [pass EXCEPT ![p] = enough] /\ UNCHANGED <<processed, refused>>
  <2>1. /\ enough \in Pass
        /\ enough.at = "dedupe"
        /\ enough.todo = pass[p].todo
        /\ enough.row = pass[p].row
        /\ enough.inv = pass[p].inv
        /\ enough.list = pass[p].list
        /\ enough.rest = pass[p].rest
        /\ enough.sig = s
      BY <1>1 DEF Pass
  <2>2. Fine(enough)
      BY <1>1, <2>1 DEF Fine, DistributeSteps
  <2> QED
      BY <1>3, <2>1, <2>2, Quiet DEF Verify, bounds, QRInv, TypeOK, DroppedForAReason
<1>4. CASE /\ pass' = [pass EXCEPT ![p] = short]
           /\ processed' = processed \cup {s}
           /\ refused' = refused \cup {s}
  <2>1. /\ short \in Pass
        /\ short.at = "look"
        /\ short.todo = pass[p].todo
        /\ short.row = pass[p].row
        /\ short.inv = pass[p].inv
        /\ short.list = pass[p].list
        /\ short.rest = pass[p].rest
      BY <1>1 DEF Pass
  <2>2. Fine(short)
      BY <1>1, <2>1 DEF Fine, DistributeSteps
  <2> QED
      BY <1>2, <1>4, <2>1, <2>2, Quiet
         DEF Verify, bounds, QRInv, TypeOK, DroppedForAReason
<1>5. pass' = [pass EXCEPT ![p].at = "dedupe"] => pass' = [pass EXCEPT ![p] = enough]
    OBVIOUS
<1>6. pass' = [pass EXCEPT ![p].at = "look", ![p].sig = NoSig]
        => pass' = [pass EXCEPT ![p] = short]
    OBVIOUS
<1> QED
    BY <1>3, <1>4, <1>5, <1>6 DEF Verify

LEMMA DedupeStep ==
    ASSUME QRInv, NEW p \in Passes, Dedupe(p)
    PROVE  QRInv'
<1> DEFINE s == pass[p].sig
           a == [pass[p] EXCEPT !.at = "send"]
<1>1. pass[p] \in Pass /\ Fine(pass[p]) /\ pass[p].at = "dedupe"
    BY PassFine DEF Dedupe
<1>2. CASE s \in recorded /\ processed' = processed \cup {s} /\ Leave(p)
  <2> PICK b \in Pass : Fine(b) /\ b.at = "next" /\ pass' = [pass EXCEPT ![p] = b]
      BY <1>1, <1>2, LeaveFine
  <2>1. /\ UNCHANGED <<tables, money, others>>
        /\ faults' \in Nat
        /\ forwarded' = forwarded /\ forwarded \in [Sigs -> Nat]
        /\ refused' \subseteq Sigs
        /\ processed' \subseteq recorded \cup refused'
      BY <1>2 DEF Dedupe, bounds, QRInv, TypeOK, DroppedForAReason
  <2> QED
      BY <2>1, Quiet
<1>3. CASE pass' = [pass EXCEPT ![p].at = "send"] /\ UNCHANGED processed
  <2>1. /\ a \in Pass
        /\ a.at = "send"
        /\ a.todo = pass[p].todo
        /\ a.row = pass[p].row
        /\ a.inv = pass[p].inv
        /\ a.list = pass[p].list
        /\ a.rest = pass[p].rest
        /\ a.sig = s
      BY <1>1 DEF Pass
  <2>2. Fine(a)
      BY <1>1, <2>1 DEF Fine, DistributeSteps
  <2>3. pass' = [pass EXCEPT ![p] = a]
      BY <1>3
  <2> QED
      BY <1>3, <2>1, <2>2, <2>3, Quiet
         DEF Dedupe, bounds, QRInv, TypeOK, DroppedForAReason
<1> QED
    BY <1>2, <1>3 DEF Dedupe

\* Only a confirmed transfer is followed by the insert.
LEMMA SendStep ==
    ASSUME QRInv, NEW p \in Passes, Send(p)
    PROVE  QRInv'
<1> DEFINE s == pass[p].sig
           a == [pass[p] EXCEPT !.at = "insert"]
<1>1. pass[p] \in Pass /\ Fine(pass[p]) /\ pass[p].at = "send"
    BY PassFine DEF Send
<1>2. s \in Sigs
    BY <1>1 DEF Fine, DistributeSteps
<1>3. forwarded \in [Sigs -> Nat] /\ faults \in Nat
    BY DEF QRInv, TypeOK
<1> PICK outcome \in {"confirmed", "failed", "unknown"} :
      /\ faults' = IF outcome = "confirmed" THEN faults ELSE faults + 1
      /\ forwarded' = IF outcome = "failed" THEN forwarded
                      ELSE [forwarded EXCEPT ![s] = @ + 1]
      /\ IF GoesOn(outcome)
         THEN /\ pass' = [pass EXCEPT ![p] = a]
              /\ UNCHANGED processed
         ELSE Leave(p) /\ processed' = AfterFailure(s)
    BY DEF Send
<1>4. /\ forwarded' \in [Sigs -> Nat]
      /\ \A x \in Sigs : forwarded[x] >= 1 => forwarded'[x] >= 1
      /\ outcome # "failed" => forwarded'[s] >= 1
    BY <1>2, <1>3
<1>5. /\ UNCHANGED <<tables, money, others>>
      /\ faults' \in Nat
      /\ refused' \subseteq Sigs
      /\ processed' \subseteq recorded \cup refused'
    BY <1>3 DEF Send, AfterFailure, QRInv, TypeOK, DroppedForAReason
<1>6. CASE GoesOn(outcome)
  <2>1. /\ a \in Pass
        /\ a.at = "insert"
        /\ a.todo = pass[p].todo
        /\ a.row = pass[p].row
        /\ a.inv = pass[p].inv
        /\ a.list = pass[p].list
        /\ a.rest = pass[p].rest
        /\ a.sig = s
      BY <1>1 DEF Pass
  <2>2. Fine(a)
      BY <1>1, <2>1 DEF Fine, DistributeSteps
  <2>3. forwarded'[a.sig] >= 1
      BY <1>4, <1>6, <2>1 DEF GoesOn
  <2> QED
      BY <1>4, <1>5, <1>6, <2>1, <2>2, <2>3, Quiet
<1>7. CASE ~GoesOn(outcome)
  <2> PICK b \in Pass : Fine(b) /\ b.at = "next" /\ pass' = [pass EXCEPT ![p] = b]
      BY <1>1, <1>7, LeaveFine
  <2> QED
      BY <1>4, <1>5, Quiet
<1> QED
    BY <1>6, <1>7

\* The unique index lets one pass insert the row of a signature, and go on.
LEMMA InsertStep ==
    ASSUME QRInv, NEW p \in Passes, Insert(p)
    PROVE  QRInv'
<1> DEFINE s == pass[p].sig
           a == [pass[p] EXCEPT !.at = "update"]
<1>1. pass[p] \in Pass /\ Fine(pass[p]) /\ pass[p].at = "insert"
    BY PassFine DEF Insert
<1>2. s \in Sigs /\ forwarded[s] >= 1
    BY <1>1 DEF Fine, DistributeSteps, QRInv, PassOK
<1>3. /\ UNCHANGED <<invoices, credited, counted, money, others, forwarded>>
      /\ faults' \in Nat /\ forwarded \in [Sigs -> Nat]
      /\ refused' = refused /\ refused \subseteq Sigs
      /\ processed' = processed /\ processed \subseteq recorded \cup refused
      /\ recorded \subseteq Sigs
    BY DEF Insert, bounds, QRInv, TypeOK, DroppedForAReason
<1>4. CASE Leave(p) /\ UNCHANGED recorded
  <2> PICK b \in Pass : Fine(b) /\ b.at = "next" /\ pass' = [pass EXCEPT ![p] = b]
      BY <1>1, <1>4, LeaveFine
  <2>1. UNCHANGED tables
      BY <1>3, <1>4 DEF tables
  <2> QED
      BY <1>3, <1>4, <2>1, Quiet
<1>5. CASE /\ s \notin recorded
           /\ pass' = [pass EXCEPT ![p].at = "update"]
           /\ recorded' = recorded \cup {s}
  <2>1. /\ a \in Pass
        /\ a.at = "update"
        /\ a.todo = pass[p].todo
        /\ a.row = pass[p].row
        /\ a.inv = pass[p].inv
        /\ a.list = pass[p].list
        /\ a.rest = pass[p].rest
        /\ a.sig = s
      BY <1>1 DEF Pass
  <2>2. Fine(a)
      BY <1>1, <2>1 DEF Fine, DistributeSteps
  <2>3. pass' = [pass EXCEPT ![p] = a]
      BY <1>5
  <2>4. credited[s] = 0
    <3>1. credited[s] \in Nat /\ credited[s] <= 1 /\ credited[s] # 1
        BY <1>2, <1>5 DEF QRInv, TypeOK, CreditedOnce
    <3> QED
        BY <3>1
  <2>5. \A q \in Passes \ {p} :
          pass[q].at = "update" => /\ credited[pass[q].sig] = 0
                                   /\ pass[q].sig \in recorded
      BY DEF QRInv, PassOK
  <2>6. /\ pass' \in [Passes -> Pass]
        /\ \A q \in Passes : PassOK(q)'
        /\ ListInv'
        /\ OneUpdater'
    <3>1. \A q \in Passes \ {p} :
            pass[q].at = "update" => /\ credited'[pass[q].sig] = 0
                                     /\ a.at = "update" => pass[q].sig # a.sig
        BY <1>3, <1>5, <2>1, <2>5
    <3>2. /\ recorded \subseteq recorded'
          /\ \A x \in Sigs : forwarded[x] >= 1 => forwarded'[x] >= 1
          /\ forwarded'[a.sig] >= 1
          /\ a.sig \in recorded' /\ credited'[a.sig] = 0
        BY <1>2, <1>3, <1>5, <2>1, <2>4
    <3> QED
        BY <1>3, <2>1, <2>2, <2>3, <3>1, <3>2, Moves
  <2>7. TypeOK'
      BY <1>2, <1>3, <1>5, <2>6 DEF money, QRInv, TypeOK
  <2>8. CreditedOnce' /\ RecordedWasForwarded' /\ DroppedForAReason'
      BY <1>2, <1>3, <1>5
         DEF QRInv, CreditedOnce, RecordedWasForwarded, DroppedForAReason
  <2> QED
      BY <1>3, <2>6, <2>7, <2>8, OthersKept DEF QRInv
<1> QED
    BY <1>4, <1>5 DEF Insert, Duplicate

\* The pass that has inserted a row adds it to the balance, and no other does.
LEMMA UpdateStep ==
    ASSUME QRInv, NEW p \in Passes, Update(p)
    PROVE  QRInv'
<1> DEFINE s == pass[p].sig
           i == pass[p].inv
<1>1. pass[p] \in Pass /\ Fine(pass[p]) /\ pass[p].at = "update"
    BY PassFine DEF Update
<1>2. /\ s \in Sigs /\ chain[s] # NoTx
      /\ i \in Invoices /\ pass[p].row[i] \in Row
    BY <1>1 DEF Fine, DistributeSteps
<1>3. s \in recorded /\ credited[s] = 0
    BY <1>1 DEF QRInv, PassOK
<1>4. chain[s].amount \in Nat
    BY <1>2 DEF QRInv, TypeOK, Tx
<1>5. /\ invoices' = [invoices EXCEPT ![i] =
                        AfterPayment(@, pass[p].row[i], chain[s].amount)]
      /\ credited' = [credited EXCEPT ![s] = @ + 1]
      /\ processed' = processed \cup {s}
      /\ Leave(p)
      /\ counted' = [counted EXCEPT ![i] = @ + chain[s].amount]
      /\ UNCHANGED <<recorded, money, bounds, forwarded, refused>>
    BY DEF Update
<1>6. /\ credited \in [Sigs -> Nat]
      /\ invoices \in [Invoices -> Row]
      /\ counted \in [Invoices -> Nat]
    BY DEF QRInv, TypeOK
<1>7. invoices' \in [Invoices -> Row] /\ counted' \in [Invoices -> Nat]
  <2>1. counted[i] + chain[s].amount \in Nat
      BY <1>2, <1>4, <1>6
  <2>2. AfterPayment(invoices[i], pass[p].row[i], chain[s].amount) \in Row
      BY <1>2, <1>4, <1>6, PaymentType
  <2> QED
      BY <1>2, <1>5, <1>6, <2>1, <2>2
<1>8. /\ credited' \in [Sigs -> Nat]
      /\ credited'[s] = 1
      /\ \A x \in Sigs \ {s} : credited'[x] = credited[x]
    BY <1>2, <1>3, <1>5, <1>6
<1> PICK b \in Pass : Fine(b) /\ b.at = "next" /\ pass' = [pass EXCEPT ![p] = b]
    BY <1>1, <1>5, LeaveFine
<1>9. /\ pass' \in [Passes -> Pass]
      /\ \A q \in Passes : PassOK(q)'
      /\ ListInv'
      /\ OneUpdater'
  <2>1. ASSUME NEW q \in Passes \ {p}, pass[q].at = "update"
        PROVE  credited'[pass[q].sig] = 0
    <3>1. pass[q].sig # s
        BY <1>1, <2>1 DEF QRInv, OneUpdater
    <3>2. pass[q].sig \in Sigs /\ credited[pass[q].sig] = 0
        BY <2>1 DEF QRInv, PassOK, DistributeSteps
    <3> QED
        BY <1>8, <3>1, <3>2
  <2> QED
      BY <1>5, <2>1, Moves
<1>10. TypeOK'
    BY <1>2, <1>5, <1>7, <1>8, <1>9 DEF money, bounds, QRInv, TypeOK
<1>11. CreditedOnce'
    BY <1>3, <1>5, <1>8 DEF QRInv, CreditedOnce
<1>12. RecordedWasForwarded' /\ DroppedForAReason'
    BY <1>3, <1>5 DEF QRInv, RecordedWasForwarded, DroppedForAReason
<1>13. UNCHANGED others
    BY <1>5 DEF bounds
<1> QED
    BY <1>9, <1>10, <1>11, <1>12, <1>13, OthersKept DEF QRInv

LEMMA CallFailsStep ==
    ASSUME QRInv, NEW p \in Passes, CallFails(p)
    PROVE  QRInv'
<1>1. pass[p].at # "idle"
    BY DEF CallFails
<1>2. /\ UNCHANGED <<tables, money, others>>
      /\ faults' \in Nat
      /\ forwarded' = forwarded /\ forwarded \in [Sigs -> Nat]
      /\ refused' \subseteq Sigs
      /\ processed' \subseteq recorded \cup refused'
    BY DEF CallFails, QRInv, TypeOK, DroppedForAReason
<1>3. CASE pass' = [pass EXCEPT ![p] = Idle]
    BY <1>2, <1>3, IdleFine, Quiet
<1>4. CASE Leave(p)
  <2> PICK b \in Pass : Fine(b) /\ b.at = "next" /\ pass' = [pass EXCEPT ![p] = b]
      BY <1>1, <1>4, LeaveFine
  <2> QED
      BY <1>2, Quiet
<1> QED
    BY <1>3, <1>4 DEF CallFails

-----------------------------------------------------------------------------

LEMMA NextQR == QRInv /\ [Next]_vars => QRInv'
<1> SUFFICES ASSUME QRInv, [Next]_vars PROVE QRInv'
    OBVIOUS
<1>1. ASSUME NEW p \in Passes, Step(p) PROVE QRInv'
    BY <1>1, BeginStep, FetchStep, NextInvoiceStep, LookStep, UnknownStep,
       VerifyStep, DedupeStep, SendStep, InsertStep, UpdateStep, CallFailsStep
       DEF Step
<1>2. CASE UNCHANGED vars
  <2>1. TypeOK'
      BY <1>2 DEF vars, tables, money, bounds, QRInv, TypeOK
  <2>2. (\A p \in Passes : PassOK(p))' /\ ListInv' /\ OneUpdater'
      BY <1>2 DEF vars, tables, money, bounds, QRInv, PassOK, ListInv, OneUpdater
  <2>3. CreditedOnce' /\ RecordedWasForwarded' /\ DroppedForAReason'
      BY <1>2 DEF vars, tables, money, bounds, QRInv, CreditedOnce,
         RecordedWasForwarded, DroppedForAReason
  <2>4. UNCHANGED others
      BY <1>2 DEF vars, bounds
  <2> QED
      BY <2>1, <2>2, <2>3, <2>4, OthersKept DEF QRInv
<1> QED
    BY <1>1, <1>2, PayStep, OtherReadsStep, OtherWritesStep, CrashStep DEF Next

-----------------------------------------------------------------------------
(* The balances.                                                            *)

\* What steps do with the rows that passes have read: keep or forget them, or
\* read the table.
RowsRead ==
    \A p \in Passes, i \in Invoices :
      pass'[p].row[i] \in {NoRow, pass[p].row[i], invoices[i]}

\* ... and with those that other requests have read.
OthersRead ==
    \A o \in Others :
      others'[o].row # NoRow =>
        /\ others'[o].inv \in Invoices
        /\ \/ others'[o].row = others[o].row /\ others'[o].inv = others[o].inv
           \/ others'[o].row = invoices[others'[o].inv]

\* Every step of a pass reads rows, at its beginning, or leaves them alone.
LEMMA PassesRead ==
    ASSUME QRInv, NEW p \in Passes, Step(p)
    PROVE  RowsRead
<1>1. pass \in [Passes -> Pass] /\ pass[p] \in Pass
    BY DEF QRInv, TypeOK
<1>2. SUFFICES /\ \A q \in Passes \ {p} : pass'[q] = pass[q]
               /\ \A i \in Invoices :
                    pass'[p].row[i] \in {NoRow, pass[p].row[i], invoices[i]}
    BY DEF RowsRead
<1>3. Leave(p) => /\ \A q \in Passes \ {p} : pass'[q] = pass[q]
                  /\ pass'[p].row = pass[p].row
    BY <1>1 DEF Leave, Pass
<1>4. /\ \A q \in Passes \ {p} : ([pass EXCEPT ![p] = Idle])[q] = pass[q]
      /\ \A i \in Invoices : ([pass EXCEPT ![p] = Idle])[p].row[i] = NoRow
    BY <1>1 DEF Idle
<1>5. CASE Begin(p)
    BY <1>1, <1>5 DEF Begin, Idle
<1>6. CASE Fetch(p)
    BY <1>1, <1>6 DEF Fetch, Pass
<1>7. CASE NextInvoice(p)
  <2>1. CASE pass' = [pass EXCEPT ![p] = Idle]
      BY <1>4, <2>1
  <2>2. ASSUME NEW i \in pass[p].todo,
               pass' = [pass EXCEPT ![p] =
                 [pass[p] EXCEPT !.at = "look", !.todo = @ \ {i}, !.inv = i,
                                 !.rest = pass[p].list]]
        PROVE  /\ \A q \in Passes \ {p} : pass'[q] = pass[q]
               /\ pass'[p].row = pass[p].row
      BY <1>1, <2>2 DEF Pass
  <2> QED
      BY <1>7, <2>1, <2>2 DEF NextInvoice
<1>8. CASE Look(p)
  <2> DEFINE more == [pass[p] EXCEPT !.rest = Tail(pass[p].rest)]
             found == [more EXCEPT !.at = "verify", !.sig = Head(pass[p].rest)]
  <2>1. more.row = pass[p].row /\ found.row = pass[p].row
      BY <1>1 DEF Pass
  <2>2. \/ Leave(p)
        \/ pass' = [pass EXCEPT ![p] = more]
        \/ pass' = [pass EXCEPT ![p] = found]
      BY <1>8 DEF Look
  <2> HIDE DEF more, found
  <2> QED
      BY <1>1, <1>3, <2>1, <2>2
<1>9. CASE Unknown(p)
    BY <1>1, <1>9 DEF Unknown, Pass
<1>10. CASE Verify(p)
  <2> DEFINE good == [pass[p] EXCEPT !.at = "dedupe"]
             bad == [pass[p] EXCEPT !.at = "look", !.sig = NoSig]
  <2>1. good.row = pass[p].row /\ bad.row = pass[p].row
      BY <1>1 DEF Pass
  <2>2. \/ pass' = [pass EXCEPT ![p] = good]
        \/ pass' = [pass EXCEPT ![p] = bad]
      BY <1>1, <1>10 DEF Verify, Pass
  <2> HIDE DEF good, bad
  <2> QED
      BY <1>1, <2>1, <2>2
<1>11. CASE Dedupe(p)
    BY <1>1, <1>3, <1>11 DEF Dedupe, Pass
<1>12. CASE Send(p)
    BY <1>1, <1>3, <1>12 DEF Send, Pass
<1>13. CASE Insert(p)
    BY <1>1, <1>3, <1>13 DEF Insert, Pass
<1>14. CASE Update(p)
    BY <1>3, <1>14 DEF Update
<1>15. CASE CallFails(p)
    BY <1>3, <1>4, <1>15 DEF CallFails
<1> QED
    BY <1>5, <1>6, <1>7, <1>8, <1>9, <1>10, <1>11, <1>12, <1>13, <1>14, <1>15
       DEF Step

\* The other steps of a pass leave the balances alone.
LEMMA OnlyUpdates ==
    ASSUME NEW p \in Passes, Step(p), ~Update(p)
    PROVE  UNCHANGED <<invoices, counted, others>>
BY DEF Step, Begin, Fetch, NextInvoice, Look, Unknown, Verify, Dedupe, Send,
       Insert, CallFails, tables, bounds

\* A step keeps BalanceInv if what it writes to an invoice is not more than
\* what it counts.
LEMMA BalancesKept ==
    ASSUME QRInv, BalanceInv, QRInv', RowsRead, OthersRead,
           \A i \in Invoices : counted[i] <= counted'[i],
           \A i \in Invoices : \/ invoices'[i].paid = invoices[i].paid
                               \/ invoices'[i].paid <= counted'[i]
    PROVE  BalanceInv'
<1>1. ASSUME NEW i \in Invoices
      PROVE  /\ counted[i] \in Nat /\ counted'[i] \in Nat
             /\ counted[i] <= counted'[i]
             /\ invoices[i].paid <= counted'[i]
  <2>1. counted[i] \in Nat /\ counted'[i] \in Nat /\ invoices[i].paid \in Nat
      BY DEF QRInv, TypeOK, Row
  <2>2. invoices[i].paid <= counted[i] /\ counted[i] <= counted'[i]
      BY DEF BalanceInv, NeverOvercredited
  <2> QED
      BY <2>1, <2>2
<1>2. NeverOvercredited'
    BY <1>1 DEF NeverOvercredited
<1>3. ASSUME NEW p \in Passes, NEW i \in Invoices, pass'[p].row[i] # NoRow
      PROVE  pass'[p].row[i].paid <= counted'[i]
  <2>1. CASE pass'[p].row[i] = invoices[i]
      BY <1>1, <2>1
  <2>2. CASE pass'[p].row[i] = pass[p].row[i]
    <3>1. pass[p].row[i] \in Row
        BY <1>3, <2>2 DEF QRInv, TypeOK, Pass
    <3>2. pass[p].row[i].paid \in Nat
        BY <3>1 DEF Row
    <3>3. pass[p].row[i].paid <= counted[i]
        BY <1>3, <2>2 DEF BalanceInv
    <3> QED
        BY <1>1, <2>2, <3>2, <3>3
  <2> QED
      BY <1>3, <2>1, <2>2 DEF RowsRead
<1>4. ASSUME NEW o \in Others, others'[o].row # NoRow
      PROVE  /\ others'[o].inv \in Invoices
             /\ others'[o].row.paid <= counted'[others'[o].inv]
  <2> DEFINE i == others'[o].inv
  <2>1. i \in Invoices
      BY <1>4 DEF OthersRead
  <2>2. CASE others'[o].row = invoices[i]
      BY <1>1, <2>1, <2>2
  <2>3. CASE others'[o].row = others[o].row /\ i = others[o].inv
    <3>1. others[o].row \in Row
        BY <1>4, <2>3 DEF QRInv, TypeOK, Other
    <3>2. others[o].row.paid \in Nat
        BY <3>1 DEF Row
    <3>3. others[o].row.paid <= counted[i]
        BY <1>4, <2>3 DEF BalanceInv
    <3> QED
        BY <1>1, <2>1, <2>3, <3>2, <3>3
  <2> QED
      BY <1>4, <2>1, <2>2, <2>3 DEF OthersRead
<1> QED
    BY <1>2, <1>3, <1>4 DEF BalanceInv

\* Where the other requests stay as they are, so do their rows.
LEMMA OthersReadKept ==
    ASSUME BalanceInv, UNCHANGED others
    PROVE  OthersRead
BY DEF BalanceInv, OthersRead

\* No row is read yet, and no balance is above zero.
LEMMA InitBalances == Init => BalanceInv
<1> SUFFICES ASSUME Init PROVE BalanceInv
    OBVIOUS
<1>1. \A i \in Invoices : invoices[i].paid = 0 /\ counted[i] = 0
    BY DEF Init
<1>2. \A p \in Passes, i \in Invoices : pass[p].row[i] = NoRow
    BY DEF Init, Idle
<1>3. \A o \in Others : others[o].row = NoRow
    BY DEF Init, Silent
<1> QED
    BY <1>1, <1>2, <1>3 DEF BalanceInv, NeverOvercredited

\* Another request keeps the row it reads.
LEMMA ReadsBalances ==
    ASSUME QRInv, BalanceInv, QRInv', NEW o \in Others, OtherReads(o)
    PROVE  BalanceInv'
<1>1. UNCHANGED <<invoices, counted, pass>>
    BY DEF OtherReads, tables
<1>2. RowsRead
    BY <1>1 DEF RowsRead
<1>3. OthersRead
  <2>1. others \in [Others -> Other]
      BY DEF QRInv, TypeOK
  <2>2. PICK i \in Invoices, at \in {"pay", "patch", "cancel"} :
          others' = [others EXCEPT ![o] = [at |-> at, inv |-> i,
                                           row |-> invoices[i]]]
      BY QRAssumption DEF OtherReads, QRAssumption
  <2>3. /\ others'[o].inv = i /\ others'[o].row = invoices[i]
        /\ \A q \in Others \ {o} : others'[q] = others[q]
      BY <2>1, <2>2
  <2> QED
      BY <2>3 DEF BalanceInv, OthersRead
<1>4. \A i \in Invoices : counted[i] <= counted'[i]
    BY <1>1 DEF QRInv, TypeOK
<1> QED
    BY <1>1, <1>2, <1>3, <1>4, BalancesKept

\* Another request adds what it counts to the row it has read, as a pass does.
LEMMA WritesBalances ==
    ASSUME QRInv, BalanceInv, QRInv', NEW o \in Others, OtherWrites(o)
    PROVE  BalanceInv'
<1> DEFINE j == others[o].inv
           row == others[o].row
<1>1. RowsRead
    BY DEF OtherWrites, RowsRead
<1>2. OthersRead
  <2>1. /\ others \in [Others -> Other]
        /\ others' = [others EXCEPT ![o] = [Silent EXCEPT !.at = "done"]]
      BY DEF OtherWrites, QRInv, TypeOK
  <2>2. /\ others'[o].row = NoRow
        /\ \A q \in Others \ {o} : others'[q] = others[q]
      BY <2>1 DEF Silent
  <2> QED
      BY <2>2 DEF BalanceInv, OthersRead
<1>3. j \in Invoices /\ row \in Row /\ row.paid \in Nat
    BY OtherWritten DEF Row
<1>4. \A i \in Invoices : counted[i] \in Nat
    BY DEF QRInv, TypeOK
<1>5. row.paid <= counted[j]
    BY <1>3, QRAssumption DEF BalanceInv
<1>6. \A i \in Invoices \ {j} : /\ invoices'[i] = invoices[i]
                                /\ counted'[i] = counted[i]
    BY OtherWritten
<1>7. /\ counted[j] <= counted'[j]
      /\ \/ invoices'[j].paid = invoices[j].paid
         \/ invoices'[j].paid <= counted'[j]
  <2>1. CASE \E a \in Nat : /\ invoices'[j].paid = row.paid + a
                            /\ counted'[j] = counted[j] + a
      BY <1>3, <1>4, <1>5, <2>1
  <2>2. CASE /\ invoices'[j].paid = invoices[j].paid
             /\ counted'[j] = counted[j]
      BY <1>3, <1>4, <2>2
  <2> QED
      BY <2>1, <2>2, OtherWritten
<1>8. \A i \in Invoices : counted[i] <= counted'[i]
    BY <1>4, <1>6, <1>7
<1> QED
    BY <1>1, <1>2, <1>6, <1>7, <1>8, BalancesKept

\* A pass adds what it counts to the row it has read, which was not too much
\* when it was read and is not too much now.
LEMMA UpdateBalances ==
    ASSUME QRInv, BalanceInv, QRInv', NEW p \in Passes, Update(p)
    PROVE  BalanceInv'
<1> DEFINE s == pass[p].sig
           j == pass[p].inv
           row == pass[p].row[j]
<1>1. /\ s \in Sigs /\ chain[s] # NoTx
      /\ j \in Invoices /\ row \in Row
    BY PassFine DEF Update, Fine, DistributeSteps
<1>2. chain[s].amount \in Nat /\ row.paid \in Nat
    BY <1>1 DEF QRInv, TypeOK, Tx, Row
<1>3. invoices \in [Invoices -> Row] /\ counted \in [Invoices -> Nat]
    BY DEF QRInv, TypeOK
<1>4. row.paid <= counted[j]
    BY <1>1, QRAssumption DEF BalanceInv
<1>5. /\ invoices'[j].paid = row.paid + chain[s].amount
      /\ counted'[j] = counted[j] + chain[s].amount
  <2>1. invoices[j] \in Row
      BY <1>1, <1>3
  <2> HIDE DEF row, s, j
  <2>2. AfterPayment(invoices[j], row, chain[s].amount).paid
          = row.paid + chain[s].amount
      BY <1>1, <1>2, <2>1, PaymentType
  <2> USE DEF row, s, j
  <2> QED
      BY <1>1, <1>3, <2>2 DEF Update
<1>6. \A i \in Invoices \ {j} : /\ invoices'[i] = invoices[i]
                                /\ counted'[i] = counted[i]
    BY <1>1, <1>3 DEF Update
<1>7. counted[j] \in Nat /\ \A i \in Invoices : counted[i] \in Nat
    BY <1>1, <1>3
<1>8. counted[j] <= counted'[j] /\ invoices'[j].paid <= counted'[j]
    BY <1>2, <1>4, <1>5, <1>7
<1>9. \A i \in Invoices : counted[i] <= counted'[i]
    BY <1>6, <1>7, <1>8
<1>10. RowsRead /\ OthersRead
    BY PassesRead, OthersReadKept DEF Step, Update, bounds
<1> QED
    BY <1>6, <1>8, <1>9, <1>10, BalancesKept

LEMMA NextBalances == QRInv /\ BalanceInv /\ [Next]_vars => BalanceInv'
<1> SUFFICES ASSUME QRInv, BalanceInv, [Next]_vars PROVE BalanceInv'
    OBVIOUS
<1>1. QRInv'
    BY NextQR
<1>2. \A i \in Invoices : counted[i] \in Nat /\ counted[i] <= counted[i]
    BY DEF QRInv, TypeOK
<1>3. ASSUME NEW s \in Sigs, Pay(s) PROVE BalanceInv'
  <2>1. UNCHANGED <<invoices, counted, pass, others>>
      BY <1>3 DEF Pay, tables, bounds
  <2> QED
      BY <1>1, <1>2, <2>1, BalancesKept, OthersReadKept DEF RowsRead
<1>4. ASSUME NEW p \in Passes, Step(p), ~Update(p) PROVE BalanceInv'
  <2>1. UNCHANGED <<invoices, counted, others>> /\ RowsRead
      BY <1>4, OnlyUpdates, PassesRead
  <2> QED
      BY <1>1, <1>2, <2>1, BalancesKept, OthersReadKept
<1>5. CASE Crash
  <2>1. UNCHANGED <<invoices, counted, others>>
      BY <1>5 DEF Crash, tables
  <2>2. RowsRead
      BY <1>5 DEF Crash, Idle, RowsRead
  <2> QED
      BY <1>1, <1>2, <2>1, <2>2, BalancesKept, OthersReadKept
<1>6. CASE UNCHANGED vars
  <2>1. UNCHANGED <<invoices, counted, pass, others>>
      BY <1>6 DEF vars, tables, bounds
  <2> QED
      BY <1>1, <1>2, <2>1, BalancesKept, OthersReadKept DEF RowsRead
<1> QED
    BY <1>1, <1>3, <1>4, <1>5, <1>6, ReadsBalances, WritesBalances,
       UpdateBalances DEF Next

-----------------------------------------------------------------------------

\* QRInv is an invariant of the payments by QR code
\* (server/qr-payment-processor.ts).
THEOREM QRPayment == Spec => []QRInv
<1> QED
    BY InitQR, NextQR, PTL DEF Spec

\* distributePayment adds a payment to the balance at most once, and only with
\* a row of its own, however many passes overlap.
THEOREM Crediting == Spec => []CreditedOnce
<1>1. QRInv => CreditedOnce
    BY DEF QRInv
<1> QED
    BY <1>1, QRPayment, PTL

\* distributePayment records only payments the invoicer was sent his share of.
THEOREM Forwarding == Spec => []RecordedWasForwarded
<1>1. QRInv => RecordedWasForwarded
    BY DEF QRInv
<1> QED
    BY <1>1, QRPayment, PTL

\* processedSignatures holds only signatures that were recorded, or refused for
\* their amount, whatever failed.
THEOREM Dropping == Spec => []DroppedForAReason
<1>1. QRInv => DroppedForAReason
    BY DEF QRInv
<1> QED
    BY <1>1, QRPayment, PTL

\* updateInvoice writes a balance computed from a row as old as the pass, and
\* others write theirs in between: payments may be lost from a balance, but it
\* never has more than was added to it, however many passes overlap.
THEOREM Balances == Spec => []NeverOvercredited
<1>1. Spec => []BalanceInv
    BY InitQR, NextQR, InitBalances, NextBalances, PTL DEF Spec
<1>2. BalanceInv => NeverOvercredited
    BY DEF BalanceInv
<1> QED
    BY <1>1, <1>2, PTL

=============================================================================
