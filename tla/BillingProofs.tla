---------------------------- MODULE BillingProofs ----------------------------
(* Proofs about SubscriptionBilling, for all sets of subscriptions, cycles   *)
(* and requests, all plans, and any number of faults.                        *)
EXTENDS SubscriptionBilling, TLAPS

LEMMA RenewalType ==
    ASSUME NEW s \in Subs
    PROVE  RenewalOf(s) = 30
  BY BillingAssumption DEF RenewalOf, BillingAssumption

LEMMA PeriodType ==
    ASSUME NEW s \in Subs
    PROVE  PeriodOf(s) \in Nat
  <1>1. Interval[s] \in {"weekly", "monthly", "yearly"} /\ Count[s] \in Nat
    BY BillingAssumption DEF BillingAssumption
  <1>2. CASE Interval[s] = "weekly"
    BY <1>1, <1>2 DEF PeriodOf
  <1>3. CASE Interval[s] = "monthly"
    BY <1>1, <1>3 DEF PeriodOf
  <1>4. CASE Interval[s] = "yearly"
    BY <1>1, <1>4 DEF PeriodOf
  <1> QED
    BY <1>1, <1>2, <1>3, <1>4

-----------------------------------------------------------------------------
(* Types.                                                                    *)

LEMMA OnwardType ==
    ASSUME TypeOK, NEW c \in Cycles
    PROVE  Onward(c) \in CycleRow
  <1>1. cycle[c] \in CycleRow /\ NewRow \in Row
    BY DEF TypeOK, Row, NewRow, Present
  <1>2. [s \in Subs |-> IF s \in cycle[c].todo THEN cycle[c].row[s] ELSE NewRow]
          \in [Subs -> Row]
    BY <1>1 DEF CycleRow
  <1> QED
    BY <1>1, <1>2 DEF Onward, CycleRow

\* Writing to a row leaves a row.
LEMMA RowType ==
    ASSUME NEW row \in Row, NEW e \in Nat, NEW v \in Nat
    PROVE  /\ [row EXCEPT !.end = e, !.version = v] \in Row
           /\ [row EXCEPT !.status = "cancelled", !.version = v] \in Row
           /\ row.version + 1 \in Nat
  <1>1. row.version \in Nat
    BY DEF Row
  <1>2. [row EXCEPT !.end = e, !.version = v] \in Row
    BY DEF Row
  <1>3. [row EXCEPT !.status = "cancelled", !.version = v] \in Row
    BY DEF Row, Present
  <1> QED
    BY <1>1, <1>2, <1>3

LEMMA IdleType == IdleCycle \in CycleRow /\ Answered \in RequestRow
  BY DEF IdleCycle, Answered, IdleRequest, CycleRow, RequestRow, Row, NewRow,
         Present

LEMMA TypeInit == Init => TypeOK
  BY BillingAssumption
  DEF Init, TypeOK, IdleCycle, IdleRequest, CycleRow, RequestRow, Row, NewRow,
      Present, BillingAssumption

LEMMA TypeStep ==
    ASSUME BillingInv, [Next]_vars
    PROVE  TypeOK'
  <1> USE IdleType DEF BillingInv
  <1>1. CASE Tick
    BY <1>1, BillingAssumption
    DEF Tick, TypeOK, rows, bills, BillingAssumption
  <1>2. CASE Cleanup
    <2>1. subs' \in [Subs -> Row]
      BY <1>2 DEF Cleanup, TypeOK, Row
    <2> QED
      BY <1>2, <2>1 DEF Cleanup, TypeOK, bills
  <1>3. CASE Crash
    BY <1>3 DEF Crash, TypeOK, rows, bills
  <1>4. ASSUME NEW s \in Subs, Create(s)
        PROVE  TypeOK'
    <2>1. today + PeriodOf(s) \in Nat
      BY PeriodType DEF TypeOK
    <2> QED
      BY <1>4, <2>1 DEF Create, TypeOK, Row, Present, bills
  <1>5. ASSUME NEW s \in Subs, Activate(s)
        PROVE  TypeOK'
    BY <1>5 DEF Activate, TypeOK, Row, Present, bills
  <1>6. ASSUME NEW c \in Cycles, Begin(c)
        PROVE  TypeOK'
    <2>1. [s \in Subs |-> IF Due(s) THEN subs[s] ELSE NewRow] \in [Subs -> Row]
      BY DEF TypeOK, Row, NewRow, Present
    <2>2. cycle' \in [Cycles -> CycleRow]
      BY <1>6, <2>1 DEF Begin, TypeOK, IdleCycle, CycleRow
    <2> QED
      BY <1>6, <2>2 DEF Begin, TypeOK, rows, bills
  <1>7. ASSUME NEW c \in Cycles, Pick(c)
        PROVE  TypeOK'
    <2>0. cycle[c] \in CycleRow
      BY DEF TypeOK
    <2>1. ASSUME NEW s \in cycle[c].todo,
                 cycle' = [cycle EXCEPT ![c].at = "insert", ![c].sub = s,
                                        ![c].todo = cycle[c].todo \ {s}]
          PROVE  cycle' \in [Cycles -> CycleRow]
      <3>1. s \in Subs /\ cycle[c].todo \ {s} \in SUBSET Subs
        BY <2>0 DEF CycleRow
      <3>2. [cycle[c] EXCEPT !.at = "insert", !.sub = s,
                             !.todo = cycle[c].todo \ {s}] \in CycleRow
        BY <2>0, <3>1 DEF CycleRow
      <3>3. cycle' = [cycle EXCEPT ![c] =
                        [cycle[c] EXCEPT !.at = "insert", !.sub = s,
                                         !.todo = cycle[c].todo \ {s}]]
        BY <2>1 DEF TypeOK
      <3> QED
        BY <3>2, <3>3 DEF TypeOK
    <2>2. ASSUME cycle' = [cycle EXCEPT ![c] = IdleCycle]
          PROVE  cycle' \in [Cycles -> CycleRow]
      BY <2>2 DEF TypeOK
    <2>3. cycle' \in [Cycles -> CycleRow]
      BY <1>7, <2>1, <2>2 DEF Pick
    <2>4. UNCHANGED <<subs, first, byHand, invoices, lined, made, late, req,
                      today, faults>>
      BY <1>7 DEF Pick, rows, bills
    <2> QED
      BY <2>3, <2>4 DEF TypeOK
  <1>8. ASSUME NEW c \in Cycles, Insert(c)
        PROVE  TypeOK'
    <2>1. cycle[c].sub \in Subs /\ cycle[c].row[cycle[c].sub].end \in Nat
      BY <1>8 DEF Insert, CycleInv, TypeOK, CycleRow, Row
    <2>0. cycle[c] \in CycleRow /\ made \in Nat
      BY DEF TypeOK
    <2>4. [cycle[c] EXCEPT !.at = "items", !.id = made] \in CycleRow
      BY <2>0 DEF CycleRow
    <2>5. \/ cycle' = [cycle EXCEPT ![c] = Onward(c)]
          \/ cycle' = [cycle EXCEPT ![c] =
                        [cycle[c] EXCEPT !.at = "items", !.id = made]]
      BY <1>8 DEF Insert, AfterError, TypeOK
    <2>2. cycle' \in [Cycles -> CycleRow]
      BY <2>4, <2>5, OnwardType DEF TypeOK
    <2>3. invoices' \subseteq Invoice /\ late' \in [Subs -> Nat]
           /\ made' \in Nat /\ lined' = lined
      BY <1>8, <2>1 DEF Insert, TypeOK, Invoice, bills
    <2> QED
      BY <1>8, <2>2, <2>3 DEF Insert, TypeOK, rows
  <1>9. ASSUME NEW c \in Cycles, Items(c)
        PROVE  TypeOK'
    <2>1. cycle[c] \in CycleRow
      BY DEF TypeOK
    <2>2. [cycle[c] EXCEPT !.at = "update"] \in CycleRow
      BY <2>1 DEF CycleRow
    <2>3. cycle' = [cycle EXCEPT ![c] = [cycle[c] EXCEPT !.at = "update"]]
      BY <1>9 DEF Items, TypeOK
    <2>4. cycle' \in [Cycles -> CycleRow]
      BY <2>2, <2>3 DEF TypeOK
    <2>5. lined' \subseteq Nat
      BY <1>9, <2>1 DEF Items, CycleRow, TypeOK
    <2>6. UNCHANGED <<subs, first, byHand, invoices, made, late, req,
                      today, faults>>
      BY <1>9 DEF Items, rows
    <2> QED
      BY <2>4, <2>5, <2>6 DEF TypeOK
  <1>10. ASSUME NEW c \in Cycles, Update(c)
         PROVE  TypeOK'
    <2>1. cycle[c].sub \in Subs /\ cycle[c].row[cycle[c].sub].end \in Nat
      BY <1>10 DEF Update, CycleInv, TypeOK, CycleRow, Row
    <2>2. subs[cycle[c].sub] \in Row /\ RenewalOf(cycle[c].sub) = 30
      BY <2>1, RenewalType DEF TypeOK
    <2>3. Renewed(c, cycle[c].sub) \in Row
      <3>1. cycle[c].row[cycle[c].sub].end + RenewalOf(cycle[c].sub) \in Nat
             /\ subs[cycle[c].sub].version + 1 \in Nat
        BY <2>1, <2>2 DEF Row
      <3> QED
        BY <2>2, <3>1, RowType DEF Renewed
    <2> QED
      BY <1>10, <2>1, <2>3, OnwardType DEF Update, TypeOK, bills
  <1>11. ASSUME NEW c \in Cycles, StatementFails(c)
         PROVE  TypeOK'
    BY <1>11, OnwardType DEF StatementFails, AfterError, TypeOK, rows, bills
  <1>12. ASSUME NEW r \in Requests, Receive(r)
         PROVE  TypeOK'
    BY <1>12 DEF Receive, TypeOK, RequestRow, rows, bills
  <1>13. ASSUME NEW r \in Requests, Refuse(r)
         PROVE  TypeOK'
    BY <1>13 DEF Refuse, TypeOK, rows, bills
  <1>14. ASSUME NEW r \in Requests, Confirm(r)
         PROVE  TypeOK'
    <2>1. req[r].sub \in Subs
      BY <1>14 DEF Confirm, VersionInv
    <2>2. subs[req[r].sub] \in Row /\ today \in Nat
      BY <2>1 DEF TypeOK
    <2>4. subs[req[r].sub].version + 1 \in Nat /\ today + 30 \in Nat
      BY <2>2 DEF Row
    <2>3. AfterConfirm(r, subs[req[r].sub]) \in Row
      <3>1. CASE req[r].kind = "cancel"
        BY <2>2, <2>4, <3>1, RowType DEF AfterConfirm
      <3>2. CASE req[r].kind # "cancel"
        BY <2>2, <2>4, <3>2, RowType DEF AfterConfirm
      <3> QED
        BY <3>1, <3>2
    <2> QED
      BY <1>14, <2>1, <2>3 DEF Confirm, TypeOK, bills
  <1>15. CASE UNCHANGED vars
    BY <1>15 DEF vars, TypeOK, rows, bills
  <1> QED
    BY <1>1, <1>2, <1>3, <1>4, <1>5, <1>6, <1>7, <1>8, <1>9, <1>10, <1>11,
       <1>12, <1>13, <1>14, <1>15 DEF Next, Step

-----------------------------------------------------------------------------
(* The steps of the other conjuncts, by what a step leaves alone.            *)

Others ==
    /\ BilledOnce
    /\ InvoiceInv
    /\ CycleInv
    /\ PeriodInv
    /\ LateInv
    /\ LastPeriodBilled

LEMMA InvOthers == BillingInv <=> TypeOK /\ VersionInv /\ Others
  BY DEF BillingInv, Others

\* Cycles that forget rows, or read what is due.
LEMMA CyclesMove ==
    ASSUME BillingInv,
           UNCHANGED <<subs, first, byHand, invoices, lined, made, late>>,
           \A c \in Cycles :
             /\ cycle'[c].at \in {"insert", "items", "update"} =>
                  cycle'[c].sub \in Subs
             /\ cycle'[c].at = "idle" => cycle'[c].todo = {}
             /\ cycle'[c].at \in {"items", "update"} => cycle'[c] = cycle[c],
           \A c \in Cycles, s \in Subs :
             Holds(c, s)' =>
               \/ Holds(c, s) /\ cycle'[c].row[s] = cycle[c].row[s]
               \/ subs[s].status = "active" /\ cycle'[c].row[s] = subs[s]
    PROVE  Others'
  <1>1. \A c \in Cycles, s \in Subs :
          Bills(c, s)' => Bills(c, s) /\ cycle'[c] = cycle[c]
    BY DEF Bills
  <1>2. \A s \in Subs : \A e : Billed(s, e)' <=> Billed(s, e)
    BY DEF Billed
  <1>3. BilledOnce' /\ InvoiceInv' /\ LastPeriodBilled'
    BY DEF BillingInv, BilledOnce, InvoiceInv, LastPeriodBilled, InTable,
           RenewalOf
  <1>4. CycleInv'
    BY <1>1 DEF BillingInv, CycleInv
  <1>5. PeriodInv'
    BY <1>1, <1>2 DEF BillingInv, PeriodInv
  <1>6. LateInv'
    BY <1>2 DEF BillingInv, LateInv
  <1> QED
    BY <1>3, <1>4, <1>5, <1>6 DEF Others

\* A subscription nobody has seen active has no invoice and is in no cycle.
LEMMA Untouched ==
    ASSUME BillingInv, NEW s \in Subs,
           subs[s].status \notin {"active", "cancelled"}
    PROVE  /\ \A i \in invoices : i.sub # s
           /\ \A c \in Cycles : ~Holds(c, s) /\ ~Bills(c, s)
           /\ ~(late[s] > 0 /\ ~byHand[s])
  BY DEF BillingInv, InvoiceInv, CycleInv, LateInv

\* Writes to rows that move no period, except of those minted by hand.
LEMMA RowsMove ==
    ASSUME BillingInv,
           UNCHANGED <<invoices, lined, made, late, cycle>>,
           \A s \in Subs : ~byHand'[s] => ~byHand[s],
           \A s \in Subs :
             subs[s].status \in {"active", "cancelled"} =>
               /\ subs'[s].status \in {subs[s].status, "cancelled"}
               /\ ~byHand'[s] => subs'[s].end = subs[s].end,
           \A s \in Subs :
             ~byHand'[s] /\ InTable(s)' /\ subs'[s].end # first'[s] =>
               /\ InTable(s)
               /\ subs'[s].end = subs[s].end
               /\ first'[s] = first[s]
    PROVE  Others'
  <1>0. \A s \in Subs :
          subs[s].status \in {"active", "cancelled"} =>
            subs'[s].status \in {"active", "cancelled"}
    OBVIOUS
  <1>1. \A s \in Subs : RenewalOf(s)' = RenewalOf(s)
    BY DEF RenewalOf
  <1>2. \A s \in Subs : \A e : Billed(s, e)' <=> Billed(s, e)
    BY DEF Billed
  <1>3. \A c \in Cycles, s \in Subs :
          (Holds(c, s)' <=> Holds(c, s)) /\ (Bills(c, s)' <=> Bills(c, s))
    BY DEF Holds, Bills
  <1>t. invoices \subseteq Invoice /\ byHand \in [Subs -> BOOLEAN]
    BY DEF BillingInv, TypeOK
  <1>4. BilledOnce'
    BY DEF BillingInv, BilledOnce
  <1>5. InvoiceInv'
    <2>1. \A i \in invoices : i.sub \in Subs
      BY <1>t DEF Invoice
    <2> QED
      BY <1>0, <2>1 DEF BillingInv, InvoiceInv
  <1>6. CycleInv'
    BY <1>0, <1>3 DEF BillingInv, CycleInv
  <1>7. PeriodInv'
    <2> SUFFICES ASSUME NEW s \in Subs, ~byHand'[s]
                 PROVE  /\ \A i \in invoices : i.sub = s => i.end <= subs'[s].end
                        /\ \A c \in Cycles :
                             /\ Holds(c, s) =>
                                  \/ cycle[c].row[s].end = subs'[s].end
                                  \/ Billed(s, cycle[c].row[s].end)
                             /\ Bills(c, s) =>
                                  cycle[c].row[s].end = subs'[s].end
      BY <1>2, <1>3 DEF PeriodInv
    <2>1. CASE subs[s].status \in {"active", "cancelled"}
      BY <2>1 DEF BillingInv, PeriodInv
    <2>2. CASE subs[s].status \notin {"active", "cancelled"}
      BY <2>2, Untouched
    <2> QED
      BY <2>1, <2>2
  <1>8. LateInv'
    <2> SUFFICES ASSUME NEW s \in Subs, ~byHand'[s], late[s] > 0
                 PROVE  /\ late[s] = 1
                        /\ subs'[s].status = "cancelled"
                        /\ \A c \in Cycles :
                             Holds(c, s) => Billed(s, cycle[c].row[s].end)
      BY <1>2, <1>3 DEF LateInv
    <2>1. ~byHand[s] /\ subs[s].status = "cancelled"
      BY DEF BillingInv, LateInv
    <2> QED
      BY <2>1 DEF BillingInv, LateInv
  <1>9. LastPeriodBilled'
    <2> SUFFICES ASSUME NEW s \in Subs, ~byHand'[s], InTable(s)',
                        subs'[s].end # first'[s]
                 PROVE  \E i \in invoices :
                          /\ i.sub = s
                          /\ i.end + RenewalOf(s) = subs'[s].end
                          /\ i.id \in lined
      BY <1>1 DEF LastPeriodBilled
    <2>1. ~byHand[s] /\ InTable(s) /\ subs[s].end # first[s]
      OBVIOUS
    <2> QED
      BY <2>1 DEF BillingInv, LastPeriodBilled
  <1> QED
    BY <1>4, <1>5, <1>6, <1>7, <1>8, <1>9 DEF Others

-----------------------------------------------------------------------------
(* The statements of a cycle.                                                *)

\* The cycle's own part in a step that ends with Onward.
LEMMA OnwardHolds ==
    ASSUME TypeOK, NEW c \in Cycles, NEW s \in Subs,
           cycle[c].at \in {"insert", "items", "update"},
           cycle' = [cycle EXCEPT ![c] = Onward(c)]
    PROVE  /\ cycle'[c].at = "next"
           /\ ~Bills(c, s)'
           /\ Holds(c, s)' => Holds(c, s) /\ cycle'[c].row[s] = cycle[c].row[s]
           /\ \A d \in Cycles \ {c} : cycle'[d] = cycle[d]
  <1>1. cycle[c] \in CycleRow /\ cycle'[c] = Onward(c)
    BY DEF TypeOK
  <1>2. /\ Onward(c).at = "next"
        /\ Onward(c).todo = cycle[c].todo
        /\ s \in cycle[c].todo => Onward(c).row[s] = cycle[c].row[s]
    BY <1>1 DEF Onward, CycleRow
  <1>3. \A d \in Cycles \ {c} : cycle'[d] = cycle[d]
    BY DEF TypeOK
  <1> QED
    BY <1>1, <1>2, <1>3 DEF Holds, Bills

LEMMA InsertStep ==
    ASSUME BillingInv, NEW c \in Cycles, Insert(c)
    PROVE  Others'
  <1> DEFINE t == cycle[c].sub
             e == cycle[c].row[t].end
             new == [sub |-> t, end |-> e, id |-> made]
  <1>t. TypeOK
    BY DEF BillingInv
  <1>1. t \in Subs /\ Holds(c, t) /\ e \in Nat /\ cycle[c].at = "insert"
    BY DEF Insert, BillingInv, CycleInv, TypeOK, CycleRow, Row, Holds
  <1>2. CASE Duplicate(t, e)
    <2>1. cycle' = [cycle EXCEPT ![c] = Onward(c)] /\ UNCHANGED <<rows, bills>>
      BY <1>2 DEF Insert, AfterError
    <2>2. \A s \in Subs :
            /\ cycle'[c].at = "next"
            /\ Holds(c, s)' =>
                 Holds(c, s) /\ cycle'[c].row[s] = cycle[c].row[s]
            /\ \A d \in Cycles \ {c} : cycle'[d] = cycle[d]
      BY <1>t, <1>1, <2>1, OnwardHolds
    <2>3. \A d \in Cycles \ {c}, s \in Subs : Holds(d, s)' => Holds(d, s)
      BY <2>2 DEF Holds
    <2>4. \A d \in Cycles :
             /\ cycle'[d].at \in {"insert", "items", "update"} =>
                  cycle'[d].sub \in Subs
             /\ cycle'[d].at = "idle" => cycle'[d].todo = {}
             /\ cycle'[d].at \in {"items", "update"} => cycle'[d] = cycle[d]
      <3> TAKE d \in Cycles
      <3>1. CASE d = c
        BY <1>1, <2>2, <3>1
      <3>2. CASE d # c
        BY <1>1, <2>2, <3>2 DEF BillingInv, CycleInv
      <3> QED
        BY <3>1, <3>2
    <2>5. \A d \in Cycles, s \in Subs :
            Holds(d, s)' => Holds(d, s) /\ cycle'[d].row[s] = cycle[d].row[s]
      BY <2>2, <2>3
    <2> QED
      BY <2>1, <2>4, <2>5, CyclesMove DEF rows, bills
  <1>3. CASE ~Duplicate(t, e)
    <2>1. /\ invoices' = invoices \cup {new}
          /\ made' = made + 1
          /\ late' = IF subs[t].status = "cancelled"
                     THEN [late EXCEPT ![t] = late[t] + 1] ELSE late
          /\ cycle' = [cycle EXCEPT ![c] =
                         [cycle[c] EXCEPT !.at = "items", !.id = made]]
          /\ UNCHANGED <<subs, first, byHand, lined>>
      BY <1>3, <1>t DEF Insert, rows, TypeOK
    <2>2. cycle[c] \in CycleRow /\ made \in Nat /\ invoices \subseteq Invoice
      BY <1>t DEF TypeOK
    <2>3. /\ cycle'[c].at = "items"
          /\ cycle'[c].sub = t
          /\ cycle'[c].id = made
          /\ cycle'[c].row = cycle[c].row
          /\ cycle'[c].todo = cycle[c].todo
          /\ \A d \in Cycles \ {c} : cycle'[d] = cycle[d]
      BY <2>1, <2>2, <1>t DEF TypeOK, CycleRow
    <2>4. ~Billed(t, e)
      BY <1>3 DEF Duplicate
    <2>5. /\ \A i \in invoices : i \in invoices'
          /\ new \in invoices' /\ new.sub = t /\ new.end = e
          /\ \A i \in invoices' : i \in invoices \/ i = new
      BY <2>1
    <2>6. \A d \in Cycles, s \in Subs :
            Holds(d, s)' => Holds(d, s) /\ cycle'[d].row[s] = cycle[d].row[s]
      BY <1>1, <2>3 DEF Holds
    <2>7. \A d \in Cycles, s \in Subs :
            Bills(d, s)' =>
              /\ cycle'[d].row[s] = cycle[d].row[s]
              /\ \/ d = c /\ s = t
                 \/ d # c /\ cycle'[d] = cycle[d] /\ Bills(d, s)
      BY <2>3 DEF Bills
    <2>8. BilledOnce'
      BY <2>1, <2>4 DEF BillingInv, BilledOnce, Billed
    <2>9. InvoiceInv'
      <3>1. subs[t].status \in {"active", "cancelled"}
        BY <1>1 DEF BillingInv, CycleInv
      <3>2. \A i \in invoices : i.id \in Nat /\ i.id < made
        BY <2>2 DEF BillingInv, InvoiceInv, Invoice
      <3> QED
        BY <2>1, <2>2, <3>1, <3>2 DEF BillingInv, InvoiceInv
    <2>10. CycleInv'
      <3>1. \A d \in Cycles, s \in Subs : Bills(d, s) => cycle[d].id # made
        <4> SUFFICES ASSUME NEW d \in Cycles, NEW s \in Subs, Bills(d, s)
                     PROVE  cycle[d].id # made
          OBVIOUS
        <4>1. PICK i \in invoices : i.id = cycle[d].id
          BY DEF BillingInv, CycleInv
        <4>2. i.id < made /\ i.id \in Nat
          BY <2>2 DEF BillingInv, InvoiceInv, Invoice
        <4> QED
          BY <2>2, <4>1, <4>2
      <3>2. \A d \in Cycles \ {c} :
              cycle[d].at \in {"items", "update"} =>
                cycle[d].id # made /\ cycle[d].sub \in Subs
        BY <3>1 DEF BillingInv, CycleInv, Bills
      <3>3. \A d \in Cycles :
              /\ cycle'[d].at \in {"insert", "items", "update"} =>
                   cycle'[d].sub \in Subs
              /\ cycle'[d].at = "idle" => cycle'[d].todo = {}
              /\ \A s \in Subs :
                   Holds(d, s)' => subs'[s].status \in {"active", "cancelled"}
        BY <1>1, <2>1, <2>3, <2>6 DEF BillingInv, CycleInv
      <3>4. ASSUME NEW d \in Cycles, NEW s \in Subs, Bills(d, s)'
            PROVE  /\ \E i \in invoices' :
                        /\ i.sub = s
                        /\ i.end = cycle'[d].row[s].end
                        /\ i.id = cycle'[d].id
                   /\ cycle'[d].at = "update" => cycle'[d].id \in lined'
                   /\ \A g \in Cycles \ {d} :
                        cycle'[g].at \in {"items", "update"} =>
                          cycle'[g].id # cycle'[d].id
        <4>1. CASE d = c /\ s = t
          <5>1. /\ \A g \in Cycles \ {d} :
                     cycle'[g].at \in {"items", "update"} =>
                       cycle'[g].id # cycle'[d].id
            BY <2>3, <3>2, <4>1
          <5> QED
            BY <2>1, <2>3, <2>5, <4>1, <5>1
        <4>2. CASE d # c /\ cycle'[d] = cycle[d] /\ Bills(d, s)
          <5>1. /\ \E i \in invoices :
                     /\ i.sub = s
                     /\ i.end = cycle[d].row[s].end
                     /\ i.id = cycle[d].id
                /\ cycle[d].at = "update" => cycle[d].id \in lined
                /\ \A g \in Cycles \ {d} :
                     cycle[g].at \in {"items", "update"} =>
                       cycle[g].id # cycle[d].id
            BY <4>2 DEF BillingInv, CycleInv
          <5> QED
            BY <2>1, <2>3, <3>1, <4>2, <5>1
        <4> QED
          BY <2>7, <3>4, <4>1, <4>2
      <3> QED
        BY <3>3, <3>4 DEF CycleInv
    <2>11. PeriodInv'
      <3> SUFFICES ASSUME NEW s \in Subs, ~byHand[s]
                   PROVE  /\ \A i \in invoices' : i.sub = s => i.end <= subs[s].end
                          /\ \A d \in Cycles :
                               /\ Holds(d, s)' =>
                                    \/ cycle'[d].row[s].end = subs[s].end
                                    \/ Billed(s, cycle[d].row[s].end)'
                               /\ Bills(d, s)' =>
                                    cycle'[d].row[s].end = subs[s].end
        BY <2>1 DEF PeriodInv
      <3>1. s = t => e = subs[s].end
        BY <1>1, <2>4 DEF BillingInv, PeriodInv
      <3>2. \A i \in invoices' : i.sub = s => i.end <= subs[s].end
        BY <1>1, <2>1, <3>1 DEF BillingInv, PeriodInv
      <3>3. \A d \in Cycles :
              Holds(d, s)' => \/ cycle'[d].row[s].end = subs[s].end
                              \/ Billed(s, cycle[d].row[s].end)'
        BY <2>5, <2>6 DEF BillingInv, PeriodInv, Billed
      <3>4. \A d \in Cycles :
              Bills(d, s)' => cycle'[d].row[s].end = subs[s].end
        BY <2>7, <3>1 DEF BillingInv, PeriodInv
      <3> QED
        BY <3>2, <3>3, <3>4
    <2>12. LateInv'
      <3> SUFFICES ASSUME NEW s \in Subs, ~byHand[s], late'[s] > 0
                   PROVE  /\ late'[s] = 1
                          /\ subs[s].status = "cancelled"
                          /\ \A d \in Cycles :
                               Holds(d, s)' => Billed(s, cycle[d].row[s].end)'
        BY <2>1 DEF LateInv
      <3>t. late \in [Subs -> Nat]
        BY <1>t DEF TypeOK
      <3>1. CASE late[s] > 0
        <4>1. /\ late[s] = 1
              /\ subs[s].status = "cancelled"
              /\ \A d \in Cycles : Holds(d, s) => Billed(s, cycle[d].row[s].end)
          BY <3>1 DEF BillingInv, LateInv
        <4>2. s # t
          BY <1>1, <2>4, <4>1
        <4> QED
          BY <2>1, <2>5, <2>6, <3>t, <4>1, <4>2 DEF Billed
      <3>2. CASE ~(late[s] > 0)
        <4>1. late[s] = 0
          BY <3>2, <3>t
        <4>2. s = t /\ subs[t].status = "cancelled" /\ late'[s] = 1
          BY <1>1, <2>1, <3>t, <4>1
        <4>3. e = subs[s].end
          BY <1>1, <2>4, <4>2 DEF BillingInv, PeriodInv
        <4> QED
          BY <2>5, <2>6, <4>2, <4>3 DEF BillingInv, PeriodInv, Billed
      <3> QED
        BY <3>1, <3>2
    <2>13. LastPeriodBilled'
      BY <2>1 DEF BillingInv, LastPeriodBilled, InTable, RenewalOf
    <2> QED
      BY <2>8, <2>9, <2>10, <2>11, <2>12, <2>13 DEF Others
  <1> QED
    BY <1>2, <1>3

LEMMA ItemsStep ==
    ASSUME BillingInv, NEW c \in Cycles, Items(c)
    PROVE  Others'
  <1>1. /\ cycle[c].at = "items"
        /\ cycle' = [cycle EXCEPT ![c] = [cycle[c] EXCEPT !.at = "update"]]
        /\ lined' = lined \cup {cycle[c].id}
        /\ UNCHANGED <<subs, first, byHand, invoices, made, late>>
    BY DEF Items, rows, BillingInv, TypeOK
  <1>2. /\ cycle'[c].at = "update"
        /\ cycle'[c].sub = cycle[c].sub
        /\ cycle'[c].id = cycle[c].id
        /\ cycle'[c].row = cycle[c].row
        /\ cycle'[c].todo = cycle[c].todo
        /\ \A d \in Cycles \ {c} : cycle'[d] = cycle[d]
    BY <1>1 DEF BillingInv, TypeOK, CycleRow
  <1>3. \A d \in Cycles :
          /\ cycle'[d].id = cycle[d].id
          /\ cycle'[d].sub = cycle[d].sub
          /\ cycle'[d].row = cycle[d].row
          /\ cycle'[d].todo = cycle[d].todo
          /\ cycle'[d].at \in {"items", "update"} <=>
               cycle[d].at \in {"items", "update"}
          /\ cycle'[d].at = "update" => d = c \/ cycle[d].at = "update"
          /\ cycle'[d].at \in {"insert", "idle"} => cycle'[d] = cycle[d]
          /\ cycle'[d].at = "idle" <=> cycle[d].at = "idle"
          /\ cycle'[d].at = "insert" <=> cycle[d].at = "insert"
    BY <1>1, <1>2
  <1>4. \A d \in Cycles, s \in Subs :
          (Holds(d, s)' <=> Holds(d, s)) /\ (Bills(d, s)' <=> Bills(d, s))
    BY <1>3 DEF Holds, Bills
  <1>5. BilledOnce' /\ InvoiceInv'
    BY <1>1 DEF BillingInv, BilledOnce, InvoiceInv
  <1>6. CycleInv'
    <2>1. \A d \in Cycles :
            /\ cycle'[d].at \in {"insert", "items", "update"} =>
                 cycle'[d].sub \in Subs
            /\ cycle'[d].at = "idle" => cycle'[d].todo = {}
            /\ \A s \in Subs :
                 Holds(d, s)' => subs'[s].status \in {"active", "cancelled"}
      BY <1>1, <1>3, <1>4 DEF BillingInv, CycleInv
    <2>2. ASSUME NEW d \in Cycles, NEW s \in Subs, Bills(d, s)'
          PROVE  /\ \E i \in invoices' :
                      /\ i.sub = s
                      /\ i.end = cycle'[d].row[s].end
                      /\ i.id = cycle'[d].id
                 /\ cycle'[d].at = "update" => cycle'[d].id \in lined'
                 /\ \A g \in Cycles \ {d} :
                      cycle'[g].at \in {"items", "update"} =>
                        cycle'[g].id # cycle'[d].id
      <3>1. /\ \E i \in invoices :
                 /\ i.sub = s
                 /\ i.end = cycle[d].row[s].end
                 /\ i.id = cycle[d].id
            /\ cycle[d].at = "update" => cycle[d].id \in lined
            /\ \A g \in Cycles \ {d} :
                 cycle[g].at \in {"items", "update"} =>
                   cycle[g].id # cycle[d].id
        BY <1>4, <2>2 DEF BillingInv, CycleInv
      <3> QED
        BY <1>1, <1>3, <3>1
    <2> QED
      BY <2>1, <2>2 DEF CycleInv
  <1>7. PeriodInv'
    BY <1>1, <1>3, <1>4 DEF BillingInv, PeriodInv, Billed
  <1>8. LateInv'
    BY <1>1, <1>3, <1>4 DEF BillingInv, LateInv, Billed
  <1>9. LastPeriodBilled'
    BY <1>1 DEF BillingInv, LastPeriodBilled, InTable, RenewalOf
  <1> QED
    BY <1>5, <1>6, <1>7, <1>8, <1>9 DEF Others

\* What an update finds: the invoice it has made, with its line item.
LEMMA UpdateFacts ==
    ASSUME BillingInv, NEW c \in Cycles, Update(c)
    PROVE  LET t == cycle[c].sub
           IN /\ t \in Subs
              /\ cycle[c].at = "update"
              /\ Bills(c, t)
              /\ subs[t].status \in {"active", "cancelled"}
              /\ cycle' = [cycle EXCEPT ![c] = Onward(c)]
              /\ subs' = [subs EXCEPT ![t] =
                            [subs[t] EXCEPT !.end = cycle[c].row[t].end + 30,
                                            !.version = subs[t].version + 1]]
              /\ cycle[c].row[t].end \in Nat
              /\ \E i \in invoices :
                   /\ i.sub = t
                   /\ i.end = cycle[c].row[t].end
                   /\ i.id = cycle[c].id
                   /\ i.id \in lined
              /\ UNCHANGED <<first, byHand, invoices, lined, made, late, req>>
  <1> DEFINE t == cycle[c].sub
  <1>1. cycle[c].at = "update" /\ t \in Subs /\ Bills(c, t)
    BY DEF Update, BillingInv, CycleInv, Bills
  <1>2. PICK i \in invoices :
          i.sub = t /\ i.end = cycle[c].row[t].end /\ i.id = cycle[c].id
    BY <1>1 DEF BillingInv, CycleInv
  <1>3. i.id \in lined
    BY <1>1, <1>2 DEF BillingInv, CycleInv
  <1>4. subs[t].status \in {"active", "cancelled"}
    BY <1>2 DEF BillingInv, InvoiceInv
  <1>5. subs' = [subs EXCEPT ![t] = Renewed(c, t)]
    BY <1>4 DEF Update, InTable, Present
  <1>6. Renewed(c, t) = [subs[t] EXCEPT !.end = cycle[c].row[t].end + 30,
                                        !.version = subs[t].version + 1]
    BY <1>1, RenewalType DEF Renewed
  <1>7. cycle[c].row[t].end \in Nat
    BY <1>1 DEF BillingInv, TypeOK, CycleRow, Row
  <1> QED
    BY <1>1, <1>2, <1>3, <1>4, <1>5, <1>6, <1>7 DEF Update, bills

LEMMA UpdateStep ==
    ASSUME BillingInv, NEW c \in Cycles, Update(c)
    PROVE  Others'
  <1> DEFINE t == cycle[c].sub
             e == cycle[c].row[t].end
  <1>t. TypeOK
    BY DEF BillingInv
  <1>1. /\ t \in Subs
        /\ cycle[c].at = "update"
        /\ Bills(c, t)
        /\ subs[t].status \in {"active", "cancelled"}
        /\ cycle' = [cycle EXCEPT ![c] = Onward(c)]
        /\ e \in Nat
        /\ \E i \in invoices : /\ i.sub = t
                               /\ i.end = e
                               /\ i.id = cycle[c].id
                               /\ i.id \in lined
        /\ UNCHANGED <<first, byHand, invoices, lined, made, late, req>>
    BY UpdateFacts
  <1>2. /\ subs'[t].end = e + 30
        /\ \A s \in Subs \ {t} : subs'[s] = subs[s]
        /\ \A s \in Subs : subs'[s].status = subs[s].status
    <2>1. subs' = [subs EXCEPT ![t] =
                     [subs[t] EXCEPT !.end = e + 30,
                                     !.version = subs[t].version + 1]]
      BY UpdateFacts
    <2>2. subs \in [Subs -> Row]
      BY <1>t DEF TypeOK
    <2> QED
      BY <1>1, <2>1, <2>2 DEF Row
  <1>3. \A s \in Subs :
          /\ cycle'[c].at = "next"
          /\ ~Bills(c, s)'
          /\ Holds(c, s)' => Holds(c, s) /\ cycle'[c].row[s] = cycle[c].row[s]
          /\ \A d \in Cycles \ {c} : cycle'[d] = cycle[d]
    BY <1>t, <1>1, OnwardHolds
  <1>4. \A d \in Cycles, s \in Subs :
          Holds(d, s)' => Holds(d, s) /\ cycle'[d].row[s] = cycle[d].row[s]
    BY <1>3 DEF Holds
  <1>5. \A d \in Cycles, s \in Subs :
          Bills(d, s)' => d # c /\ Bills(d, s) /\ cycle'[d] = cycle[d]
    BY <1>3 DEF Bills
  <1>6. BilledOnce'
    BY <1>1 DEF BillingInv, BilledOnce
  <1>7. InvoiceInv'
    BY <1>t, <1>1, <1>2 DEF BillingInv, InvoiceInv, TypeOK, Invoice
  <1>8. CycleInv'
    <2>1. \A d \in Cycles :
            /\ cycle'[d].at \in {"insert", "items", "update"} =>
                 cycle'[d].sub \in Subs
            /\ cycle'[d].at = "idle" => cycle'[d].todo = {}
            /\ \A s \in Subs :
                 Holds(d, s)' => subs'[s].status \in {"active", "cancelled"}
      BY <1>1, <1>2, <1>3, <1>4 DEF BillingInv, CycleInv
    <2>2. ASSUME NEW d \in Cycles, NEW s \in Subs, Bills(d, s)'
          PROVE  /\ \E i \in invoices' :
                      /\ i.sub = s
                      /\ i.end = cycle'[d].row[s].end
                      /\ i.id = cycle'[d].id
                 /\ cycle'[d].at = "update" => cycle'[d].id \in lined'
                 /\ \A g \in Cycles \ {d} :
                      cycle'[g].at \in {"items", "update"} =>
                        cycle'[g].id # cycle'[d].id
      <3>1. /\ \E i \in invoices :
                 /\ i.sub = s
                 /\ i.end = cycle[d].row[s].end
                 /\ i.id = cycle[d].id
            /\ cycle[d].at = "update" => cycle[d].id \in lined
            /\ \A g \in Cycles \ {d} :
                 cycle[g].at \in {"items", "update"} =>
                   cycle[g].id # cycle[d].id
        BY <1>5, <2>2 DEF BillingInv, CycleInv
      <3>2. \A g \in Cycles : cycle'[g].at \in {"items", "update"} =>
              cycle'[g] = cycle[g]
        BY <1>1, <1>3
      <3> QED
        BY <1>1, <1>5, <2>2, <3>1, <3>2
    <2> QED
      BY <2>1, <2>2 DEF CycleInv
  <1>9. PeriodInv'
    <2> SUFFICES ASSUME NEW s \in Subs, ~byHand[s]
                 PROVE  /\ \A i \in invoices : i.sub = s => i.end <= subs'[s].end
                        /\ \A d \in Cycles :
                             /\ Holds(d, s)' =>
                                  \/ cycle'[d].row[s].end = subs'[s].end
                                  \/ \E i \in invoices :
                                       i.sub = s /\ i.end = cycle'[d].row[s].end
                             /\ Bills(d, s)' =>
                                  cycle'[d].row[s].end = subs'[s].end
      BY <1>1 DEF PeriodInv, Billed
    <2>1. CASE s # t
      BY <1>2, <1>4, <1>5, <2>1 DEF BillingInv, PeriodInv, Billed
    <2>2. CASE s = t
      <3>1. e = subs[s].end /\ subs'[s].end = e + 30
        BY <1>1, <1>2, <2>2 DEF BillingInv, PeriodInv
      <3>2. \A i \in invoices : i.sub = s => i.end <= subs'[s].end
        <4>1. \A i \in invoices : i.end \in Nat
          BY <1>t DEF TypeOK, Invoice
        <4> QED
          BY <1>1, <3>1, <4>1 DEF BillingInv, PeriodInv
      <3>3. \A d \in Cycles :
              Holds(d, s)' => \E i \in invoices :
                                i.sub = s /\ i.end = cycle'[d].row[s].end
        BY <1>1, <1>4, <2>2, <3>1 DEF BillingInv, PeriodInv, Billed
      <3>4. \A d \in Cycles : ~Bills(d, s)'
        <4> SUFFICES ASSUME NEW d \in Cycles, Bills(d, s)'
                     PROVE  FALSE
          OBVIOUS
        <4>1. d # c /\ Bills(d, s)
          BY <1>5
        <4>2. PICK i \in invoices :
                i.sub = s /\ i.end = cycle[d].row[s].end /\ i.id = cycle[d].id
          BY <4>1 DEF BillingInv, CycleInv
        <4>3. PICK j \in invoices :
                j.sub = t /\ j.end = e /\ j.id = cycle[c].id
          BY <1>1
        <4>4. cycle[d].row[s].end = subs[s].end
          BY <4>1 DEF BillingInv, PeriodInv
        <4>5. i = j
          BY <2>2, <3>1, <4>2, <4>3, <4>4 DEF BillingInv, BilledOnce
        <4>6. cycle[d].id # cycle[c].id
          BY <1>1, <4>1 DEF BillingInv, CycleInv
        <4> QED
          BY <4>2, <4>3, <4>5, <4>6
      <3> QED
        BY <3>2, <3>3, <3>4
    <2> QED
      BY <2>1, <2>2
  <1>10. LateInv'
    BY <1>1, <1>2, <1>4 DEF BillingInv, LateInv, Billed
  <1>11. LastPeriodBilled'
    <2> SUFFICES ASSUME NEW s \in Subs, ~byHand[s], InTable(s)',
                        subs'[s].end # first[s]
                 PROVE  \E i \in invoices :
                          /\ i.sub = s
                          /\ i.end + 30 = subs'[s].end
                          /\ i.id \in lined
      BY <1>1, RenewalType DEF LastPeriodBilled, RenewalOf
    <2>1. CASE s = t
      BY <1>1, <1>2, <2>1
    <2>2. CASE s # t
      BY <1>2, <2>2, RenewalType DEF BillingInv, LastPeriodBilled, InTable
    <2> QED
      BY <2>1, <2>2
  <1> QED
    BY <1>6, <1>7, <1>8, <1>9, <1>10, <1>11 DEF Others

-----------------------------------------------------------------------------
(* Every step.                                                               *)

LEMMA OthersStep ==
    ASSUME BillingInv, [Next]_vars
    PROVE  Others'
  <1>t. TypeOK
    BY DEF BillingInv
  <1>c. /\ \A c \in Cycles :
             /\ cycle[c].at \in {"insert", "items", "update"} =>
                  cycle[c].sub \in Subs
             /\ cycle[c].at = "idle" => cycle[c].todo = {}
    BY DEF BillingInv, CycleInv
  <1>0. ASSUME UNCHANGED <<rows, bills, cycle>>
        PROVE  Others'
    <2>1. \A c \in Cycles, s \in Subs :
            Holds(c, s)' => Holds(c, s) /\ cycle'[c].row[s] = cycle[c].row[s]
      BY <1>0 DEF Holds
    <2> QED
      BY <1>0, <1>c, <2>1, CyclesMove DEF rows, bills
  <1>1. CASE Tick \/ UNCHANGED vars
    BY <1>0, <1>1 DEF Tick, vars
  <1>2. ASSUME NEW r \in Requests, Receive(r) \/ Refuse(r)
        PROVE  Others'
    BY <1>0, <1>2 DEF Receive, Refuse
  <1>3. CASE Cleanup
    <2>1. \A s \in Subs :
            \/ subs'[s] = subs[s]
            \/ /\ subs[s].status = "pending_confirmation"
               /\ subs'[s].status = "deleted"
      BY <1>3, <1>t DEF Cleanup, Stale, TypeOK, Row
    <2>2. \A s \in Subs : InTable(s)' => subs'[s] = subs[s]
      BY <2>1 DEF InTable, Present
    <2> QED
      BY <1>3, <2>1, <2>2, RowsMove DEF Cleanup, bills, InTable
  <1>4. CASE Crash
    <2>1. \A c \in Cycles : cycle'[c] = IdleCycle
      BY <1>4 DEF Crash
    <2>2. IdleCycle.at = "idle" /\ IdleCycle.todo = {}
      BY DEF IdleCycle
    <2>3. \A c \in Cycles, s \in Subs : ~Holds(c, s)'
      BY <2>1, <2>2 DEF Holds
    <2> QED
      BY <1>4, <2>1, <2>2, <2>3, CyclesMove DEF Crash, rows, bills
  <1>5. ASSUME NEW s \in Subs, Create(s)
        PROVE  Others'
    <2>1. /\ subs[s].status = "new"
          /\ subs'[s].end = first'[s]
          /\ \A u \in Subs \ {s} : subs'[u] = subs[u] /\ first'[u] = first[u]
      BY <1>5, <1>t DEF Create, TypeOK
    <2>2. \A u \in Subs \ {s} : InTable(u)' <=> InTable(u)
      BY <2>1 DEF InTable
    <2> QED
      BY <1>5, <2>1, <2>2, RowsMove DEF Create, bills
  <1>6. ASSUME NEW s \in Subs, Activate(s)
        PROVE  Others'
    <2>1. /\ subs[s].status = "pending_confirmation"
          /\ subs'[s].end = subs[s].end
          /\ \A u \in Subs \ {s} : subs'[u] = subs[u]
      BY <1>6, <1>t DEF Activate, TypeOK, Row
    <2>2. InTable(s) /\ \A u \in Subs \ {s} : InTable(u)' <=> InTable(u)
      BY <2>1 DEF InTable, Present
    <2> QED
      BY <1>6, <2>1, <2>2, RowsMove DEF Activate, bills
  <1>7. ASSUME NEW c \in Cycles, Begin(c)
        PROVE  Others'
    <2>1. /\ cycle'[c].at = "next"
          /\ cycle'[c].todo = {s \in Subs : Due(s)}
          /\ \A s \in Subs : Due(s) => cycle'[c].row[s] = subs[s]
          /\ \A d \in Cycles \ {c} : cycle'[d] = cycle[d]
      BY <1>7, <1>t DEF Begin, IdleCycle, TypeOK
    <2>2. \A d \in Cycles, s \in Subs :
            Holds(d, s)' =>
              \/ Holds(d, s) /\ cycle'[d].row[s] = cycle[d].row[s]
              \/ subs[s].status = "active" /\ cycle'[d].row[s] = subs[s]
      BY <2>1 DEF Holds, Due
    <2>3. \A d \in Cycles :
             /\ cycle'[d].at \in {"insert", "items", "update"} =>
                  cycle'[d].sub \in Subs
             /\ cycle'[d].at = "idle" => cycle'[d].todo = {}
             /\ cycle'[d].at \in {"items", "update"} => cycle'[d] = cycle[d]
      BY <1>c, <2>1
    <2> QED
      BY <1>7, <2>2, <2>3, CyclesMove DEF Begin, rows, bills
  <1>8. ASSUME NEW c \in Cycles, Pick(c)
        PROVE  Others'
    <2>0. /\ cycle[c] \in CycleRow
          /\ cycle[c].at = "next"
          /\ UNCHANGED <<rows, bills>>
      BY <1>8, <1>t DEF Pick, TypeOK
    <2>1. ASSUME NEW s \in cycle[c].todo,
                 cycle' = [cycle EXCEPT ![c].at = "insert", ![c].sub = s,
                                        ![c].todo = cycle[c].todo \ {s}]
          PROVE  /\ cycle'[c].at \in {"insert", "idle"}
                 /\ cycle'[c].at = "insert" => cycle'[c].sub \in Subs
                 /\ cycle'[c].at = "idle" => cycle'[c].todo = {}
                 /\ \A d \in Cycles \ {c} : cycle'[d] = cycle[d]
                 /\ \A u \in Subs :
                      Holds(c, u)' =>
                        Holds(c, u) /\ cycle'[c].row[u] = cycle[c].row[u]
      <3>1. /\ cycle'[c].at = "insert"
            /\ cycle'[c].sub = s
            /\ cycle'[c].row = cycle[c].row
            /\ cycle'[c].todo = cycle[c].todo \ {s}
            /\ \A d \in Cycles \ {c} : cycle'[d] = cycle[d]
        BY <2>0, <2>1, <1>t DEF TypeOK, CycleRow
      <3>2. s \in Subs
        BY <2>0 DEF CycleRow
      <3> QED
        BY <2>0, <3>1, <3>2 DEF Holds
    <2>2. ASSUME cycle' = [cycle EXCEPT ![c] = IdleCycle]
          PROVE  /\ cycle'[c].at \in {"insert", "idle"}
                 /\ cycle'[c].at = "insert" => cycle'[c].sub \in Subs
                 /\ cycle'[c].at = "idle" => cycle'[c].todo = {}
                 /\ \A d \in Cycles \ {c} : cycle'[d] = cycle[d]
                 /\ \A u \in Subs :
                      Holds(c, u)' =>
                        Holds(c, u) /\ cycle'[c].row[u] = cycle[c].row[u]
      <3>1. /\ cycle'[c].at = "idle"
            /\ cycle'[c].todo = {}
            /\ \A d \in Cycles \ {c} : cycle'[d] = cycle[d]
        BY <2>2, <1>t DEF TypeOK, IdleCycle
      <3> QED
        BY <3>1 DEF Holds
    <2>3. /\ cycle'[c].at \in {"insert", "idle"}
          /\ cycle'[c].at = "insert" => cycle'[c].sub \in Subs
          /\ cycle'[c].at = "idle" => cycle'[c].todo = {}
          /\ \A d \in Cycles \ {c} : cycle'[d] = cycle[d]
          /\ \A u \in Subs :
               Holds(c, u)' =>
                 Holds(c, u) /\ cycle'[c].row[u] = cycle[c].row[u]
      BY <1>8, <2>1, <2>2 DEF Pick
    <2>4. \A d \in Cycles, u \in Subs :
            Holds(d, u)' => Holds(d, u) /\ cycle'[d].row[u] = cycle[d].row[u]
      BY <2>3 DEF Holds
    <2>5. \A d \in Cycles :
             /\ cycle'[d].at \in {"insert", "items", "update"} =>
                  cycle'[d].sub \in Subs
             /\ cycle'[d].at = "idle" => cycle'[d].todo = {}
             /\ cycle'[d].at \in {"items", "update"} => cycle'[d] = cycle[d]
      BY <1>c, <2>3
    <2> QED
      BY <2>0, <2>4, <2>5, CyclesMove DEF rows, bills
  <1>9. ASSUME NEW c \in Cycles, StatementFails(c)
        PROVE  Others'
    <2>1. /\ cycle[c].at \in {"insert", "items", "update"}
          /\ cycle' = [cycle EXCEPT ![c] = Onward(c)]
          /\ UNCHANGED <<rows, bills>>
      BY <1>9 DEF StatementFails, AfterError
    <2>2. \A s \in Subs :
            /\ cycle'[c].at = "next"
            /\ Holds(c, s)' =>
                 Holds(c, s) /\ cycle'[c].row[s] = cycle[c].row[s]
            /\ \A d \in Cycles \ {c} : cycle'[d] = cycle[d]
      BY <1>t, <2>1, OnwardHolds
    <2>3. cycle[c].sub \in Subs
      BY <1>c, <2>1
    <2>4. \A d \in Cycles, s \in Subs :
            Holds(d, s)' => Holds(d, s) /\ cycle'[d].row[s] = cycle[d].row[s]
      BY <2>2 DEF Holds
    <2>5. \A d \in Cycles :
             /\ cycle'[d].at \in {"insert", "items", "update"} =>
                  cycle'[d].sub \in Subs
             /\ cycle'[d].at = "idle" => cycle'[d].todo = {}
             /\ cycle'[d].at \in {"items", "update"} => cycle'[d] = cycle[d]
      BY <1>c, <2>2, <2>3
    <2> QED
      BY <2>1, <2>4, <2>5, CyclesMove DEF rows, bills
  <1>10. ASSUME NEW r \in Requests, Confirm(r)
         PROVE  Others'
    <2> DEFINE s == req[r].sub
    <2>1. /\ s \in Subs
          /\ InTable(s)
          /\ subs' = [subs EXCEPT ![s] = AfterConfirm(r, subs[s])]
          /\ byHand' = [byHand EXCEPT ![s] = byHand[s] \/ req[r].kind = "invoice"]
          /\ UNCHANGED <<first, bills, cycle>>
      BY <1>10 DEF Confirm, UnchangedSince, BillingInv, VersionInv
    <2>2. /\ subs'[s] = AfterConfirm(r, subs[s])
          /\ \A u \in Subs \ {s} : subs'[u] = subs[u] /\ byHand'[u] = byHand[u]
          /\ ~byHand'[s] => ~byHand[s] /\ req[r].kind # "invoice"
      BY <2>1, <1>t DEF TypeOK
    <2>3. subs[s] \in Row /\ req[r].kind \in {"cancel", "invoice"}
      BY <2>1, <1>t DEF TypeOK, RequestRow
    <2>4. /\ subs'[s].status \in {subs[s].status, "cancelled"}
          /\ ~byHand'[s] => subs'[s].end = subs[s].end
      BY <2>2, <2>3 DEF AfterConfirm, Row
    <2>5. \A u \in Subs \ {s} : InTable(u)' <=> InTable(u)
      BY <2>2 DEF InTable
    <2>6. \A u \in Subs : ~byHand'[u] => ~byHand[u]
      BY <2>2
    <2>7. \A u \in Subs :
             subs[u].status \in {"active", "cancelled"} =>
               /\ subs'[u].status \in {subs[u].status, "cancelled"}
               /\ ~byHand'[u] => subs'[u].end = subs[u].end
      BY <2>2, <2>4
    <2>8. \A u \in Subs :
             ~byHand'[u] /\ InTable(u)' /\ subs'[u].end # first'[u] =>
               /\ InTable(u)
               /\ subs'[u].end = subs[u].end
               /\ first'[u] = first[u]
      BY <2>1, <2>2, <2>4, <2>5
    <2> QED
      BY <2>1, <2>6, <2>7, <2>8, RowsMove DEF bills
  <1> QED
    BY <1>1, <1>2, <1>3, <1>4, <1>5, <1>6, <1>7, <1>8, <1>9, <1>10,
       InsertStep, ItemsStep, UpdateStep DEF Next, Step

\* What a step does to the version and the period of a row.
LEMMA RowStep ==
    ASSUME BillingInv, [Next]_vars, NEW s \in Subs, subs[s].status # "new"
    PROVE  /\ subs'[s].status # "new"
           /\ \/ subs'[s].version = subs[s].version /\ subs'[s].end = subs[s].end
              \/ subs'[s].version = subs[s].version + 1
  <1>t. subs \in [Subs -> Row] /\ subs[s] \in Row
    BY DEF BillingInv, TypeOK
  <1>1. CASE subs' = subs
    BY <1>1
  <1>2. CASE Cleanup
    BY <1>2, <1>t DEF Cleanup, Row
  <1>3. ASSUME NEW u \in Subs, Create(u) \/ Activate(u)
        PROVE  /\ subs'[s].status # "new"
               /\ subs'[s].version = subs[s].version
               /\ subs'[s].end = subs[s].end
    BY <1>3, <1>t DEF Create, Activate, Row
  <1>4. ASSUME NEW c \in Cycles, Update(c)
        PROVE  /\ subs'[s].status # "new"
               /\ \/ /\ subs'[s].version = subs[s].version
                     /\ subs'[s].end = subs[s].end
                  \/ subs'[s].version = subs[s].version + 1
    <2> DEFINE t == cycle[c].sub
    <2>1. /\ t \in Subs
          /\ subs' = [subs EXCEPT ![t] =
                        [subs[t] EXCEPT !.end = cycle[c].row[t].end + 30,
                                        !.version = subs[t].version + 1]]
      BY <1>4, UpdateFacts
    <2> QED
      BY <1>t, <2>1 DEF Row
  <1>5. ASSUME NEW r \in Requests, Confirm(r)
        PROVE  /\ subs'[s].status # "new"
               /\ \/ /\ subs'[s].version = subs[s].version
                     /\ subs'[s].end = subs[s].end
                  \/ subs'[s].version = subs[s].version + 1
    <2>1. subs' = [subs EXCEPT ![req[r].sub] =
                     AfterConfirm(r, subs[req[r].sub])]
      BY <1>5 DEF Confirm
    <2>2. CASE s = req[r].sub
      BY <1>t, <2>1, <2>2 DEF AfterConfirm, Row
    <2>3. CASE s # req[r].sub
      BY <1>t, <2>1, <2>3
    <2> QED
      BY <2>2, <2>3
  <1>6. \/ subs' = subs
        \/ Cleanup
        \/ \E u \in Subs : Create(u) \/ Activate(u)
        \/ \E c \in Cycles : Update(c)
        \/ \E r \in Requests : Confirm(r)
    BY DEF Next, Step, Tick, Crash, Begin, Pick, Insert, Items, StatementFails,
           Receive, Refuse, vars, rows
  <1> QED
    BY <1>1, <1>2, <1>3, <1>4, <1>5, <1>6

LEMMA VersionStep ==
    ASSUME BillingInv, [Next]_vars
    PROVE  VersionInv'
  <1>t. subs \in [Subs -> Row] /\ req \in [Requests -> RequestRow]
    BY DEF BillingInv, TypeOK
  <1>1. ASSUME NEW r \in Requests, req'[r].at = "write"
        PROVE  \/ req'[r] = req[r]
               \/ \E s \in Subs :
                    /\ req'[r].sub = s
                    /\ req'[r].row = subs[s]
                    /\ InTable(s)
                    /\ subs' = subs
    <2>1. CASE \E q \in Requests : Receive(q)
      BY <1>1, <2>1, <1>t DEF Receive, rows
    <2>2. CASE \E q \in Requests : Refuse(q) \/ Confirm(q)
      BY <1>1, <2>2, <1>t DEF Refuse, Confirm, Answered, IdleRequest
    <2>3. CASE Crash
      BY <1>1, <2>3, <1>t DEF Crash, Answered, IdleRequest
    <2>4. CASE req' = req
      BY <2>4
    <2> QED
      BY <2>1, <2>2, <2>3, <2>4
      DEF Next, Step, Tick, Cleanup, Create, Activate, Begin, Pick, Insert,
          Items, Update, StatementFails, vars
  <1> SUFFICES ASSUME NEW r \in Requests, req'[r].at = "write"
               PROVE  /\ req'[r].sub \in Subs
                      /\ subs'[req'[r].sub].status # "new"
                      /\ req'[r].row.version <= subs'[req'[r].sub].version
                      /\ req'[r].row.version = subs'[req'[r].sub].version =>
                           req'[r].row.end = subs'[req'[r].sub].end
    BY DEF VersionInv
  <1>2. CASE req'[r] = req[r]
    <2> DEFINE s == req[r].sub
    <2>1. /\ s \in Subs
          /\ subs[s].status # "new"
          /\ req[r].row.version <= subs[s].version
          /\ req[r].row.version = subs[s].version =>
               req[r].row.end = subs[s].end
      BY <1>2 DEF BillingInv, VersionInv
    <2>2. req[r].row.version \in Nat /\ subs[s].version \in Nat
      BY <1>t, <2>1 DEF RequestRow, Row
    <2>3. /\ subs'[s].status # "new"
          /\ \/ subs'[s].version = subs[s].version /\ subs'[s].end = subs[s].end
             \/ subs'[s].version = subs[s].version + 1
      BY <2>1, RowStep
    <2> QED
      BY <1>2, <2>1, <2>2, <2>3
  <1>3. CASE \E s \in Subs :
               /\ req'[r].sub = s
               /\ req'[r].row = subs[s]
               /\ InTable(s)
               /\ subs' = subs
    BY <1>3, <1>t DEF InTable, Present, Row
  <1> QED
    BY <1>1, <1>2, <1>3

LEMMA InvInit == Init => BillingInv
  <1> SUFFICES ASSUME Init
               PROVE  BillingInv
    OBVIOUS
  <1>1. TypeOK
    BY TypeInit
  <1>2. \A c \in Cycles : cycle[c].at = "idle" /\ cycle[c].todo = {}
    BY DEF Init, IdleCycle
  <1>3. \A c \in Cycles, s \in Subs : ~Holds(c, s) /\ ~Bills(c, s)
    BY <1>2 DEF Holds, Bills
  <1>4. CycleInv
    BY <1>2, <1>3 DEF CycleInv
  <1>5. PeriodInv /\ LateInv
    BY <1>3 DEF Init, PeriodInv, LateInv
  <1>6. VersionInv
    BY DEF Init, VersionInv, IdleRequest
  <1>7. LastPeriodBilled
    BY DEF Init, LastPeriodBilled, InTable, Present, NewRow
  <1>8. BilledOnce /\ InvoiceInv
    BY DEF Init, BilledOnce, InvoiceInv
  <1> QED
    BY <1>1, <1>4, <1>5, <1>6, <1>7, <1>8 DEF BillingInv

-----------------------------------------------------------------------------
(* Theorems.                                                                 *)

\* The inductive invariant holds of every run: rows, invoices, cycles and
\* requests of subscription-biller.ts and subscription-routes.ts agree.
THEOREM BillingSafe == Spec => []BillingInv
  <1>1. BillingInv /\ [Next]_vars => BillingInv'
    <2> SUFFICES ASSUME BillingInv, [Next]_vars
                 PROVE  BillingInv'
      OBVIOUS
    <2>1. TypeOK' /\ VersionInv' /\ Others'
      BY TypeStep, VersionStep, OthersStep
    <2> QED
      BY <2>1 DEF BillingInv, Others
  <1> QED
    BY InvInit, <1>1, PTL DEF Spec

\* No period of a subscription is billed twice, whatever cycles overlap.
THEOREM BilledAtMostOnce == Spec => []BilledOnce
  BY BillingSafe, PTL DEF BillingInv

\* The cycle moves a subscription on only past a period it has billed in full.
THEOREM RenewedAfterBilling == Spec => []LastPeriodBilled
  BY BillingSafe, PTL DEF BillingInv

\* A cancelled subscription is billed at most once more.
THEOREM AtMostOneLateBill == Spec => []OneLateBill
  <1>1. BillingInv => OneLateBill
    <2> SUFFICES ASSUME BillingInv, NEW s \in Subs, ~byHand[s]
                 PROVE  late[s] <= 1
      BY DEF OneLateBill
    <2>1. late[s] \in Nat /\ (late[s] > 0 => late[s] = 1)
      BY DEF BillingInv, TypeOK, LateInv
    <2> QED
      BY <2>1
  <1> QED
    BY <1>1, BillingSafe, PTL

\* A confirmation that finds the version it read overwrites no renewal.
THEOREM RenewalsKept == Spec => []NoRenewalOverwritten
  <1>1. BillingInv => NoRenewalOverwritten
    BY DEF BillingInv, VersionInv, NoRenewalOverwritten, UnchangedSince
  <1> QED
    BY <1>1, BillingSafe, PTL

LEMMA RenewalInit == Init => Renewal!Init
  BY DEF Init, Renewal!Init, DueOf, InTable, Present, NewRow

\* A step maps to a renewal step, for each subscription.
LEMMA RenewalStep ==
    ASSUME BillingInv, BillingInv', [Next]_vars, NEW s \in Subs, ~byHand'[s]
    PROVE  /\ ~byHand[s]
           /\ LET b == {i.end : i \in {j \in invoices : j.sub = s}}
                  c == {i.end : i \in {j \in invoices' : j.sub = s}}
              IN \/ DueOf(s) = NoDay /\ DueOf(s)' \in Nat /\ c = b
                 \/ /\ DueOf(s) # NoDay
                    /\ c = b \cup {DueOf(s)}
                    /\ DueOf(s)' = DueOf(s) + 30
                 \/ b = {} /\ c = {} /\ DueOf(s)' = NoDay
                 \/ DueOf(s)' = DueOf(s) /\ c = b
  <1> DEFINE b == {i.end : i \in {j \in invoices : j.sub = s}}
             b2 == {i.end : i \in {j \in invoices' : j.sub = s}}
  <1>t. TypeOK /\ subs[s] \in Row
    BY DEF BillingInv, TypeOK
  <1>n. NoDay \notin Nat /\ RenewalOf(s) = 30 /\ RenewalOf(s)' = 30
    BY BillingAssumption, RenewalType DEF BillingAssumption, RenewalOf
  <1>0. ASSUME subs'[s] = subs[s], invoices' = invoices
        PROVE  DueOf(s)' = DueOf(s) /\ b2 = b
    BY <1>0, <1>n DEF DueOf, Billed, InTable
  <1>1. CASE subs' = subs /\ invoices' = invoices /\ byHand' = byHand
    BY <1>0, <1>1
  <1>2. CASE Cleanup
    <2>1. invoices' = invoices /\ byHand' = byHand
      BY <1>2 DEF Cleanup, bills
    <2>2. CASE Stale(s)
      <3>1. ~InTable(s)'
        BY <1>2, <1>t, <2>2 DEF Cleanup, InTable, Present, Row
      <3>2. \A i \in invoices : i.sub # s
        BY <2>2, Untouched DEF Stale
      <3> QED
        BY <2>1, <3>1, <3>2 DEF DueOf
    <2>3. CASE ~Stale(s)
      BY <1>0, <1>2, <2>1, <2>3 DEF Cleanup
    <2> QED
      BY <2>2, <2>3
  <1>3. ASSUME NEW u \in Subs, Create(u)
        PROVE  /\ ~byHand[s]
               /\ \/ DueOf(s) = NoDay /\ DueOf(s)' \in Nat /\ b2 = b
                  \/ DueOf(s)' = DueOf(s) /\ b2 = b
    <2>1. invoices' = invoices /\ byHand' = byHand
      BY <1>3 DEF Create, bills
    <2>2. CASE u = s
      <3>1. ~InTable(s) /\ InTable(s)' /\ subs'[s].end \in Nat
        BY <1>3, <1>t, <2>2, PeriodType DEF Create, InTable, Present, TypeOK
      <3>2. \A i \in invoices : i.sub # s
        BY <1>3, <2>2, Untouched DEF Create
      <3> QED
        BY <2>1, <3>1, <3>2 DEF DueOf, Billed
    <2>3. CASE u # s
      BY <1>0, <1>3, <1>t, <2>1, <2>3 DEF Create, TypeOK
    <2> QED
      BY <2>1, <2>2, <2>3
  <1>4. ASSUME NEW u \in Subs, Activate(u)
        PROVE  ~byHand[s] /\ DueOf(s)' = DueOf(s) /\ b2 = b
    <2>1. invoices' = invoices /\ byHand' = byHand
      BY <1>4 DEF Activate, bills
    <2>2. CASE u = s
      <3>1. InTable(s) /\ InTable(s)' /\ subs'[s].end = subs[s].end
        BY <1>4, <1>t, <2>2 DEF Activate, InTable, Present, TypeOK, Row
      <3> QED
        BY <1>n, <2>1, <3>1 DEF DueOf, Billed
    <2>3. CASE u # s
      BY <1>0, <1>4, <1>t, <2>1, <2>3 DEF Activate, TypeOK
    <2> QED
      BY <2>1, <2>2, <2>3
  <1>5. ASSUME NEW c \in Cycles, Insert(c)
        PROVE  /\ ~byHand[s]
               /\ \/ /\ DueOf(s) # NoDay
                     /\ b2 = b \cup {DueOf(s)}
                     /\ DueOf(s)' = DueOf(s) + 30
                  \/ DueOf(s)' = DueOf(s) /\ b2 = b
    <2> DEFINE t == cycle[c].sub
               e == cycle[c].row[t].end
    <2>1. subs' = subs /\ byHand' = byHand
      BY <1>5 DEF Insert, rows
    <2>2. CASE invoices' = invoices
      BY <1>0, <2>1, <2>2
    <2>3. CASE invoices' # invoices
      <3>1. /\ ~Billed(t, e)
            /\ invoices' = invoices \cup {[sub |-> t, end |-> e, id |-> made]}
            /\ cycle[c].at = "insert"
        BY <1>5, <2>3 DEF Insert, Duplicate, bills
      <3>2. t \in Subs /\ Holds(c, t)
        BY <3>1 DEF BillingInv, CycleInv, Holds
      <3>3. CASE t # s
        <4>1. b2 = b
          BY <3>1, <3>3
        <4>2. \A x : Billed(s, x)' <=> Billed(s, x)
          BY <3>1, <3>3 DEF Billed
        <4> QED
          BY <1>n, <2>1, <4>1, <4>2 DEF DueOf, InTable, Billed
      <3>4. CASE t = s
        <4>1. e = subs[s].end /\ e \in Nat
          BY <1>t, <2>1, <3>1, <3>2, <3>4 DEF BillingInv, PeriodInv, Row
        <4>2. InTable(s) /\ InTable(s)'
          BY <2>1, <3>2, <3>4 DEF BillingInv, CycleInv, InTable, Present
        <4>3. DueOf(s) = e
          BY <3>1, <3>4, <4>1, <4>2 DEF DueOf
        <4>4. DueOf(s)' = e + 30
          <5> DEFINE new == [sub |-> t, end |-> e, id |-> made]
          <5>1. new \in invoices' /\ new.sub = s /\ new.end = subs'[s].end
            BY <2>1, <3>1, <3>4, <4>1
          <5> QED
            BY <1>n, <2>1, <4>1, <4>2, <5>1 DEF DueOf, Billed
        <4>5. b2 = b \cup {e}
          <5> DEFINE new == [sub |-> t, end |-> e, id |-> made]
          <5>1. new.sub = s /\ new.end = e /\ invoices' = invoices \cup {new}
            BY <3>1, <3>4
          <5> HIDE DEF new
          <5>2. b2 \subseteq b \cup {e}
            BY <5>1
          <5>3. b \subseteq b2 /\ e \in b2
            BY <5>1
          <5> QED
            BY <5>2, <5>3
        <4> QED
          BY <1>n, <2>1, <4>1, <4>3, <4>4, <4>5
      <3> QED
        BY <3>3, <3>4
    <2> QED
      BY <2>2, <2>3
  <1>6. ASSUME NEW c \in Cycles, Update(c)
        PROVE  ~byHand[s] /\ DueOf(s)' = DueOf(s) /\ b2 = b
    <2> DEFINE t == cycle[c].sub
               e == cycle[c].row[t].end
    <2>1. /\ t \in Subs
          /\ Bills(c, t)
          /\ subs[t].status \in {"active", "cancelled"}
          /\ subs' = [subs EXCEPT ![t] =
                        [subs[t] EXCEPT !.end = e + 30,
                                        !.version = subs[t].version + 1]]
          /\ e \in Nat
          /\ \E i \in invoices : i.sub = t /\ i.end = e
          /\ invoices' = invoices
          /\ byHand' = byHand
      BY <1>6, UpdateFacts
    <2>2. CASE t # s
      BY <1>0, <1>t, <2>1, <2>2 DEF TypeOK
    <2>3. CASE t = s
      <3>1. e = subs[s].end
        BY <2>1, <2>3 DEF BillingInv, PeriodInv
      <3>2. /\ subs'[s].end = e + 30
            /\ subs'[s].status = subs[s].status
        BY <1>t, <2>1, <2>3 DEF TypeOK, Row
      <3>3. InTable(s) /\ InTable(s)'
        BY <2>1, <2>3, <3>2 DEF InTable, Present
      <3>4. DueOf(s) = e + 30
        BY <1>n, <2>1, <2>3, <3>1, <3>3 DEF DueOf, Billed
      <3>5. \A i \in invoices : i.sub = s => i.end <= e /\ i.end \in Nat
        BY <1>t, <2>1, <3>1 DEF BillingInv, PeriodInv, TypeOK, Invoice
      <3>6. ~(\E i \in invoices' : i.sub = s /\ i.end = subs'[s].end)
        BY <2>1, <3>2, <3>5
      <3>7. DueOf(s)' = e + 30
        BY <3>2, <3>3, <3>6 DEF DueOf, Billed
      <3> QED
        BY <2>1, <3>4, <3>7
    <2> QED
      BY <2>2, <2>3
  <1>7. ASSUME NEW r \in Requests, Confirm(r)
        PROVE  ~byHand[s] /\ DueOf(s)' = DueOf(s) /\ b2 = b
    <2>1. /\ req[r].sub \in Subs
          /\ InTable(req[r].sub)
          /\ subs' = [subs EXCEPT ![req[r].sub] =
                        AfterConfirm(r, subs[req[r].sub])]
          /\ byHand' = [byHand EXCEPT ![req[r].sub] =
                          byHand[req[r].sub] \/ req[r].kind = "invoice"]
          /\ invoices' = invoices
          /\ req[r].kind \in {"cancel", "invoice"}
      BY <1>7, <1>t
      DEF Confirm, UnchangedSince, BillingInv, VersionInv, TypeOK, RequestRow,
          bills
    <2>2. CASE req[r].sub # s
      BY <1>0, <1>t, <2>1, <2>2 DEF TypeOK
    <2>3. CASE req[r].sub = s
      <3>1. ~byHand[s] /\ req[r].kind = "cancel"
        BY <1>t, <2>1, <2>3 DEF TypeOK
      <3>2. subs'[s].end = subs[s].end /\ subs'[s].status = "cancelled"
        BY <1>t, <2>1, <2>3, <3>1 DEF TypeOK, AfterConfirm, Row
      <3>3. InTable(s) /\ InTable(s)'
        BY <2>1, <2>3, <3>2 DEF InTable, Present
      <3> QED
        BY <1>n, <2>1, <3>1, <3>2, <3>3 DEF DueOf, Billed
    <2> QED
      BY <2>2, <2>3
  <1>8. \/ subs' = subs /\ invoices' = invoices /\ byHand' = byHand
        \/ Cleanup
        \/ \E u \in Subs : Create(u) \/ Activate(u)
        \/ \E c \in Cycles : Insert(c) \/ Update(c)
        \/ \E r \in Requests : Confirm(r)
    BY DEF Next, Step, Tick, Crash, Begin, Pick, Items, StatementFails,
           Receive, Refuse, vars, rows, bills
  <1> QED
    BY <1>1, <1>2, <1>3, <1>4, <1>5, <1>6, <1>7, <1>8

\* The tables of the server implement billing one period after another.
THEOREM BillingImplementsRenewals == Spec => BillsInOrder
  <1>1. BillingInv /\ BillingInv' /\ [Next]_vars => [Renewal!Next]_Renewal!vars
    <2> SUFFICES ASSUME BillingInv, BillingInv', [Next]_vars
                 PROVE  Renewal!Next
      OBVIOUS
    <2>1. SUFFICES ASSUME NEW s \in Subs, ~byHand'[s]
                   PROVE  /\ ~byHand[s]
                          /\ \/ Renewal!Subscribe(s)
                             \/ Renewal!Bill(s)
                             \/ Renewal!Abandon(s)
                             \/ Renewal!Rest(s)
      BY DEF Renewal!Next
    <2> QED
      BY <2>1, RenewalStep, RenewalType
      DEF Renewal!Subscribe, Renewal!Bill, Renewal!Abandon, Renewal!Rest
  <1> QED
    BY RenewalInit, <1>1, BillingSafe, PTL DEF Spec, BillsInOrder, Renewal!Spec
=============================================================================
