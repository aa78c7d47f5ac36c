------------------------- MODULE SubscriptionBilling -------------------------
(***************************************************************************)
(* Subscriptions and their renewal (server/subscription-biller.ts,         *)
(* subscription-routes.ts, subscription-cleanup.ts).  A billing cycle runs *)
(* when the server starts and at every midnight.  It reads the rows that   *)
(* are due, and for each one makes an invoice, its line item, and the next *)
(* period, in three statements without a transaction.  Cycles of several   *)
(* servers, or the one at startup and the one at midnight, may overlap;    *)
(* the number of the invoice, made of the subscription and the last day of *)
(* the period, is unique.  Requests cancel a subscription or confirm an    *)
(* invoice minted by hand; they check the row's version, the cycle         *)
(* does not.                                                               *)
(*                                                                         *)
(* Time is counted in days.  What a request asks the chain about is left   *)
(* open: any answer is possible.  Of a plan only the interval is kept.     *)
(*                                                                         *)
(* Where two operators with the same parameters stand one above the other, *)
(* the first is a fault the second must not have; no action uses it.       *)
(***************************************************************************)
EXTENDS Integers

CONSTANTS
    Subs,       \* subscriptions, by their id
    Cycles,     \* bound: billing cycles that run at the same time
    Requests,   \* bound: confirm-cancel and confirm-invoice requests
    NoSub,
    NoDay,
    Interval,   \* Interval[s]: the interval of the plan
    Count,      \* Count[s]: its intervalCount
    Steps,      \* by how many days the clock may move
    MaxDay,     \* bound on the clock
    MaxFaults   \* bound on crashes and failed statements

ASSUME BillingAssumption ==
    /\ NoSub \notin Subs
    /\ NoDay \notin Nat
    /\ Interval \in [Subs -> {"weekly", "monthly", "yearly"}]
    /\ Count \in [Subs -> Nat \ {0}]
    /\ Steps \subseteq Nat \ {0}
    /\ MaxDay \in Nat
    /\ MaxFaults \in Nat

VARIABLES
    subs,       \* the subscriptions table
    invoices,   \* the renewal invoices among the invoices
    lined,      \* the ids of those that have their line item
    cycle,      \* where each billing cycle is
    req,        \* where each request is
    today,
    made,       \* how many renewal invoices were made: the next id
    first,      \* history: first[s]: the end of the first period of s
    byHand,     \* history: was an invoice of s confirmed by hand?
    late,       \* history: late[s]: invoices made when s was cancelled
    faults

\* The statuses of rows that are in the table.
Present == {"pending_confirmation", "active", "cancelled"}
Row == [status : Present \cup {"new", "deleted"}, version : Nat, end : Nat,
        created : Nat]
Invoice == [sub : Subs, end : Nat, id : Nat]

rows == <<subs, first, byHand>>
bills == <<invoices, lined, made, late>>
vars == <<rows, bills, cycle, req, today, faults>>

NewRow == [status |-> "new", version |-> 0, end |-> 0, created |-> 0]
IdleCycle == [at |-> "idle", todo |-> {}, row |-> [s \in Subs |-> NewRow],
              sub |-> NoSub, id |-> 0]
IdleRequest == [at |-> "idle", kind |-> "cancel", sub |-> NoSub, row |-> NewRow]
Answered == [IdleRequest EXCEPT !.at = "done"]

Init ==
    /\ subs = [s \in Subs |-> NewRow]
    /\ first = [s \in Subs |-> NoDay]
    /\ byHand = [s \in Subs |-> FALSE]
    /\ invoices = {}
    /\ lined = {}
    /\ made = 0
    /\ late = [s \in Subs |-> 0]
    /\ cycle = [c \in Cycles |-> IdleCycle]
    /\ req = [r \in Requests |-> IdleRequest]
    /\ today = 0
    /\ faults = 0

InTable(s) == subs[s].status \in Present

-----------------------------------------------------------------------------
(* Time, and the life of a subscription before it is billed.               *)

Tick ==
    /\ \E d \in Steps : today' = today + d
    /\ today' <= MaxDay
    /\ UNCHANGED <<rows, bills, cycle, req, faults>>

\* The period a plan asks for, in days, as POST /api/subscriptions computes it.
PeriodOf(s) == Count[s] * CASE Interval[s] = "weekly" -> 7
                            [] Interval[s] = "monthly" -> 30
                            [] Interval[s] = "yearly" -> 365

\* POST /api/subscriptions.
Create(s) ==
    /\ subs[s].status = "new"
    /\ subs' = [subs EXCEPT ![s] =
                  [status |-> "pending_confirmation", version |-> 0,
                   end |-> today + PeriodOf(s), created |-> today]]
    /\ first' = [first EXCEPT ![s] = today + PeriodOf(s)]
    /\ UNCHANGED <<byHand, bills, cycle, req, today, faults>>

\* No handler of the server makes a subscription active: the client posts to
\* /confirm, which has no route.  It is done in the database, as in
\* scripts/verify-biller.ts.
Activate(s) ==
    /\ subs[s].status = "pending_confirmation"
    /\ subs' = [subs EXCEPT ![s].status = "active"]
    /\ UNCHANGED <<first, byHand, bills, cycle, req, today, faults>>

Stale(s) ==
    subs[s].status = "pending_confirmation" /\ subs[s].created + 1 < today

\* The cleanup at 3 AM drops what nobody has confirmed for a day.
Cleanup ==
    /\ \E s \in Subs : Stale(s)
    /\ subs' = [s \in Subs |->
                  IF Stale(s) THEN [subs[s] EXCEPT !.status = "deleted"]
                              ELSE subs[s]]
    /\ UNCHANGED <<first, byHand, bills, cycle, req, today, faults>>

-----------------------------------------------------------------------------
(* runBillingCycle.                                                        *)

\* Fault: a cancelled subscription is due.
DueIfCancelled(s) ==
    subs[s].status \in {"active", "cancelled"} /\ subs[s].end < today

\* Fault: only what has ended since the last cycle.
DueSinceYesterday(s) ==
    subs[s].status = "active" /\ subs[s].end < today /\ today <= subs[s].end + 1

Due(s) == subs[s].status = "active" /\ subs[s].end < today

\* The due rows are read once, at the start of the cycle.
Begin(c) ==
    /\ cycle[c].at = "idle"
    /\ \E s \in Subs : Due(s)
    /\ cycle' = [cycle EXCEPT ![c] =
         [IdleCycle EXCEPT !.at = "next", !.todo = {s \in Subs : Due(s)},
                           !.row = [s \in Subs |->
                             IF Due(s) THEN subs[s] ELSE NewRow]]]
    /\ UNCHANGED <<rows, bills, req, today, faults>>

\* The next subscription of the cycle, or its end.
Pick(c) ==
    /\ cycle[c].at = "next"
    /\ \/ \E s \in cycle[c].todo :
            cycle' = [cycle EXCEPT ![c].at = "insert", ![c].sub = s,
                                   ![c].todo = cycle[c].todo \ {s}]
       \/ /\ cycle[c].todo = {}
          /\ cycle' = [cycle EXCEPT ![c] = IdleCycle]
    /\ UNCHANGED <<rows, bills, req, today, faults>>

\* What the cycle adds to a period.  It knows the intervals "month" and
\* "year", which no plan has.
RenewalOf(s) == CASE Interval[s] = "month" -> 30
                  [] Interval[s] = "year" -> 365
                  [] OTHER -> 30

Billed(s, e) == \E i \in invoices : i.sub = s /\ i.end = e

\* Fault: the number of the invoice is not the same every time.
NoDuplicate(s, e) == FALSE

\* The unique index on the number of an invoice.
Duplicate(s, e) == Billed(s, e)

\* The cycle is done with a subscription, and forgets the row.
Onward(c) ==
    [cycle[c] EXCEPT !.at = "next", !.sub = NoSub, !.id = 0,
                     !.row = [s \in Subs |-> IF s \in cycle[c].todo
                                            THEN cycle[c].row[s] ELSE NewRow]]

\* Fault: the error of the insert is ignored.
GoesOnAfterError(c) ==
    IF cycle[c].at = "insert" THEN [cycle[c] EXCEPT !.at = "update"]
                              ELSE Onward(c)

\* The catch block: on with the next subscription.
AfterError(c) == Onward(c)

\* The invoice of the period that ends.
Insert(c) ==
    LET s == cycle[c].sub
        e == cycle[c].row[s].end
    IN /\ cycle[c].at = "insert"
       /\ \/ /\ Duplicate(s, e)
             /\ cycle' = [cycle EXCEPT ![c] = AfterError(c)]
             /\ UNCHANGED bills
          \/ /\ ~Duplicate(s, e)
             /\ invoices' = invoices \cup {[sub |-> s, end |-> e, id |-> made]}
             /\ made' = made + 1
             /\ late' = IF subs[s].status = "cancelled"
                        THEN [late EXCEPT ![s] = late[s] + 1] ELSE late
             /\ cycle' = [cycle EXCEPT ![c].at = "items", ![c].id = made]
             /\ UNCHANGED lined
       /\ UNCHANGED <<rows, req, today, faults>>

Items(c) ==
    /\ cycle[c].at = "items"
    /\ lined' = lined \cup {cycle[c].id}
    /\ cycle' = [cycle EXCEPT ![c].at = "update"]
    /\ UNCHANGED <<rows, invoices, made, late, req, today, faults>>

\* Fault: the version stays.
RenewedQuietly(c, s) ==
    [subs[s] EXCEPT !.end = cycle[c].row[s].end + RenewalOf(s)]

\* Fault: the end is counted from today.
RenewedFromToday(c, s) ==
    [subs[s] EXCEPT !.end = today + RenewalOf(s),
                    !.version = subs[s].version + 1]

\* The row after its renewal: the end is counted from the row that was read.
Renewed(c, s) ==
    [subs[s] EXCEPT !.end = cycle[c].row[s].end + RenewalOf(s),
                    !.version = subs[s].version + 1]

\* The next period, whatever has become of the row since.
Update(c) ==
    LET s == cycle[c].sub
    IN /\ cycle[c].at = "update"
       /\ subs' = IF InTable(s) THEN [subs EXCEPT ![s] = Renewed(c, s)] ELSE subs
       /\ cycle' = [cycle EXCEPT ![c] = Onward(c)]
       /\ UNCHANGED <<first, byHand, bills, req, today, faults>>

\* A statement fails.
StatementFails(c) ==
    /\ faults < MaxFaults
    /\ faults' = faults + 1
    /\ cycle[c].at \in {"insert", "items", "update"}
    /\ cycle' = [cycle EXCEPT ![c] = AfterError(c)]
    /\ UNCHANGED <<rows, bills, req, today>>

-----------------------------------------------------------------------------
(* POST /api/subscriptions/:id/confirm-cancel and /confirm-invoice.        *)

\* The row is read, before the chain is asked.
Receive(r) ==
    /\ req[r].at = "idle"
    /\ \E k \in {"cancel", "invoice"}, s \in Subs :
         /\ InTable(s)
         /\ req' = [req EXCEPT ![r] = [at |-> "write", kind |-> k, sub |-> s,
                                       row |-> subs[s]]]
    /\ UNCHANGED <<rows, bills, cycle, today, faults>>

\* The signature is known, or the chain does not confirm what it should.
Refuse(r) ==
    /\ req[r].at = "write"
    /\ req' = [req EXCEPT ![r] = Answered]
    /\ UNCHANGED <<rows, bills, cycle, today, faults>>

\* WHERE id = ... AND version = ...
UnchangedSince(r) ==
    /\ InTable(req[r].sub)
    /\ subs[req[r].sub].version = req[r].row.version

\* A confirmed cancellation ends the subscription, a confirmed invoice starts
\* a period of 30 days today.
AfterConfirm(r, row) ==
    IF req[r].kind = "cancel"
    THEN [row EXCEPT !.status = "cancelled", !.version = row.version + 1]
    ELSE [row EXCEPT !.end = today + 30, !.version = row.version + 1]

Confirm(r) ==
    LET s == req[r].sub
    IN /\ req[r].at = "write"
       /\ UnchangedSince(r)
       /\ subs' = [subs EXCEPT ![s] = AfterConfirm(r, subs[s])]
       /\ byHand' = [byHand EXCEPT ![s] = byHand[s] \/ req[r].kind = "invoice"]
       /\ req' = [req EXCEPT ![r] = Answered]
       /\ UNCHANGED <<first, bills, cycle, today, faults>>

\* The server stops; what was under way is gone.
Crash ==
    /\ faults < MaxFaults
    /\ faults' = faults + 1
    /\ cycle' = [c \in Cycles |-> IdleCycle]
    /\ req' = [r \in Requests |->
                 IF req[r].at = "write" THEN Answered ELSE req[r]]
    /\ UNCHANGED <<rows, bills, today>>

-----------------------------------------------------------------------------

Step(c) == Pick(c) \/ Insert(c) \/ Items(c) \/ Update(c)

Next ==
    \/ Tick
    \/ Cleanup
    \/ Crash
    \/ \E s \in Subs : Create(s) \/ Activate(s)
    \/ \E c \in Cycles : Begin(c) \/ Step(c) \/ StatementFails(c)
    \/ \E r \in Requests : Receive(r) \/ Refuse(r) \/ Confirm(r)

Spec == Init /\ [][Next]_vars

\* Every midnight starts a cycle, whatever days the clock of the model can
\* tell apart, and a cycle that has begun goes on.
FairSpec ==
    /\ Spec
    /\ \A c \in Cycles : WF_vars(Begin(c)) /\ WF_vars(Step(c))

-----------------------------------------------------------------------------
(* Properties.                                                             *)

CycleRow == [at : {"idle", "next", "insert", "items", "update"},
             todo : SUBSET Subs, row : [Subs -> Row],
             sub : Subs \cup {NoSub}, id : Nat]
RequestRow == [at : {"idle", "write", "done"}, kind : {"cancel", "invoice"},
               sub : Subs \cup {NoSub}, row : Row]

\* The types of the variables.
TypeOK ==
    /\ subs \in [Subs -> Row]
    /\ first \in [Subs -> Nat \cup {NoDay}]
    /\ byHand \in [Subs -> BOOLEAN]
    /\ invoices \subseteq Invoice
    /\ lined \subseteq Nat
    /\ made \in Nat
    /\ late \in [Subs -> Nat]
    /\ cycle \in [Cycles -> CycleRow]
    /\ req \in [Requests -> RequestRow]
    /\ today \in Nat
    /\ faults \in Nat

\* Whatever cycles overlap, fail or are cut short, no period of a subscription
\* has two renewal invoices.
BilledOnce ==
    \A i, j \in invoices : i.sub = j.sub /\ i.end = j.end => i = j

\* The cycle moves a subscription on only past a period whose invoice is
\* complete, with its line item.
LastPeriodBilled ==
    \A s \in Subs :
      ~byHand[s] /\ InTable(s) /\ subs[s].end # first[s] =>
        \E i \in invoices :
          i.sub = s /\ i.end + RenewalOf(s) = subs[s].end /\ i.id \in lined

\* A subscription cancelled while cycles are under way is billed at most once
\* more, however many of them have read its row.
OneLateBill == \A s \in Subs : ~byHand[s] => late[s] <= 1

\* A request that finds the version it has read finds the period it has read:
\* it overwrites no renewal it has not seen.
NoRenewalOverwritten ==
    \A r \in Requests :
      LET s == req[r].sub
      IN req[r].at = "write" /\ UnchangedSince(r) => subs[s].end = req[r].row.end

\* The first period of s that has no invoice.
DueOf(s) ==
    IF ~InTable(s) THEN NoDay
    ELSE IF Billed(s, subs[s].end) THEN subs[s].end + RenewalOf(s)
    ELSE subs[s].end

Renewal ==
    INSTANCE Renewals WITH
      Length <- [s \in Subs |-> RenewalOf(s)],
      due <- [s \in Subs |-> DueOf(s)],
      billed <- [s \in Subs |-> {i.end : i \in {j \in invoices : j.sub = s}}]

\* Until somebody mints by hand, a subscription's periods are billed one after
\* another, each once and none left out, whatever happens to the cycles.
BillsInOrder == Renewal!Spec

\* Some cycle is between the invoice of s and its next period.
Renewing(s) ==
    \E c \in Cycles : cycle[c].at \in {"items", "update"} /\ cycle[c].sub = s

\* The period of s has its invoice, but nobody is about to move s on.
Stuck(s) == Billed(s, subs[s].end) /\ ~Renewing(s)

Behind(s) == subs[s].status = "active" /\ subs[s].end < today

\* A subscription that is behind, by however many periods, catches up; only
\* one that was left between its invoice and its next period does not.
BillingMovesOn == \A s \in Subs : Behind(s) ~> ~Behind(s) \/ Stuck(s)

-----------------------------------------------------------------------------
(* The inductive invariant.                                                *)

\* Cycle c has a row of s that it has not billed yet.
Holds(c, s) ==
    \/ cycle[c].at # "idle" /\ s \in cycle[c].todo
    \/ cycle[c].at = "insert" /\ s = cycle[c].sub

\* Cycle c is between the invoice of s and its next period.
Bills(c, s) == cycle[c].at \in {"items", "update"} /\ cycle[c].sub = s

\* Invoices have ids of their own, and are of subscriptions that were active.
InvoiceInv ==
    /\ \A i \in invoices :
         i.id < made /\ subs[i.sub].status \in {"active", "cancelled"}
    /\ \A i, j \in invoices : i.id = j.id => i = j

\* A cycle at work is at work on a subscription.
CycleInv ==
    \A c \in Cycles :
      /\ cycle[c].at \in {"insert", "items", "update"} => cycle[c].sub \in Subs
      /\ cycle[c].at = "idle" => cycle[c].todo = {}
      /\ \A s \in Subs :
           Holds(c, s) => subs[s].status \in {"active", "cancelled"}
      /\ \A s \in Subs :
           Bills(c, s) =>
             /\ \E i \in invoices :
                  i.sub = s /\ i.end = cycle[c].row[s].end /\ i.id = cycle[c].id
             /\ cycle[c].at = "update" => cycle[c].id \in lined
             /\ \A d \in Cycles \ {c} :
                  cycle[d].at \in {"items", "update"} => cycle[d].id # cycle[c].id

\* Without invoices by hand: nothing is billed past the current period, a copy
\* of a row is of the current period or of one that is billed, and who bills
\* a period bills the current one.
PeriodInv ==
    \A s \in Subs : ~byHand[s] =>
      /\ \A i \in invoices : i.sub = s => i.end <= subs[s].end
      /\ \A c \in Cycles :
           /\ Holds(c, s) => \/ cycle[c].row[s].end = subs[s].end
                             \/ Billed(s, cycle[c].row[s].end)
           /\ Bills(c, s) => cycle[c].row[s].end = subs[s].end

\* After a late bill no copy is left that could be billed.
LateInv ==
    \A s \in Subs : ~byHand[s] /\ late[s] > 0 =>
      /\ late[s] = 1
      /\ subs[s].status = "cancelled"
      /\ \A c \in Cycles : Holds(c, s) => Billed(s, cycle[c].row[s].end)

\* A version is the version of one end of the period.
VersionInv ==
    \A r \in Requests : req[r].at = "write" =>
      /\ req[r].sub \in Subs
      /\ subs[req[r].sub].status # "new"
      /\ req[r].row.version <= subs[req[r].sub].version
      /\ req[r].row.version = subs[req[r].sub].version =>
           req[r].row.end = subs[req[r].sub].end

BillingInv ==
    /\ TypeOK
    /\ BilledOnce
    /\ InvoiceInv
    /\ CycleInv
    /\ PeriodInv
    /\ LateInv
    /\ VersionInv
    /\ LastPeriodBilled
=============================================================================
