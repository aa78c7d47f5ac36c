-------------------------- MODULE InvoiceCreation --------------------------
(***************************************************************************)
(* Creation and numbering of invoices: POST /api/invoices                  *)
(* (server/invoice-routes.ts), createInvoiceWithItems and deleteInvoice    *)
(* (invoice-storage.ts), and PUT /api/business/profile                     *)
(* (profile-routes.ts), which writes the counter the numbers come from.    *)
(* A merchant's number is drawn in a transaction that locks the merchant's *)
(* profile; the numbers are unique over all merchants, so that merchants   *)
(* who share a prefix compete for them.  An invoice to be encrypted is     *)
(* created in plain text first; its text is replaced, or it is deleted,    *)
(* after its transaction.                                                  *)
(*                                                                         *)
(* One action is one await.  Left out: amounts, the year in the number,    *)
(* the customer's e-mail address, the credit score (a task of its own that *)
(* reads only its arguments), and the address on chain of the invoice.     *)
(*                                                                         *)
(* Where two operators with the same parameters stand one above the other, *)
(* the first is a fault the second must not have; no action uses it.       *)
(***************************************************************************)
EXTENDS Integers

CONSTANTS
    Merchants,
    Prefixes,        \* what a merchant's numbers may begin with
    Stamps,          \* the digits of a clock in milliseconds
    Requests,        \* bound: requests to create an invoice
    Asks,            \* bound: Asks[r]: what r may ask for
    Edits,           \* bound: requests to write a profile or delete an invoice
    NextNumbers,     \* what a merchant may write into nextInvoiceNumber
    InitialProfiles, \* InitialProfiles[m]: those m may start with
    Attempts,        \* attempts < 10
    NoProfile,
    NoRequest,
    NoMerchant,
    NoStamp,
    NoPrefix,
    MaxFaults        \* bound on crashes and failed statements

\* In plain text, encrypted, or encrypted for fewer than two parties.
Privacy == {"plain", "encrypted", "malformed"}

Profile == [prefix : Prefixes, next : Nat]

ASSUME CreationAssumption ==
    /\ NoProfile \notin Profile
    /\ NoRequest \notin Requests
    /\ NoMerchant \notin Merchants
    /\ NoStamp \notin Stamps
    /\ NoPrefix \notin Prefixes
    /\ Asks \in [Requests -> SUBSET [merchant : Merchants, privacy : Privacy]]
    /\ NextNumbers \subseteq Nat \ {0}
    /\ InitialProfiles \in [Merchants -> SUBSET (Profile \cup {NoProfile})]
    /\ Attempts \in Nat \ {0}
    /\ MaxFaults \in Nat

VARIABLES
    profile,  \* business_profiles, by owner
    lock,     \* lock[m]: the transaction that holds m's profile FOR UPDATE
    row,      \* row[r]: the invoice of request r in the invoices table
    items,    \* items[r]: what its line items say
    number,   \* number[r]: its number, in the table or about to be
    pc,       \* where each request is
    req,      \* what it asks
    view,     \* view[r]: the profile it has read, with nextNum as its next
    tries,    \* tries[r]: the collisions it has met
    edit,     \* where each of the other requests is
    used,     \* history: the numbers of all invoices that were ever there
    base,     \* history: base[m]: where the counter of m was last set
    own,      \* history: own[m]: the numbers m has drawn since
    undeleted, \* history: the requests whose deletion has failed
    faults

profiles == <<profile, lock, base, own>>
table == <<row, items, used>>
locals == <<pc, req, view, tries, number>>
vars == <<profiles, table, locals, edit, undeleted, faults>>

\* INV-2025-007, INV-2025-007-1234, and INV-1735689600000 or the same with a
\* random suffix, where there is no profile.
Number == [prefix : Prefixes \cup {NoPrefix}, n : Nat, stamp : Stamps \cup {NoStamp}]
Counted(p, n) == [prefix |-> p, n |-> n, stamp |-> NoStamp]
Stamped(p, n, t) == [prefix |-> p, n |-> n, stamp |-> t]
Timed(t, k) == [prefix |-> NoPrefix, n |-> k, stamp |-> t]

Request == [merchant : Merchants \cup {NoMerchant},
            privacy : Privacy]
IdleRequest == [merchant |-> NoMerchant, privacy |-> "plain"]
IdleEdit == [at |-> "idle", merchant |-> NoMerchant, prefix |-> NoPrefix, next |-> 0]
Blank == [prefix |-> NoPrefix, next |-> 0]

StartOf(m) == IF profile[m] = NoProfile THEN 0 ELSE profile[m].next

Init ==
    /\ profile \in {f \in [Merchants -> UNION {InitialProfiles[m] : m \in Merchants}] :
                     \A m \in Merchants : f[m] \in InitialProfiles[m]}
    /\ lock = [m \in Merchants |-> NoRequest]
    /\ row = [r \in Requests |-> "none"]
    /\ items = [r \in Requests |-> {}]
    /\ number = [r \in Requests |-> Timed(NoStamp, 0)]
    /\ pc = [r \in Requests |-> "idle"]
    /\ req = [r \in Requests |-> IdleRequest]
    /\ view = [r \in Requests |-> Blank]
    /\ tries = [r \in Requests |-> 0]
    /\ edit = [e \in Edits |-> IdleEdit]
    /\ used = {}
    /\ base = [m \in Merchants |-> StartOf(m)]
    /\ own = [m \in Merchants |-> {}]
    /\ undeleted = {}
    /\ faults = 0

-----------------------------------------------------------------------------
(* What Postgres shows a transaction of the others.                        *)

\* The steps between the insert of an invoice and its COMMIT.
Inserted == {"items", "commit"}

\* The steps of a transaction that has locked a profile.
Counting == {"number", "counter"}

\* An invoice with number x is in the table.
Visible(x) == \E q \in Requests : row[q] # "none" /\ number[q] = x

\* Another transaction has put x into the unique index, and may still go back.
Claimed(r, x) == \E q \in Requests \ {r} : pc[q] \in Inserted /\ number[q] = x

Goto(r, step) == pc' = [pc EXCEPT ![r] = step]

\* Fault: the connection goes back to the pool with its transaction open.
LeftOpen(r) == lock

\* The transaction of r is over: its lock is free.
Unlocked(r) == [m \in Merchants |-> IF lock[m] = r THEN NoRequest ELSE lock[m]]

\* The transaction of r ends, and leaves nothing behind.
Rollback(r, step) ==
    /\ Goto(r, step)
    /\ lock' = Unlocked(r)
    /\ UNCHANGED <<profile, base, own, table, req, view, tries, number>>

-----------------------------------------------------------------------------
(* createInvoiceWithItems.                                                 *)

Receive(r) ==
    /\ pc[r] = "idle"
    /\ \E a \in Asks[r] : req' = [req EXCEPT ![r] = a]
    /\ Goto(r, "profile")
    /\ UNCHANGED <<profiles, table, view, tries, number, edit, undeleted, faults>>

\* Fault: SELECT without FOR UPDATE.
ReadWithoutLock(m) == TRUE

\* SELECT ... FOR UPDATE waits for whoever holds the row.
LockFree(m) == lock[m] = NoRequest

LockProfile(r) ==
    LET m == req[r].merchant
    IN /\ pc[r] = "profile"
       /\ profile[m] # NoProfile
       /\ LockFree(m)
       /\ lock' = [lock EXCEPT ![m] = r]
       /\ view' = [view EXCEPT ![r] = profile[m]]
       /\ Goto(r, "number")
       /\ UNCHANGED <<profile, base, own, table, req, tries, number, edit, undeleted, faults>>

\* Who has no profile gets a number made of the time.
FindNoProfile(r) ==
    /\ pc[r] = "profile"
    /\ profile[req[r].merchant] = NoProfile
    /\ Goto(r, "time")
    /\ UNCHANGED <<profiles, table, req, view, tries, number, edit, undeleted, faults>>

TimeNumber(r) ==
    /\ pc[r] = "time"
    /\ \E t \in Stamps, k \in {1, 2} :
         number' = [number EXCEPT ![r] =
                      IF Visible(Timed(t, 0)) THEN Timed(t, k) ELSE Timed(t, 0)]
    /\ Goto(r, "insert")
    /\ UNCHANGED <<profiles, table, req, view, tries, edit, undeleted, faults>>

\* The next number is free, as far as this transaction can see.
TakeNumber(r) ==
    LET x == Counted(view[r].prefix, view[r].next)
    IN /\ pc[r] = "number"
       /\ ~Visible(x)
       /\ number' = [number EXCEPT ![r] = x]
       /\ Goto(r, "counter")
       /\ UNCHANGED <<profiles, table, req, view, tries, edit, undeleted, faults>>

\* It is taken, by another merchant or from before the counter was set back.
SkipNumber(r) ==
    /\ pc[r] = "number"
    /\ Visible(Counted(view[r].prefix, view[r].next))
    /\ tries[r] + 1 < Attempts
    /\ view' = [view EXCEPT ![r].next = @ + 1]
    /\ tries' = [tries EXCEPT ![r] = @ + 1]
    /\ UNCHANGED <<profiles, table, pc, req, number, edit, undeleted, faults>>

\* The attempts are used up: the number gets the digits of the time.
StampNumber(r) ==
    /\ pc[r] = "number"
    /\ Visible(Counted(view[r].prefix, view[r].next))
    /\ tries[r] + 1 = Attempts
    /\ \E t \in Stamps :
         number' = [number EXCEPT ![r] =
                      Stamped(view[r].prefix, view[r].next + 1, t)]
    /\ view' = [view EXCEPT ![r].next = @ + 2]
    /\ tries' = [tries EXCEPT ![r] = @ + 1]
    /\ Goto(r, "counter")
    /\ UNCHANGED <<profiles, table, req, edit, undeleted, faults>>

\* The update of the counter, seen by the others with the COMMIT.
WriteCounter(r) ==
    /\ pc[r] = "counter"
    /\ Goto(r, "insert")
    /\ UNCHANGED <<profiles, table, req, view, tries, number, edit, undeleted, faults>>

\* The insert waits for a transaction that has inserted the same number.
Insert(r) ==
    /\ pc[r] = "insert"
    /\ ~Claimed(r, number[r])
    /\ ~Visible(number[r])
    /\ Goto(r, "items")
    /\ UNCHANGED <<profiles, table, req, view, tries, number, edit, undeleted, faults>>

\* The number has been taken since it was looked up: 500.
InsertFails(r) ==
    /\ pc[r] = "insert"
    /\ ~Claimed(r, number[r])
    /\ Visible(number[r])
    /\ Rollback(r, "conflict")
    /\ UNCHANGED <<edit, undeleted, faults>>

InsertItems(r) ==
    /\ pc[r] = "items"
    /\ Goto(r, "commit")
    /\ UNCHANGED <<profiles, table, req, view, tries, number, edit, undeleted, faults>>

\* What the handler does when the invoice is there.
AfterCommit(r) ==
    CASE req[r].privacy = "plain" -> "notify"
      [] req[r].privacy = "encrypted" -> "encrypt"
      [] req[r].privacy = "malformed" -> "refused"

\* The transaction of r counts for m, and has read its profile.
CountsFor(r, m) == req[r].merchant = m /\ number[r].prefix # NoPrefix

\* Fault: the counter stops at the number just drawn.
CounterOnNumber(r) == view[r].next

\* Fault: one number too far.
CounterPastNext(r) == view[r].next + 2

\* nextInvoiceNumber: nextNum + 1
CounterAfter(r) == view[r].next + 1

Commit(r) ==
    /\ pc[r] = "commit"
    /\ profile' = [m \in Merchants |->
                     IF CountsFor(r, m) THEN [profile[m] EXCEPT !.next = CounterAfter(r)]
                                    ELSE profile[m]]
    /\ own' = [m \in Merchants |->
                 IF CountsFor(r, m) THEN own[m] \cup {number[r].n} ELSE own[m]]
    /\ lock' = Unlocked(r)
    /\ row' = [row EXCEPT ![r] = "plain"]
    /\ items' = [items EXCEPT ![r] = {"details"}]
    /\ used' = used \cup {number[r]}
    /\ Goto(r, AfterCommit(r))
    /\ UNCHANGED <<base, req, view, tries, number, edit, undeleted, faults>>

\* A statement of the transaction fails: 500.
StatementFails(r) ==
    /\ faults < MaxFaults
    /\ faults' = faults + 1
    /\ pc[r] \in {"profile", "time", "insert"} \cup Counting \cup Inserted
    /\ Rollback(r, "failed")
    /\ UNCHANGED <<edit, undeleted>>

-----------------------------------------------------------------------------
(* What follows the transaction.                                           *)

\* The encryption is asked of another network.
Encrypt(r) ==
    /\ pc[r] = "encrypt"
    /\ \/ Goto(r, "scrub")
       \/ Goto(r, "check")
    /\ UNCHANGED <<profiles, table, req, view, tries, number, edit, undeleted, faults>>

\* The invoice gets its encrypted data, and loses its text.
Scrub(r) ==
    /\ pc[r] = "scrub"
    /\ row' = [row EXCEPT ![r] = IF @ = "none" THEN @ ELSE "encrypted"]
    /\ Goto(r, "dropItems")
    /\ UNCHANGED <<profiles, items, used, req, view, tries, number, edit, undeleted, faults>>

\* Fault: the items stay, and the new one comes after them.
ItemsKept(r) == items[r]

\* All items of the invoice are deleted.
ItemsLeft(r) == {}

DropItems(r) ==
    /\ pc[r] = "dropItems"
    /\ items' = [items EXCEPT ![r] = ItemsLeft(r)]
    /\ Goto(r, "placeholder")
    /\ UNCHANGED <<profiles, row, used, req, view, tries, number, edit, undeleted, faults>>

\* The insert of the new item; without its invoice it fails.
AddPlaceholder(r) ==
    /\ pc[r] = "placeholder"
    /\ \/ /\ row[r] # "none"
          /\ items' = [items EXCEPT ![r] = @ \cup {"placeholder"}]
          /\ Goto(r, "notify")
       \/ /\ row[r] = "none"
          /\ Goto(r, "check")
          /\ UNCHANGED items
    /\ UNCHANGED <<profiles, row, used, req, view, tries, number, edit, undeleted, faults>>

\* deleteInvoice reads the status first.  No invoice is paid before its
\* request is answered.
CheckDelete(r) ==
    /\ pc[r] = "check"
    /\ Goto(r, IF row[r] = "none" THEN "unavailable" ELSE "delete")
    /\ UNCHANGED <<profiles, table, req, view, tries, number, edit, undeleted, faults>>

RowDeleted(r) == "none"

\* "The invoice was not created to protect your privacy.": 503.
Delete(r) ==
    /\ pc[r] = "delete"
    /\ row' = [row EXCEPT ![r] = RowDeleted(r)]
    /\ items' = [items EXCEPT ![r] = {}]
    /\ Goto(r, "unavailable")
    /\ UNCHANGED <<profiles, used, req, view, tries, number, edit, undeleted, faults>>

\* A statement fails.  That of a deletion is ignored: the same 503.
CleanupFails(r) ==
    /\ faults < MaxFaults
    /\ faults' = faults + 1
    /\ \/ /\ pc[r] \in {"scrub", "dropItems", "placeholder"}
          /\ Goto(r, "check")
          /\ UNCHANGED undeleted
       \/ /\ pc[r] \in {"check", "delete"}
          /\ Goto(r, "unavailable")
          /\ undeleted' = undeleted \cup {r}
    /\ UNCHANGED <<profiles, table, req, view, tries, number, edit>>

\* The event of the new invoice, and 201.
Notify(r) ==
    /\ pc[r] = "notify"
    /\ Goto(r, "created")
    /\ UNCHANGED <<profiles, table, req, view, tries, number, edit, undeleted, faults>>

\* DELETE /api/invoices/:id of a draft that its owner has seen.
OwnerDeletes(e, r) ==
    /\ edit[e].at = "idle"
    /\ row[r] # "none"
    /\ row' = [row EXCEPT ![r] = "none"]
    /\ items' = [items EXCEPT ![r] = {}]
    /\ edit' = [edit EXCEPT ![e].at = "done"]
    /\ UNCHANGED <<profiles, used, locals, undeleted, faults>>

-----------------------------------------------------------------------------
(* PUT /api/business/profile.                                              *)

\* A form that was filled in some time ago is sent; is there a profile?
EditRead(e) ==
    /\ edit[e].at = "idle"
    /\ \E m \in Merchants, p \in Prefixes, n \in NextNumbers \cup {0} :
         edit' = [edit EXCEPT ![e] =
                    [at |-> IF profile[m] = NoProfile THEN "insert" ELSE "update",
                     merchant |-> m, prefix |-> p, next |-> n]]
    /\ UNCHANGED <<profiles, table, locals, undeleted, faults>>

EditDone(e) == edit' = [edit EXCEPT ![e].at = "done"]

\* The update waits for the lock.  A number that was not given stays.
EditUpdate(e) ==
    LET m == edit[e].merchant
        n == IF edit[e].next = 0 THEN profile[m].next ELSE edit[e].next
    IN /\ edit[e].at = "update"
       /\ lock[m] = NoRequest
       /\ profile' = [profile EXCEPT ![m] = [prefix |-> edit[e].prefix, next |-> n]]
       /\ base' = [base EXCEPT ![m] = n]
       /\ own' = [own EXCEPT ![m] = {}]
       /\ EditDone(e)
       /\ UNCHANGED <<lock, table, locals, undeleted, faults>>

\* The first profile of a wallet; the second insert fails.
EditInsert(e) ==
    LET m == edit[e].merchant
        n == IF edit[e].next = 0 THEN 1 ELSE edit[e].next
    IN /\ edit[e].at = "insert"
       /\ IF profile[m] = NoProfile
          THEN /\ profile' = [profile EXCEPT ![m] =
                                [prefix |-> edit[e].prefix, next |-> n]]
               /\ base' = [base EXCEPT ![m] = n]
               /\ UNCHANGED <<lock, own>>
          ELSE UNCHANGED profiles
       /\ EditDone(e)
       /\ UNCHANGED <<table, locals, undeleted, faults>>

-----------------------------------------------------------------------------

\* The answers: 201, 400, 500, 500, 503, none.
Ended == {"created", "refused", "conflict", "failed", "unavailable", "lost"}

\* The steps between the COMMIT and the answer.
Answering == {"notify", "encrypt", "scrub", "dropItems", "placeholder", "check",
              "delete"}

\* The server stops: open transactions are rolled back, requests are lost.
Crash ==
    /\ faults < MaxFaults
    /\ faults' = faults + 1
    /\ pc' = [r \in Requests |-> IF pc[r] \in Ended \cup {"idle"} THEN pc[r] ELSE "lost"]
    /\ lock' = [m \in Merchants |-> NoRequest]
    /\ edit' = [e \in Edits |-> IF edit[e].at = "idle" THEN edit[e]
                                ELSE [edit[e] EXCEPT !.at = "done"]]
    /\ UNCHANGED <<profile, base, own, table, req, view, tries, number>>
    /\ UNCHANGED undeleted

Transaction(r) ==
    \/ LockProfile(r) \/ FindNoProfile(r) \/ TimeNumber(r)
    \/ TakeNumber(r) \/ SkipNumber(r) \/ StampNumber(r) \/ WriteCounter(r)
    \/ Insert(r) \/ InsertFails(r) \/ InsertItems(r) \/ Commit(r)

Aftermath(r) ==
    \/ Encrypt(r) \/ Scrub(r) \/ DropItems(r) \/ AddPlaceholder(r)
    \/ CheckDelete(r) \/ Delete(r) \/ Notify(r)

EditStep(e) == EditUpdate(e) \/ EditInsert(e)

Next ==
    \/ Crash
    \/ \E r \in Requests :
         \/ Receive(r) \/ Transaction(r) \/ StatementFails(r)
         \/ Aftermath(r) \/ CleanupFails(r)
    \/ \E e \in Edits :
         EditRead(e) \/ EditStep(e) \/ \E r \in Requests : OwnerDeletes(e, r)

Spec == Init /\ [][Next]_vars

\* What has begun goes on: the event loop, Postgres, and the network that
\* encrypts, which answers or is given up.
FairSpec ==
    /\ Spec
    /\ \A r \in Requests : WF_vars(Transaction(r)) /\ WF_vars(Aftermath(r))
    /\ \A e \in Edits : WF_vars(EditStep(e))

-----------------------------------------------------------------------------
(* Properties.                                                             *)

EditRow == [at : {"idle", "update", "insert", "done"},
            merchant : Merchants \cup {NoMerchant},
            prefix : Prefixes \cup {NoPrefix}, next : Nat]

\* The types of the variables.
TypeOK ==
    /\ profile \in [Merchants -> Profile \cup {NoProfile}]
    /\ lock \in [Merchants -> Requests \cup {NoRequest}]
    /\ row \in [Requests -> {"none", "plain", "encrypted"}]
    /\ items \in [Requests -> SUBSET {"details", "placeholder"}]
    /\ number \in [Requests -> Number]
    /\ pc \in [Requests -> {"idle", "profile", "time", "insert"} \cup Counting
                           \cup Inserted \cup Answering \cup Ended]
    /\ req \in [Requests -> Request]
    /\ view \in [Requests -> [prefix : Prefixes \cup {NoPrefix}, next : Nat]]
    /\ tries \in [Requests -> Nat]
    /\ edit \in [Edits -> EditRow]
    /\ used \subseteq Number
    /\ base \in [Merchants -> Nat]
    /\ own \in [Merchants -> SUBSET Nat]
    /\ undeleted \subseteq Requests
    /\ faults \in Nat

\* n is one of the two numbers that are passed over when the attempts are used
\* up: the invoice gets n or the number before it, with the digits of the time.
PassedOver(p, n) ==
    \E t \in Stamps : Stamped(p, n, t) \in used \/ Stamped(p, n - 1, t) \in used

\* Whatever fails, no number is lost: each one the counter of a merchant has
\* passed since it was last set is, or was, the number of an invoice, except
\* for those passed over with the attempts used up.
NoNumberLost ==
    \A m \in Merchants :
      profile[m] # NoProfile =>
        \A n \in base[m] .. profile[m].next - 1 :
          Counted(profile[m].prefix, n) \in used \/ PassedOver(profile[m].prefix, n)

\* The invoices of a merchant are numbered in the order they come into the
\* table, until the merchant sets the counter.
NumberedInOrder ==
    [][\A r \in Requests :
         pc[r] = "commit" /\ pc'[r] # "commit" /\ row'[r] # "none" /\ number[r].prefix # NoPrefix =>
           \A n \in own[req[r].merchant] : n < number[r].n]_vars

\* A request that fails on a number that was counted has been beaten to it by
\* another merchant, never by another request of its own merchant ("prevents
\* race conditions where two invoices get the same number").
BeatenByAnother ==
    \A r \in Requests :
      pc[r] = "conflict" /\ number[r].prefix # NoPrefix /\ number[r].stamp = NoStamp =>
        \E q \in Requests :
          /\ pc[q] \in Answering \cup Ended
          /\ number[q] = number[r]
          /\ req[q].merchant # req[r].merchant

\* A merchant who asked for encryption and was told that the invoice is there
\* finds nothing of its text in the table.  One who was told that it is not
\* finds no invoice, unless the deletion itself has failed ("ignore").
EncryptedOrGone ==
    \A r \in Requests :
      /\ pc[r] = "created" /\ req[r].privacy = "encrypted" =>
           row[r] # "plain" /\ "details" \notin items[r]
      /\ pc[r] = "unavailable" /\ r \notin undeleted => row[r] = "none"

\* The transactions r waits for: the one that has locked its profile, or the
\* ones that have put its number into the index.
WaitsFor(r) ==
    CASE pc[r] = "profile" -> {lock[req[r].merchant]} \ {NoRequest}
      [] pc[r] = "insert" -> {q \in Requests \ {r} :
                                pc[q] \in Inserted /\ number[q] = number[r]}
      [] OTHER -> {}

\* A transaction that holds a profile may wait for another merchant's, which
\* holds a profile too, but never in a circle: Postgres has no transaction of
\* createInvoiceWithItems to abort (a number enters the index last).
NoDeadlock ==
    \A circle \in SUBSET Requests :
      (\A r \in circle : WaitsFor(r) \cap circle # {}) => circle = {}

\* No request waits for ever for a profile or a number.
EveryRequestEnds == \A r \in Requests : pc[r] # "idle" ~> pc[r] \in Ended

-----------------------------------------------------------------------------
(* The inductive invariant.                                                *)

\* The transaction of r has read a profile, and has not ended.
ReadsProfile(r) ==
    \/ pc[r] \in Counting
    \/ pc[r] \in {"insert"} \cup Inserted /\ number[r].prefix # NoPrefix

\* The lock of a profile is held by the one transaction that has read it, and
\* the profile stays as it was read.
LockInv ==
    /\ \A r \in Requests :
         ReadsProfile(r) => /\ lock[req[r].merchant] = r
                            /\ profile[req[r].merchant] # NoProfile
                            /\ profile[req[r].merchant].prefix = view[r].prefix
    /\ \A m \in Merchants :
         lock[m] # NoRequest => ReadsProfile(lock[m]) /\ req[lock[m]].merchant = m

\* The number a transaction has got to.
Reached(r) == IF pc[r] = "number" THEN view[r].next ELSE number[r].n

\* The number a transaction has drawn, and where the counter goes from there.
DrawnOK(r) ==
    /\ number[r].prefix = view[r].prefix
    /\ view[r].next = IF number[r].stamp = NoStamp THEN number[r].n
                                                  ELSE number[r].n + 1
    /\ number[r].stamp = NoStamp =>
         \A q \in Requests : row[q] # "none" /\ number[q] = number[r] =>
                               req[q].merchant # req[r].merchant

\* What a transaction has counted to is not behind the counter, and what it has
\* passed on the way was taken.
CountInv ==
    \A r \in Requests :
      ReadsProfile(r) =>
        /\ profile[req[r].merchant].next <= Reached(r)
        /\ \A n \in profile[req[r].merchant].next .. Reached(r) - 1 :
             Counted(view[r].prefix, n) \in used
        /\ pc[r] # "number" => DrawnOK(r)

\* What a merchant has drawn since the counter was set is behind the counter.
CounterAhead ==
    \A m \in Merchants : \A n \in own[m] :
      profile[m] # NoProfile /\ n < profile[m].next

\* Where a request is, and what there is of its invoice.
RowInv ==
    \A r \in Requests :
      /\ pc[r] # "idle" => req[r].merchant \in Merchants
      /\ row[r] # "none" =>
           /\ pc[r] \in Answering \cup Ended
           /\ number[r] \in used
      /\ pc[r] \in {"dropItems", "placeholder"} => row[r] # "plain"
      /\ pc[r] = "placeholder" => "details" \notin items[r]
      /\ pc[r] = "notify" /\ req[r].privacy = "encrypted" =>
           row[r] # "plain" /\ "details" \notin items[r]

\* What a request to write a profile is about.
EditInv ==
    \A e \in Edits :
      /\ edit[e].at \in {"update", "insert"} =>
           edit[e].merchant \in Merchants /\ edit[e].prefix \in Prefixes
      /\ edit[e].at = "update" => profile[edit[e].merchant] # NoProfile

CreationInv ==
    /\ TypeOK
    /\ EditInv
    /\ LockInv
    /\ CountInv
    /\ CounterAhead
    /\ RowInv
    /\ NoNumberLost
    /\ BeatenByAnother
    /\ EncryptedOrGone
=============================================================================
