---------------------------- MODULE InvoiceProofs ----------------------------
(* Proofs about InvoiceCreation, for all sets of merchants, requests and     *)
(* edits, any number of attempts, and any number of faults.                  *)
EXTENDS InvoiceCreation, TLAPS

\* What is in no set of its kind, and the steps of a request.
Steps == {"idle", "profile", "time", "insert"} \cup Counting \cup Inserted
           \cup Answering \cup Ended

LEMMA ProfileType ==
    ASSUME TypeOK, NEW m \in Merchants, profile[m] # NoProfile
    PROVE  /\ profile[m] \in Profile
           /\ profile[m].prefix \in Prefixes /\ profile[m].next \in Nat
  <1>1. profile[m] \in Profile
    BY DEF TypeOK
  <1> QED
    BY <1>1 DEF Profile

-----------------------------------------------------------------------------
(* Types.                                                                    *)

LEMMA TypeInit == Init => TypeOK
  <1> SUFFICES ASSUME Init
               PROVE  TypeOK
    OBVIOUS
  <1>1. profile \in [Merchants -> Profile \cup {NoProfile}]
    BY CreationAssumption DEF Init, CreationAssumption
  <1>2. base \in [Merchants -> Nat]
    BY <1>1 DEF Init, StartOf, Profile
  <1>3. /\ Timed(NoStamp, 0) \in Number
        /\ IdleRequest \in Request
        /\ IdleEdit \in EditRow
        /\ Blank \in [prefix : Prefixes \cup {NoPrefix}, next : Nat]
    BY DEF Timed, Number, IdleRequest, Request, Privacy, IdleEdit, EditRow, Blank
  <1> QED
    BY <1>1, <1>2, <1>3 DEF Init, TypeOK

\* A transaction that is rolled back.
LEMMA RollbackType ==
    ASSUME TypeOK, NEW r \in Requests, NEW step \in Ended, Rollback(r, step),
           edit' = edit, undeleted' = undeleted, faults' \in Nat
    PROVE  TypeOK'
  <1>1. pc' \in [Requests -> Steps]
    BY DEF Rollback, Goto, TypeOK, Steps
  <1>2. lock' \in [Merchants -> Requests \cup {NoRequest}]
    BY DEF Rollback, Unlocked, TypeOK
  <1> QED
    BY <1>1, <1>2 DEF Rollback, TypeOK, table, Steps

LEMMA TypeStep ==
    ASSUME CreationInv, [Next]_vars
    PROVE  TypeOK'
  <1>0. TypeOK
    BY DEF CreationInv
  <1> USE <1>0
  <1>a. ASSUME NEW r \in Requests, NEW step \in Steps, Goto(r, step)
        PROVE  pc' \in [Requests -> Steps]
    BY <1>a DEF Goto, TypeOK, Steps
  <1>b. ASSUME NEW r \in Requests
        PROVE  /\ view[r].prefix \in Prefixes \cup {NoPrefix}
               /\ view[r].next \in Nat /\ tries[r] \in Nat
    BY DEF TypeOK
  <1>1. CASE Crash
    <2>1. pc' \in [Requests -> Steps]
      BY <1>1 DEF Crash, TypeOK, Steps, Ended
    <2>2. edit' \in [Edits -> EditRow]
      BY <1>1 DEF Crash, TypeOK, EditRow
    <2> QED
      BY <1>1, <2>1, <2>2 DEF Crash, TypeOK, Steps, table
  <1>2. ASSUME NEW r \in Requests, Receive(r)
        PROVE  TypeOK'
    <2>1. pc' \in [Requests -> Steps]
      BY <1>2, <1>a DEF Receive, Steps
    <2>2. req' \in [Requests -> Request]
      <3>1. Asks[r] \subseteq Request
        BY CreationAssumption DEF CreationAssumption, Request
      <3> QED
        BY <1>2, <3>1 DEF Receive, TypeOK
    <2> QED
      BY <1>2, <2>1, <2>2 DEF Receive, TypeOK, Steps, profiles, table
  <1>3. ASSUME NEW r \in Requests, LockProfile(r)
        PROVE  TypeOK'
    <2>1. pc' \in [Requests -> Steps]
      BY <1>3, <1>a DEF LockProfile, Steps, Counting
    <2>0. req[r].merchant \in Merchants
      BY <1>3 DEF LockProfile, CreationInv, RowInv
    <2>2. view' \in [Requests -> [prefix : Prefixes \cup {NoPrefix}, next : Nat]]
      <3>1. profile[req[r].merchant] \in [prefix : Prefixes \cup {NoPrefix}, next : Nat]
        BY <1>3, <2>0, ProfileType DEF LockProfile, Profile
      <3> QED
        BY <1>3, <3>1 DEF LockProfile, TypeOK
    <2> QED
      BY <1>3, <2>0, <2>1, <2>2 DEF LockProfile, TypeOK, Steps, table
  <1>4. ASSUME NEW r \in Requests, FindNoProfile(r)
        PROVE  TypeOK'
    <2>1. pc' \in [Requests -> Steps]
      BY <1>4, <1>a DEF FindNoProfile, Steps
    <2> QED
      BY <1>4, <2>1 DEF FindNoProfile, TypeOK, Steps, profiles, table
  <1>5. ASSUME NEW r \in Requests, TimeNumber(r)
        PROVE  TypeOK'
    <2>1. pc' \in [Requests -> Steps]
      BY <1>5, <1>a DEF TimeNumber, Steps
    <2>2. number' \in [Requests -> Number]
      BY <1>5 DEF TimeNumber, TypeOK, Timed, Number
    <2> QED
      BY <1>5, <2>1, <2>2 DEF TimeNumber, TypeOK, Steps, profiles, table
  <1>6. ASSUME NEW r \in Requests, TakeNumber(r)
        PROVE  TypeOK'
    <2>1. pc' \in [Requests -> Steps]
      BY <1>6, <1>a DEF TakeNumber, Steps, Counting
    <2>2. number' \in [Requests -> Number]
      BY <1>6, <1>b DEF TakeNumber, TypeOK, Counted, Number
    <2> QED
      BY <1>6, <2>1, <2>2 DEF TakeNumber, TypeOK, Steps, profiles, table
  <1>7. ASSUME NEW r \in Requests, SkipNumber(r)
        PROVE  TypeOK'
    <2>1. view' \in [Requests -> [prefix : Prefixes \cup {NoPrefix}, next : Nat]]
      BY <1>7 DEF SkipNumber, TypeOK
    <2>2. tries' \in [Requests -> Nat]
      BY <1>7 DEF SkipNumber, TypeOK
    <2> QED
      BY <1>7, <2>1, <2>2 DEF SkipNumber, TypeOK, profiles, table
  <1>8. ASSUME NEW r \in Requests, StampNumber(r)
        PROVE  TypeOK'
    <2>1. pc' \in [Requests -> Steps]
      BY <1>8, <1>a DEF StampNumber, Steps, Counting
    <2>2. number' \in [Requests -> Number]
      BY <1>8, <1>b DEF StampNumber, TypeOK, Stamped, Number
    <2>3. view' \in [Requests -> [prefix : Prefixes \cup {NoPrefix}, next : Nat]]
      BY <1>8 DEF StampNumber, TypeOK
    <2>4. tries' \in [Requests -> Nat]
      BY <1>8 DEF StampNumber, TypeOK
    <2> QED
      BY <1>8, <2>1, <2>2, <2>3, <2>4
      DEF StampNumber, TypeOK, Steps, profiles, table
  <1>9. ASSUME NEW r \in Requests, WriteCounter(r) \/ Insert(r) \/ InsertItems(r)
        PROVE  TypeOK'
    <2>1. pc' \in [Requests -> Steps]
      BY <1>9, <1>a DEF WriteCounter, Insert, InsertItems, Steps, Inserted
    <2> QED
      BY <1>9, <2>1
      DEF WriteCounter, Insert, InsertItems, TypeOK, Steps, profiles, table
  <1>10. ASSUME NEW r \in Requests, InsertFails(r) \/ StatementFails(r)
         PROVE  TypeOK'
    <2>1. faults' \in Nat /\ edit' = edit /\ undeleted' = undeleted
      BY <1>10 DEF InsertFails, StatementFails, TypeOK
    <2>2. \E step \in Ended : Rollback(r, step)
      BY <1>10 DEF InsertFails, StatementFails, Ended
    <2> QED
      BY <2>1, <2>2, RollbackType
  <1>11. ASSUME NEW r \in Requests, Commit(r)
         PROVE  TypeOK'
    <2>1. pc' \in [Requests -> Steps]
      <3>1. req[r].privacy \in Privacy
        BY DEF TypeOK, Request
      <3>2. AfterCommit(r) \in Steps
        BY <3>1 DEF AfterCommit, Privacy, Steps, Answering, Ended
      <3> QED
        BY <1>11, <3>2, <1>a DEF Commit
    <2>2. profile' \in [Merchants -> Profile \cup {NoProfile}]
      <3>1. ASSUME NEW m \in Merchants, CountsFor(r, m)
            PROVE  [profile[m] EXCEPT !.next = CounterAfter(r)] \in Profile
        <4>1. ReadsProfile(r)
          BY <1>11, <3>1 DEF Commit, CountsFor, ReadsProfile, Inserted
        <4>2. profile[m] \in Profile
          BY <3>1, <4>1, ProfileType DEF CountsFor, CreationInv, LockInv
        <4>3. CounterAfter(r) \in Nat
          BY <1>b DEF CounterAfter
        <4> QED
          BY <4>2, <4>3 DEF Profile
      <3> QED
        BY <1>11, <3>1 DEF Commit, TypeOK
    <2>3. lock' \in [Merchants -> Requests \cup {NoRequest}]
      BY <1>11 DEF Commit, Unlocked, TypeOK
    <2>4. own' \in [Merchants -> SUBSET Nat]
      BY <1>11 DEF Commit, TypeOK, Number
    <2>5. row' \in [Requests -> {"none", "plain", "encrypted"}]
      BY <1>11 DEF Commit, TypeOK
    <2>6. items' \in [Requests -> SUBSET {"details", "placeholder"}]
      BY <1>11 DEF Commit, TypeOK
    <2>7. used' \subseteq Number
      BY <1>11 DEF Commit, TypeOK
    <2> QED
      BY <1>11, <2>1, <2>2, <2>3, <2>4, <2>5, <2>6, <2>7
      DEF Commit, TypeOK, Steps
  <1>12. ASSUME NEW r \in Requests, Encrypt(r) \/ CheckDelete(r) \/ Notify(r)
         PROVE  TypeOK'
    <2>1. pc' \in [Requests -> Steps]
      BY <1>12, <1>a DEF Encrypt, CheckDelete, Notify, Steps, Answering, Ended
    <2> QED
      BY <1>12, <2>1
      DEF Encrypt, CheckDelete, Notify, TypeOK, Steps, profiles, table
  <1>13. ASSUME NEW r \in Requests, Scrub(r)
         PROVE  TypeOK'
    <2>1. pc' \in [Requests -> Steps]
      BY <1>13, <1>a DEF Scrub, Steps, Answering
    <2> QED
      BY <1>13, <2>1 DEF Scrub, TypeOK, Steps, profiles
  <1>14. ASSUME NEW r \in Requests, DropItems(r)
         PROVE  TypeOK'
    <2>1. pc' \in [Requests -> Steps]
      BY <1>14, <1>a DEF DropItems, Steps, Answering
    <2> QED
      BY <1>14, <2>1 DEF DropItems, ItemsLeft, TypeOK, Steps, profiles
  <1>15. ASSUME NEW r \in Requests, AddPlaceholder(r)
         PROVE  TypeOK'
    <2>1. pc' \in [Requests -> Steps]
      BY <1>15, <1>a DEF AddPlaceholder, Steps, Answering
    <2>2. items' \in [Requests -> SUBSET {"details", "placeholder"}]
      BY <1>15 DEF AddPlaceholder, TypeOK
    <2> QED
      BY <1>15, <2>1, <2>2 DEF AddPlaceholder, TypeOK, Steps, profiles
  <1>16. ASSUME NEW r \in Requests, Delete(r)
         PROVE  TypeOK'
    <2>1. pc' \in [Requests -> Steps]
      BY <1>16, <1>a DEF Delete, Steps, Ended
    <2> QED
      BY <1>16, <2>1 DEF Delete, RowDeleted, TypeOK, Steps, profiles
  <1>17. ASSUME NEW r \in Requests, CleanupFails(r)
         PROVE  TypeOK'
    <2>1. pc' \in [Requests -> Steps]
      BY <1>17, <1>a DEF CleanupFails, Steps, Answering, Ended
    <2> QED
      BY <1>17, <2>1 DEF CleanupFails, TypeOK, Steps, profiles, table
  <1>18. ASSUME NEW e \in Edits, NEW r \in Requests, OwnerDeletes(e, r)
         PROVE  TypeOK'
    <2>1. edit' \in [Edits -> EditRow]
      BY <1>18 DEF OwnerDeletes, TypeOK, EditRow
    <2> QED
      BY <1>18, <2>1 DEF OwnerDeletes, TypeOK, profiles, locals
  <1>19. ASSUME NEW e \in Edits, EditRead(e)
         PROVE  TypeOK'
    <2>1. edit' \in [Edits -> EditRow]
      BY <1>19, CreationAssumption
      DEF EditRead, TypeOK, EditRow, CreationAssumption
    <2> QED
      BY <1>19, <2>1 DEF EditRead, TypeOK, profiles, table, locals
  <1>20. ASSUME NEW e \in Edits, EditUpdate(e) \/ EditInsert(e)
         PROVE  TypeOK'
    <2>0. edit' = [edit EXCEPT ![e].at = "done"]
      <3>1. CASE EditUpdate(e)
        BY <3>1 DEF EditUpdate, EditDone
      <3>2. CASE EditInsert(e)
        BY <3>2 DEF EditInsert, EditDone
      <3> QED
        BY <1>20, <3>1, <3>2
    <2>1. edit' \in [Edits -> EditRow]
      BY <2>0 DEF TypeOK, EditRow
    <2>2. /\ edit[e].merchant \in Merchants /\ edit[e].prefix \in Prefixes
          /\ edit[e].next \in Nat
      BY <1>20 DEF EditUpdate, EditInsert, CreationInv, EditInv, TypeOK, EditRow
    <2>3. CASE EditUpdate(e)
      <3> DEFINE m == edit[e].merchant
                 n == IF edit[e].next = 0 THEN profile[m].next ELSE edit[e].next
      <3>1. n \in Nat
        BY <2>2, <2>3, ProfileType DEF EditUpdate, CreationInv, EditInv
      <3>2. [prefix |-> edit[e].prefix, next |-> n] \in Profile
        BY <2>2, <3>1 DEF Profile
      <3>3. profile' \in [Merchants -> Profile \cup {NoProfile}]
             /\ base' \in [Merchants -> Nat] /\ own' \in [Merchants -> SUBSET Nat]
        BY <2>3, <3>1, <3>2 DEF EditUpdate, TypeOK
      <3> QED
        BY <2>1, <2>3, <3>3 DEF EditUpdate, TypeOK, table, locals
    <2>4. CASE EditInsert(e)
      <3> DEFINE n == IF edit[e].next = 0 THEN 1 ELSE edit[e].next
      <3>1. n \in Nat /\ [prefix |-> edit[e].prefix, next |-> n] \in Profile
        BY <2>2 DEF Profile
      <3>2. profile' \in [Merchants -> Profile \cup {NoProfile}]
             /\ base' \in [Merchants -> Nat] /\ own' = own /\ lock' = lock
        <4>1. CASE profile[edit[e].merchant] = NoProfile
          <5>1. /\ profile' = [profile EXCEPT ![edit[e].merchant] =
                                 [prefix |-> edit[e].prefix, next |-> n]]
                /\ base' = [base EXCEPT ![edit[e].merchant] = n]
                /\ own' = own /\ lock' = lock
            BY <2>4, <4>1 DEF EditInsert
          <5> QED
            BY <3>1, <5>1 DEF TypeOK
        <4>2. CASE profile[edit[e].merchant] # NoProfile
          BY <2>4, <4>2 DEF EditInsert, TypeOK, profiles
        <4> QED
          BY <4>1, <4>2
      <3>3. UNCHANGED <<table, locals, undeleted, faults>>
        BY <2>4 DEF EditInsert
      <3> QED
        BY <2>1, <3>2, <3>3 DEF TypeOK, table, locals
    <2> QED
      BY <1>20, <2>3, <2>4
  <1>21. CASE UNCHANGED vars
    BY <1>21 DEF vars, profiles, table, locals, TypeOK
  <1> QED
    BY <1>1, <1>2, <1>3, <1>4, <1>5, <1>6, <1>7, <1>8, <1>9, <1>10, <1>11,
       <1>12, <1>13, <1>14, <1>15, <1>16, <1>17, <1>18, <1>19, <1>20, <1>21
    DEF Next, Transaction, Aftermath, EditStep

-----------------------------------------------------------------------------
(* What a step leaves alone.                                                 *)

\* The steps of a request that are in its hands.
Moves(r) ==
    Receive(r) \/ Transaction(r) \/ StatementFails(r) \/ Aftermath(r)
      \/ CleanupFails(r)

LEMMA OthersStay ==
    ASSUME TypeOK, NEW r \in Requests, Moves(r), NEW q \in Requests \ {r}
    PROVE  /\ pc'[q] = pc[q] /\ number'[q] = number[q] /\ view'[q] = view[q]
           /\ req'[q] = req[q] /\ tries'[q] = tries[q]
           /\ row'[q] = row[q] /\ items'[q] = items[q]
  <1>1. pc'[q] = pc[q]
    BY DEF Moves, Transaction, Aftermath, Receive, LockProfile, FindNoProfile,
           TimeNumber, TakeNumber, SkipNumber, StampNumber, WriteCounter, Insert,
           InsertFails, InsertItems, Commit, StatementFails, Encrypt, Scrub,
           DropItems, AddPlaceholder, CheckDelete, Delete, Notify, CleanupFails,
           Rollback, Goto, TypeOK
  <1>2. number'[q] = number[q] /\ view'[q] = view[q] /\ tries'[q] = tries[q]
    BY DEF Moves, Transaction, Aftermath, Receive, LockProfile, FindNoProfile,
           TimeNumber, TakeNumber, SkipNumber, StampNumber, WriteCounter, Insert,
           InsertFails, InsertItems, Commit, StatementFails, Encrypt, Scrub,
           DropItems, AddPlaceholder, CheckDelete, Delete, Notify, CleanupFails,
           Rollback, TypeOK
  <1>3. req'[q] = req[q]
    BY DEF Moves, Transaction, Aftermath, Receive, LockProfile, FindNoProfile,
           TimeNumber, TakeNumber, SkipNumber, StampNumber, WriteCounter, Insert,
           InsertFails, InsertItems, Commit, StatementFails, Encrypt, Scrub,
           DropItems, AddPlaceholder, CheckDelete, Delete, Notify, CleanupFails,
           Rollback, TypeOK
  <1>4. row'[q] = row[q] /\ items'[q] = items[q]
    BY DEF Moves, Transaction, Aftermath, Receive, LockProfile, FindNoProfile,
           TimeNumber, TakeNumber, SkipNumber, StampNumber, WriteCounter, Insert,
           InsertFails, InsertItems, Commit, StatementFails, Encrypt, Scrub,
           DropItems, AddPlaceholder, CheckDelete, Delete, Notify, CleanupFails,
           Rollback, TypeOK, table
  <1> QED
    BY <1>1, <1>2, <1>3, <1>4

\* A transaction that has drawn a counted number is for a merchant with a
\* profile, which it has locked.
LEMMA CounterIsLocked ==
    ASSUME CreationInv, NEW r \in Requests, NEW m \in Merchants,
           pc[r] = "commit", CountsFor(r, m)
    PROVE  /\ ReadsProfile(r) /\ lock[m] = r /\ profile[m] # NoProfile
           /\ profile[m] \in Profile /\ profile[m].prefix = view[r].prefix
           /\ profile[m].next \in Nat /\ view[r].next \in Nat
  <1>1. ReadsProfile(r)
    BY DEF CountsFor, ReadsProfile, Inserted
  <1>2. lock[m] = r /\ profile[m] # NoProfile /\ profile[m].prefix = view[r].prefix
    BY <1>1 DEF CreationInv, LockInv, CountsFor
  <1>3. profile[m] \in Profile /\ profile[m].next \in Nat /\ view[r].next \in Nat
    BY <1>2, ProfileType DEF CreationInv, TypeOK
  <1> QED
    BY <1>1, <1>2, <1>3

\* What becomes of the profiles: a transaction moves the counter of the one it
\* has locked, an edit writes one that is not locked.
ProfileWrite(m) ==
    \/ profile'[m] = profile[m]
    \/ \E r \in Requests :
         /\ Commit(r) /\ CountsFor(r, m)
         /\ profile'[m] = [profile[m] EXCEPT !.next = CounterAfter(r)]
    \/ \E e \in Edits :
         /\ EditUpdate(e) /\ edit[e].merchant = m /\ lock[m] = NoRequest
         /\ profile[m] # NoProfile
    \/ \E e \in Edits :
         EditInsert(e) /\ edit[e].merchant = m /\ profile[m] = NoProfile

LEMMA ProfileWrites ==
    ASSUME CreationInv, [Next]_vars, NEW m \in Merchants
    PROVE  ProfileWrite(m)
  <1>0. TypeOK
    BY DEF CreationInv
  <1>1. ASSUME NEW r \in Requests, Moves(r), ~Commit(r)
        PROVE  profile'[m] = profile[m]
    BY <1>1 DEF Moves, Transaction, Aftermath, Receive, LockProfile,
           FindNoProfile, TimeNumber, TakeNumber, SkipNumber, StampNumber,
           WriteCounter, Insert, InsertFails, InsertItems, StatementFails,
           Encrypt, Scrub, DropItems, AddPlaceholder, CheckDelete, Delete,
           Notify, CleanupFails, Rollback, profiles
  <1>2. ASSUME NEW r \in Requests, Commit(r)
        PROVE  ProfileWrite(m)
    BY <1>0, <1>2 DEF Commit, ProfileWrite, TypeOK
  <1>3. ASSUME NEW e \in Edits, EditUpdate(e)
        PROVE  ProfileWrite(m)
    BY <1>0, <1>3 DEF EditUpdate, ProfileWrite, TypeOK, CreationInv, EditInv
  <1>4. ASSUME NEW e \in Edits, EditInsert(e)
        PROVE  ProfileWrite(m)
    <2>1. CASE edit[e].merchant = m /\ profile[m] = NoProfile
      BY <1>4, <2>1 DEF ProfileWrite
    <2>2. CASE ~(edit[e].merchant = m /\ profile[m] = NoProfile)
      BY <1>0, <1>4, <2>2 DEF EditInsert, ProfileWrite, TypeOK, profiles
    <2> QED
      BY <2>1, <2>2
  <1>5. ASSUME NEW e \in Edits, EditRead(e) \/ \E r \in Requests : OwnerDeletes(e, r)
        PROVE  profile'[m] = profile[m]
    BY <1>5 DEF EditRead, OwnerDeletes, profiles
  <1>6. CASE Crash \/ UNCHANGED vars
    BY <1>6 DEF Crash, vars, profiles, ProfileWrite
  <1> QED
    BY <1>1, <1>2, <1>3, <1>4, <1>5, <1>6
    DEF Next, EditStep, Moves, ProfileWrite

\* A profile that is there stays.
LEMMA ProfilesStay ==
    ASSUME CreationInv, [Next]_vars, TypeOK', NEW m \in Merchants,
           profile[m] # NoProfile
    PROVE  profile'[m] # NoProfile
  <1>1. TypeOK
    BY DEF CreationInv
  <1>2. ASSUME NEW r \in Requests, Commit(r), CountsFor(r, m),
               profile'[m] = [profile[m] EXCEPT !.next = CounterAfter(r)]
        PROVE  profile'[m] # NoProfile
    <2>1. profile[m] \in Profile /\ view[r].next \in Nat
      BY <1>2, CounterIsLocked DEF Commit
    <2>2. profile'[m] \in Profile
      BY <1>2, <2>1 DEF CounterAfter, Profile
    <2> QED
      BY <2>2, CreationAssumption DEF CreationAssumption
  <1>3. ASSUME NEW e \in Edits, EditUpdate(e), edit[e].merchant = m
        PROVE  profile'[m] # NoProfile
    <2>1. \E n \in Nat : profile'[m] = [prefix |-> edit[e].prefix, next |-> n]
      BY <1>1, <1>3, ProfileType DEF EditUpdate, TypeOK, EditRow
    <2>2. edit[e].prefix \in Prefixes
      BY <1>3 DEF EditUpdate, CreationInv, EditInv
    <2>3. profile'[m] \in Profile
      BY <2>1, <2>2 DEF Profile
    <2> QED
      BY <2>3, CreationAssumption DEF CreationAssumption
  <1> QED
    BY <1>2, <1>3, ProfileWrites DEF ProfileWrite

-----------------------------------------------------------------------------
(* Edits.                                                                    *)

LEMMA EditStays ==
    ASSUME CreationInv, [Next]_vars, TypeOK'
    PROVE  EditInv'
  <1>1. TypeOK
    BY DEF CreationInv
  <1> SUFFICES ASSUME NEW e \in Edits, edit'[e].at \in {"update", "insert"}
               PROVE  /\ edit'[e].merchant \in Merchants /\ edit'[e].prefix \in Prefixes
                      /\ edit'[e].at = "update" => profile'[edit'[e].merchant] # NoProfile
    BY DEF EditInv
  <1>2. CASE edit'[e] = edit[e]
    <2>1. edit[e].merchant \in Merchants /\ edit[e].prefix \in Prefixes
      BY <1>2 DEF CreationInv, EditInv
    <2>2. edit[e].at = "update" => profile[edit[e].merchant] # NoProfile
      BY DEF CreationInv, EditInv
    <2> QED
      BY <1>2, <2>1, <2>2, ProfilesStay
  <1>3. CASE EditRead(e)
    <2>1. PICK m \in Merchants, p \in Prefixes, n \in NextNumbers \cup {0} :
            edit' = [edit EXCEPT ![e] =
                       [at |-> IF profile[m] = NoProfile THEN "insert" ELSE "update",
                        merchant |-> m, prefix |-> p, next |-> n]]
      BY <1>3 DEF EditRead
    <2>2. edit'[e] = [at |-> IF profile[m] = NoProfile THEN "insert" ELSE "update",
                      merchant |-> m, prefix |-> p, next |-> n]
      BY <1>1, <2>1 DEF TypeOK
    <2>3. profile' = profile
      BY <1>3 DEF EditRead, profiles
    <2> QED
      BY <2>2, <2>3
  <1>4. edit'[e] = edit[e] \/ EditRead(e)
    <2>1. ASSUME NEW r \in Requests, Moves(r)
          PROVE  edit' = edit
      BY <2>1 DEF Moves, Transaction, Aftermath, Receive, LockProfile,
             FindNoProfile, TimeNumber, TakeNumber, SkipNumber, StampNumber,
             WriteCounter, Insert, InsertFails, InsertItems, Commit,
             StatementFails, Encrypt, Scrub, DropItems, AddPlaceholder,
             CheckDelete, Delete, Notify, CleanupFails
    <2>2. ASSUME NEW d \in Edits, EditRead(d)
          PROVE  edit'[e] = edit[e] \/ EditRead(e)
      <3>1. CASE d = e
        BY <2>2, <3>1
      <3>2. CASE d # e
        BY <1>1, <2>2, <3>2 DEF EditRead, TypeOK
      <3> QED
        BY <3>1, <3>2
    <2>3. ASSUME NEW d \in Edits, EditUpdate(d)
          PROVE  edit'[e] = edit[e]
      BY <1>1, <2>3 DEF EditUpdate, EditDone, TypeOK, EditRow
    <2>4. ASSUME NEW d \in Edits, EditInsert(d)
          PROVE  edit'[e] = edit[e]
      BY <1>1, <2>4 DEF EditInsert, EditDone, TypeOK, EditRow
    <2>5. ASSUME NEW d \in Edits, NEW r \in Requests, OwnerDeletes(d, r)
          PROVE  edit'[e] = edit[e]
      BY <1>1, <2>5 DEF OwnerDeletes, TypeOK, EditRow
    <2>6. CASE Crash
      BY <1>1, <2>6 DEF Crash, TypeOK, EditRow
    <2>7. CASE UNCHANGED vars
      BY <2>7 DEF vars
    <2> QED
      BY <2>1, <2>2, <2>3, <2>4, <2>5, <2>6, <2>7 DEF Next, EditStep, Moves
  <1> QED
    BY <1>2, <1>3, <1>4

-----------------------------------------------------------------------------
(* Locks.                                                                    *)

\* Who is not in a transaction that reads a profile holds no lock.
LEMMA NoLock ==
    ASSUME CreationInv, NEW r \in Requests, ~ReadsProfile(r)
    PROVE  \A m \in Merchants : lock[m] # r
  <1>1. r # NoRequest
    BY CreationAssumption DEF CreationAssumption
  <1> QED
    BY <1>1 DEF CreationInv, LockInv

\* What another request does leaves a lock, and the profile under it, alone.
LEMMA OtherLocks ==
    ASSUME CreationInv, NEW r \in Requests, Moves(r), NEW m \in Merchants,
           lock[m] \in Requests \ {r}
    PROVE  lock'[m] = lock[m] /\ profile'[m] = profile[m]
  <1>1. TypeOK
    BY DEF CreationInv
  <1>2. CASE Commit(r)
    <2>1. ~CountsFor(r, m)
      BY <1>2, CounterIsLocked DEF Commit
    <2> QED
      BY <1>1, <1>2, <2>1 DEF Commit, Unlocked, TypeOK
  <1>3. CASE LockProfile(r)
    BY <1>1, <1>3, CreationAssumption
    DEF LockProfile, LockFree, TypeOK, CreationAssumption
  <1>4. CASE InsertFails(r) \/ StatementFails(r)
    BY <1>1, <1>4 DEF InsertFails, StatementFails, Rollback, Unlocked, TypeOK
  <1>5. CASE ~(Commit(r) \/ LockProfile(r) \/ InsertFails(r) \/ StatementFails(r))
    BY <1>5 DEF Moves, Transaction, Aftermath, Receive, FindNoProfile, TimeNumber,
           TakeNumber, SkipNumber, StampNumber, WriteCounter, Insert, InsertItems,
           Encrypt, Scrub, DropItems, AddPlaceholder, CheckDelete, Delete, Notify,
           CleanupFails, profiles
  <1> QED
    BY <1>2, <1>3, <1>4, <1>5

\* What LockInv says of the transaction of r.
OwnLock(r) ==
    /\ ReadsProfile(r) => /\ lock[req[r].merchant] = r
                          /\ profile[req[r].merchant] # NoProfile
                          /\ profile[req[r].merchant].prefix = view[r].prefix
    /\ \A m \in Merchants : lock[m] = r => ReadsProfile(r) /\ req[r].merchant = m

LEMMA OwnLocks ==
    ASSUME TypeOK
    PROVE  LockInv <=> \A r \in Requests : OwnLock(r)
  <1>1. \A m \in Merchants : lock[m] # NoRequest <=> lock[m] \in Requests
    BY CreationAssumption DEF TypeOK, CreationAssumption
  <1> QED
    BY <1>1 DEF LockInv, OwnLock

\* A request that does not touch the profiles or the locks.
LEMMA LocksUntouched ==
    ASSUME CreationInv, NEW r \in Requests,
           UNCHANGED <<profile, lock, req>>, ReadsProfile(r)' = ReadsProfile(r),
           ReadsProfile(r) => view'[r].prefix = view[r].prefix
    PROVE  OwnLock(r)'
  <1>1. OwnLock(r)
    BY OwnLocks DEF CreationInv
  <1> QED
    BY <1>1 DEF OwnLock

\* A transaction that is over.
LEMMA LocksReleased ==
    ASSUME NEW r \in Requests, pc'[r] \in Answering \cup Ended,
           lock' = Unlocked(r)
    PROVE  OwnLock(r)'
  <1>1. ~ReadsProfile(r)'
    BY DEF ReadsProfile, Counting, Inserted, Answering, Ended
  <1>2. \A m \in Merchants : lock'[m] # r
    BY CreationAssumption DEF Unlocked, CreationAssumption
  <1> QED
    BY <1>1, <1>2 DEF OwnLock

\* A transaction keeps to its lock.
LEMMA LockOfMover ==
    ASSUME CreationInv, NEW r \in Requests, Moves(r)
    PROVE  OwnLock(r)'
  <1>0. TypeOK /\ OwnLock(r)
    BY OwnLocks DEF CreationInv
  <1> USE <1>0
  <1>1. CASE ~ReadsProfile(r) /\ UNCHANGED <<profile, lock>> /\ ~ReadsProfile(r)'
    <2>1. \A m \in Merchants : lock[m] # r
      BY <1>1, NoLock
    <2> QED
      BY <1>1, <2>1 DEF OwnLock
  <1>2. CASE Receive(r)
    <2>1. ~ReadsProfile(r) /\ ~ReadsProfile(r)'
      BY <1>2 DEF Receive, ReadsProfile, Counting, Inserted, Goto, TypeOK
    <2> QED
      BY <1>1, <1>2, <2>1 DEF Receive, profiles
  <1>3. CASE FindNoProfile(r)
    <2>1. ~ReadsProfile(r) /\ ~ReadsProfile(r)'
      BY <1>3 DEF FindNoProfile, ReadsProfile, Counting, Inserted, Goto, TypeOK
    <2> QED
      BY <1>1, <1>3, <2>1 DEF FindNoProfile, profiles
  <1>4. CASE TimeNumber(r)
    <2>1. ~ReadsProfile(r) /\ ~ReadsProfile(r)'
      BY <1>4 DEF TimeNumber, ReadsProfile, Counting, Inserted, Goto, TypeOK, Timed
    <2> QED
      BY <1>1, <1>4, <2>1 DEF TimeNumber, profiles
  <1>5. CASE LockProfile(r)
    <2>1. ~ReadsProfile(r) /\ ReadsProfile(r)'
      BY <1>5 DEF LockProfile, ReadsProfile, Counting, Inserted, Goto, TypeOK
    <2>2. \A m \in Merchants : lock[m] # r
      BY <2>1, NoLock
    <2>3. req[r].merchant \in Merchants
      BY <1>5 DEF LockProfile, CreationInv, RowInv
    <2>4. /\ profile' = profile /\ req' = req
          /\ lock' = [lock EXCEPT ![req[r].merchant] = r]
          /\ view'[r] = profile[req[r].merchant]
          /\ profile[req[r].merchant] # NoProfile
      BY <1>5 DEF LockProfile, TypeOK
    <2> QED
      BY <2>1, <2>2, <2>3, <2>4 DEF OwnLock, TypeOK
  <1>6. CASE TakeNumber(r) \/ StampNumber(r)
    <2>1. ReadsProfile(r) /\ ReadsProfile(r)'
      BY <1>6 DEF TakeNumber, StampNumber, ReadsProfile, Counting, Goto, TypeOK
    <2>2. view'[r].prefix = view[r].prefix
      BY <1>6 DEF TakeNumber, StampNumber, TypeOK
    <2> QED
      BY <1>6, <2>1, <2>2, LocksUntouched DEF TakeNumber, StampNumber, profiles
  <1>7. CASE SkipNumber(r)
    <2>1. ReadsProfile(r) /\ ReadsProfile(r)'
      BY <1>7 DEF SkipNumber, ReadsProfile, Counting
    <2>2. view'[r].prefix = view[r].prefix
      BY <1>7 DEF SkipNumber, TypeOK
    <2> QED
      BY <1>7, <2>1, <2>2, LocksUntouched DEF SkipNumber, profiles
  <1>8. CASE WriteCounter(r)
    <2>1. ReadsProfile(r) /\ pc[r] # "number"
      BY <1>8 DEF WriteCounter, ReadsProfile, Counting
    <2>2. number[r].prefix = view[r].prefix
      BY <2>1 DEF CreationInv, CountInv, DrawnOK
    <2>3. number[r].prefix # NoPrefix
      <3>1. profile[req[r].merchant].prefix = view[r].prefix
             /\ profile[req[r].merchant] # NoProfile /\ req[r].merchant \in Merchants
        BY <1>8, <2>1 DEF OwnLock, WriteCounter, CreationInv, RowInv
      <3>2. view[r].prefix \in Prefixes
        BY <3>1, ProfileType
      <3> QED
        BY <2>2, <3>2, CreationAssumption DEF CreationAssumption
    <2>4. ReadsProfile(r)'
      BY <1>8, <2>3 DEF WriteCounter, ReadsProfile, Goto, TypeOK
    <2> QED
      BY <1>8, <2>1, <2>4, LocksUntouched DEF WriteCounter, profiles
  <1>9. CASE Insert(r) \/ InsertItems(r)
    <2>1. ReadsProfile(r)' = ReadsProfile(r)
      BY <1>9 DEF Insert, InsertItems, ReadsProfile, Counting, Inserted, Goto, TypeOK
    <2> QED
      BY <1>9, <2>1, LocksUntouched DEF Insert, InsertItems, profiles
  <1>10. CASE InsertFails(r) \/ StatementFails(r)
    <2>1. pc'[r] \in Ended /\ lock' = Unlocked(r)
      BY <1>10 DEF InsertFails, StatementFails, Rollback, Goto, Ended, TypeOK
    <2> QED
      BY <2>1, LocksReleased
  <1>11. CASE Commit(r)
    <2>1. req[r].privacy \in Privacy
      BY DEF TypeOK, Request
    <2>2. pc'[r] \in Answering \cup Ended /\ lock' = Unlocked(r)
      BY <1>11, <2>1 DEF Commit, Goto, AfterCommit, Answering, Ended, Privacy, TypeOK
    <2> QED
      BY <2>2, LocksReleased
  <1>12. CASE Aftermath(r) \/ CleanupFails(r)
    <2>1. ~ReadsProfile(r) /\ ~ReadsProfile(r)'
      BY <1>12 DEF Aftermath, CleanupFails, Encrypt, Scrub, DropItems,
             AddPlaceholder, CheckDelete, Delete, Notify, ReadsProfile, Counting,
             Inserted, Goto, TypeOK
    <2>2. UNCHANGED <<profile, lock>>
      BY <1>12 DEF Aftermath, CleanupFails, Encrypt, Scrub, DropItems,
             AddPlaceholder, CheckDelete, Delete, Notify, profiles
    <2> QED
      BY <1>1, <2>1, <2>2
  <1> QED
    BY <1>2, <1>3, <1>4, <1>5, <1>6, <1>7, <1>8, <1>9, <1>10, <1>11, <1>12
    DEF Moves, Transaction

LEMMA LockStep ==
    ASSUME CreationInv, [Next]_vars, TypeOK'
    PROVE  \A r \in Requests : OwnLock(r)'
  <1>0. TypeOK /\ \A q \in Requests : OwnLock(q)
    BY OwnLocks DEF CreationInv
  <1> SUFFICES ASSUME NEW r \in Requests
               PROVE  OwnLock(r)'
    OBVIOUS
  <1>1. CASE Moves(r)
    BY <1>1, LockOfMover
  <1>2. ASSUME NEW q \in Requests \ {r}, Moves(q)
        PROVE  OwnLock(r)'
    <2>1. pc'[r] = pc[r] /\ number'[r] = number[r] /\ view'[r] = view[r] /\ req'[r] = req[r]
      BY <1>0, <1>2, OthersStay
    <2>2. ReadsProfile(r)' = ReadsProfile(r)
      BY <2>1 DEF ReadsProfile
    <2>3. ASSUME NEW m \in Merchants
          PROVE  lock'[m] = r <=> lock[m] = r
      <3>1. CASE lock[m] = r
        BY <1>2, <3>1, OtherLocks
      <3>2. CASE lock[m] # r
        BY <1>0, <1>2, <3>2, CreationAssumption
        DEF Moves, Transaction, Aftermath, Receive, LockProfile, FindNoProfile,
            TimeNumber, TakeNumber, SkipNumber, StampNumber, WriteCounter, Insert,
            InsertFails, InsertItems, Commit, StatementFails, Encrypt, Scrub,
            DropItems, AddPlaceholder, CheckDelete, Delete, Notify, CleanupFails,
            Rollback, Unlocked, profiles, TypeOK, CreationAssumption
      <3> QED
        BY <3>1, <3>2
    <2>4. CASE ReadsProfile(r)
      <3>1. req[r].merchant \in Merchants /\ lock[req[r].merchant] = r
        BY <1>0, <2>4 DEF OwnLock, CreationInv, RowInv, ReadsProfile, Counting, Inserted
      <3>2. lock'[req[r].merchant] = r /\ profile'[req[r].merchant] = profile[req[r].merchant]
        BY <1>2, <3>1, OtherLocks
      <3> QED
        BY <1>0, <2>1, <2>2, <2>3, <2>4, <3>2 DEF OwnLock
    <2>5. CASE ~ReadsProfile(r)
      BY <1>0, <2>2, <2>3, <2>5 DEF OwnLock
    <2> QED
      BY <2>4, <2>5
  <1>3. CASE Crash
    <2>1. ~ReadsProfile(r)'
      BY <1>0, <1>3 DEF Crash, ReadsProfile, Counting, Inserted, Ended, TypeOK
    <2>2. \A m \in Merchants : lock'[m] # r
      BY <1>3, CreationAssumption DEF Crash, CreationAssumption
    <2> QED
      BY <2>1, <2>2 DEF OwnLock
  <1>4. CASE UNCHANGED <<lock, pc, req, view, number>>
    <2>1. ReadsProfile(r)' = ReadsProfile(r)
      BY <1>4 DEF ReadsProfile
    <2>2. ReadsProfile(r) => /\ req[r].merchant \in Merchants
                             /\ lock[req[r].merchant] = r
      BY <1>0 DEF OwnLock, CreationInv, RowInv, ReadsProfile, Counting, Inserted
    <2> QED
      <3>1. \A q \in Requests : ~Commit(q)
        BY <1>0, <1>4 DEF Commit, Goto, AfterCommit, TypeOK, Request, Privacy
      <3>2. ASSUME NEW m \in Merchants, lock[m] = r, profile[m] # NoProfile
            PROVE  profile'[m] = profile[m]
        BY <3>1, <3>2, ProfileWrites, CreationAssumption
        DEF ProfileWrite, CreationAssumption
      <3> QED
        BY <1>0, <1>4, <2>1, <2>2, <3>2 DEF OwnLock
  <1>5. ASSUME NEW e \in Edits,
               EditRead(e) \/ EditStep(e) \/ \E q \in Requests : OwnerDeletes(e, q)
        PROVE  UNCHANGED <<lock, pc, req, view, number>>
    BY <1>5 DEF EditRead, EditStep, EditUpdate, EditInsert, OwnerDeletes, profiles, locals
  <1>6. CASE UNCHANGED vars
    BY <1>4, <1>6 DEF vars, profiles, locals
  <1> QED
    BY <1>1, <1>2, <1>3, <1>4, <1>5, <1>6 DEF Next, Moves

-----------------------------------------------------------------------------
(* Rows and numbers.                                                         *)

LEMMA UsedGrows ==
    ASSUME [Next]_vars
    PROVE  /\ used \subseteq used'
           /\ used' # used => \E r \in Requests : Commit(r)
  <1>1. ASSUME NEW r \in Requests, Moves(r), ~Commit(r)
        PROVE  used' = used
    BY <1>1 DEF Moves, Transaction, Aftermath, Receive, LockProfile,
           FindNoProfile, TimeNumber, TakeNumber, SkipNumber, StampNumber,
           WriteCounter, Insert, InsertFails, InsertItems, StatementFails,
           Encrypt, Scrub, DropItems, AddPlaceholder, CheckDelete, Delete,
           Notify, CleanupFails, Rollback, table
  <1>2. ASSUME NEW r \in Requests, Commit(r)
        PROVE  used \subseteq used'
    BY <1>2 DEF Commit
  <1>3. ASSUME NEW e \in Edits,
               EditRead(e) \/ EditStep(e) \/ \E r \in Requests : OwnerDeletes(e, r)
        PROVE  used' = used
    BY <1>3 DEF EditRead, EditStep, EditUpdate, EditInsert, OwnerDeletes, table
  <1>4. CASE Crash \/ UNCHANGED vars
    BY <1>4 DEF Crash, vars, table
  <1> QED
    BY <1>1, <1>2, <1>3, <1>4 DEF Next, Moves

\* A request whose invoice is there, or comes with this step, keeps its number,
\* and what it asks; nothing comes back once it has been deleted.
LEMMA RowsAppear ==
    ASSUME CreationInv, [Next]_vars, NEW q \in Requests, row'[q] # "none"
    PROVE  /\ row[q] # "none" \/ Commit(q)
           /\ number'[q] = number[q] /\ req'[q] = req[q]
  <1>0. TypeOK
    BY DEF CreationInv
  <1>1. CASE Moves(q)
    <2>1. pc[q] \in Answering \cup Ended \/ Commit(q)
      BY <1>0, <1>1 DEF Moves, Transaction, Receive, LockProfile,
             FindNoProfile, TimeNumber, TakeNumber, SkipNumber, StampNumber,
             WriteCounter, Insert, InsertFails, InsertItems, StatementFails,
             Aftermath, Encrypt, Scrub, DropItems, AddPlaceholder, CheckDelete,
             Delete, Notify, CleanupFails, Rollback, Answering, table,
             CreationInv, RowInv
    <2>2. CASE Commit(q)
      BY <2>2 DEF Commit
    <2>3. CASE pc[q] \in Answering \cup Ended
      <3>1. Aftermath(q) \/ CleanupFails(q)
        BY <1>1, <2>3 DEF Moves, Transaction, Receive, LockProfile,
               FindNoProfile, TimeNumber, TakeNumber, SkipNumber, StampNumber,
               WriteCounter, Insert, InsertFails, InsertItems, Commit,
               StatementFails, Answering, Ended, Counting, Inserted
      <3>2. number' = number /\ req' = req
        BY <3>1 DEF Aftermath, CleanupFails, Encrypt, Scrub, DropItems,
               AddPlaceholder, CheckDelete, Delete, Notify
      <3>3. row[q] # "none"
        BY <1>0, <3>1 DEF Aftermath, CleanupFails, Encrypt, Scrub, DropItems,
               AddPlaceholder, CheckDelete, Delete, RowDeleted, Notify, table, TypeOK
      <3> QED
        BY <3>2, <3>3
    <2> QED
      BY <2>1, <2>2, <2>3
  <1>2. ASSUME NEW r \in Requests \ {q}, Moves(r)
        PROVE  row'[q] = row[q] /\ number'[q] = number[q] /\ req'[q] = req[q]
    BY <1>0, <1>2, OthersStay
  <1>3. ASSUME NEW e \in Edits,
               EditRead(e) \/ EditStep(e) \/ \E r \in Requests : OwnerDeletes(e, r)
        PROVE  row[q] # "none" /\ number'[q] = number[q] /\ req'[q] = req[q]
    BY <1>0, <1>3 DEF EditRead, EditStep, EditUpdate, EditInsert, OwnerDeletes,
           table, locals, TypeOK
  <1>4. CASE Crash \/ UNCHANGED vars
    BY <1>4 DEF Crash, vars, table, locals
  <1> QED
    BY <1>1, <1>2, <1>3, <1>4 DEF Next, Moves

\* RowInv, of one request.
OneRow(r) ==
    /\ pc[r] # "idle" => req[r].merchant \in Merchants
    /\ row[r] # "none" => pc[r] \in Answering \cup Ended /\ number[r] \in used
    /\ pc[r] \in {"dropItems", "placeholder"} => row[r] # "plain"
    /\ pc[r] = "placeholder" => "details" \notin items[r]
    /\ pc[r] = "notify" /\ req[r].privacy = "encrypted" =>
         row[r] # "plain" /\ "details" \notin items[r]

LEMMA RowOfMover ==
    ASSUME CreationInv, NEW r \in Requests, Moves(r)
    PROVE  OneRow(r)'
  <1>0. TypeOK /\ OneRow(r)
    BY DEF CreationInv, RowInv, OneRow
  <1> USE <1>0
  <1>1. CASE Receive(r)
    <2>1. req'[r].merchant \in Merchants
      <3>1. Asks[r] \subseteq [merchant : Merchants, privacy : Privacy]
        BY CreationAssumption DEF CreationAssumption
      <3>2. req'[r] \in Asks[r]
        BY <1>1 DEF Receive, TypeOK
      <3> QED
        BY <3>1, <3>2
    <2> QED
      BY <1>1, <2>1
      DEF Receive, OneRow, Goto, table, TypeOK, Answering, Ended
  <1>2. CASE \/ LockProfile(r) \/ FindNoProfile(r) \/ TimeNumber(r)
             \/ TakeNumber(r) \/ SkipNumber(r) \/ StampNumber(r) \/ WriteCounter(r)
             \/ Insert(r) \/ InsertItems(r)
    <2>1. /\ pc[r] \in {"profile", "time", "insert"} \cup Counting \cup Inserted
          /\ pc'[r] \in {"profile", "time", "insert"} \cup Counting \cup Inserted
          /\ UNCHANGED <<row, items, used, req>>
      BY <1>2 DEF LockProfile, FindNoProfile, TimeNumber, TakeNumber, SkipNumber,
             StampNumber, WriteCounter, Insert, InsertItems, Goto, TypeOK, table,
             Counting, Inserted
    <2> QED
      BY <2>1 DEF OneRow, Counting, Inserted, Answering, Ended
  <1>3. CASE InsertFails(r) \/ StatementFails(r)
    <2>1. /\ pc[r] \in {"profile", "time", "insert"} \cup Counting \cup Inserted
          /\ pc'[r] \in {"conflict", "failed"}
          /\ UNCHANGED <<row, items, used, req>>
      BY <1>3 DEF InsertFails, StatementFails, Rollback, Goto, TypeOK, table
    <2> QED
      BY <2>1 DEF OneRow, Counting, Inserted, Answering, Ended
  <1>4. CASE Commit(r)
    <2>1. /\ row'[r] = "plain" /\ number'[r] \in used' /\ req' = req
          /\ pc[r] = "commit" /\ pc'[r] = AfterCommit(r)
      BY <1>4 DEF Commit, Goto, TypeOK
    <2>2. req[r].privacy \in Privacy
      BY DEF TypeOK, Request
    <2> QED
      BY <2>1, <2>2 DEF OneRow, AfterCommit, Privacy, Answering, Ended
  <1>5. CASE Encrypt(r) \/ CheckDelete(r) \/ Notify(r)
    BY <1>5 DEF Encrypt, CheckDelete, Notify, OneRow, Goto, TypeOK, table,
           Answering, Ended
  <1>6. CASE Scrub(r)
    BY <1>6 DEF Scrub, OneRow, Goto, TypeOK, Answering, Ended
  <1>7. CASE DropItems(r)
    BY <1>7 DEF DropItems, ItemsLeft, OneRow, Goto, TypeOK, Answering, Ended
  <1>8. CASE AddPlaceholder(r)
    BY <1>8 DEF AddPlaceholder, OneRow, Goto, TypeOK, Answering, Ended
  <1>9. CASE Delete(r)
    BY <1>9 DEF Delete, RowDeleted, OneRow, Goto, TypeOK, Answering, Ended
  <1>10. CASE CleanupFails(r)
    BY <1>10 DEF CleanupFails, OneRow, Goto, TypeOK, table, Answering, Ended
  <1> QED
    BY <1>1, <1>2, <1>3, <1>4, <1>5, <1>6, <1>7, <1>8, <1>9, <1>10
    DEF Moves, Transaction, Aftermath

LEMMA RowStep ==
    ASSUME CreationInv, [Next]_vars
    PROVE  RowInv'
  <1>0. TypeOK /\ \A r \in Requests : OneRow(r)
    BY DEF CreationInv, RowInv, OneRow
  <1> SUFFICES ASSUME NEW r \in Requests
               PROVE  OneRow(r)'
    BY DEF RowInv, OneRow
  <1>1. CASE Moves(r)
    BY <1>1, RowOfMover
  <1>2. ASSUME NEW q \in Requests \ {r}, Moves(q)
        PROVE  OneRow(r)'
    BY <1>0, <1>2, OthersStay, UsedGrows DEF OneRow
  <1>3. ASSUME NEW e \in Edits, NEW q \in Requests, OwnerDeletes(e, q)
        PROVE  OneRow(r)'
    BY <1>0, <1>3 DEF OwnerDeletes, OneRow, locals, TypeOK
  <1>4. ASSUME NEW e \in Edits, EditRead(e) \/ EditStep(e)
        PROVE  OneRow(r)'
    BY <1>0, <1>4
    DEF EditRead, EditStep, EditUpdate, EditInsert, OneRow, locals, table
  <1>5. CASE Crash
    BY <1>0, <1>5 DEF Crash, OneRow, table, TypeOK, Answering, Ended
  <1>6. CASE UNCHANGED vars
    BY <1>0, <1>6 DEF vars, OneRow, locals, table
  <1> QED
    BY <1>1, <1>2, <1>3, <1>4, <1>5, <1>6 DEF Next, Moves

-----------------------------------------------------------------------------
(* Counting.                                                                 *)

\* CountInv, of one request.
OneCount(r) ==
    ReadsProfile(r) =>
      /\ profile[req[r].merchant].next <= Reached(r)
      /\ \A n \in profile[req[r].merchant].next .. Reached(r) - 1 :
           Counted(view[r].prefix, n) \in used
      /\ pc[r] # "number" => DrawnOK(r)

\* Of a request that reads a profile: the profile is there, and numbers made of
\* it have its prefix.
LEMMA Reading ==
    ASSUME CreationInv, NEW r \in Requests, ReadsProfile(r)
    PROVE  /\ req[r].merchant \in Merchants /\ lock[req[r].merchant] = r
           /\ profile[req[r].merchant] # NoProfile
           /\ profile[req[r].merchant].next \in Nat
           /\ profile[req[r].merchant].prefix = view[r].prefix
           /\ view[r].prefix \in Prefixes /\ view[r].prefix # NoPrefix
           /\ view[r].next \in Nat /\ number[r].n \in Nat
           /\ row[r] = "none"
  <1>1. req[r].merchant \in Merchants /\ row[r] = "none"
    BY DEF CreationInv, RowInv, TypeOK, ReadsProfile, Counting, Inserted,
           Answering, Ended
  <1>2. /\ lock[req[r].merchant] = r /\ profile[req[r].merchant] # NoProfile
        /\ profile[req[r].merchant].prefix = view[r].prefix
    BY DEF CreationInv, LockInv
  <1>3. /\ profile[req[r].merchant].prefix \in Prefixes
        /\ profile[req[r].merchant].next \in Nat
    BY <1>1, <1>2, ProfileType DEF CreationInv
  <1>4. view[r].prefix # NoPrefix
    BY <1>2, <1>3, CreationAssumption DEF CreationAssumption
  <1>5. view[r].next \in Nat /\ number[r].n \in Nat
    BY DEF CreationInv, TypeOK, Number
  <1> QED
    BY <1>1, <1>2, <1>3, <1>4, <1>5

\* A number that can be seen has been used.
LEMMA SeenIsUsed ==
    ASSUME CreationInv, NEW x, Visible(x)
    PROVE  x \in used
  BY DEF CreationInv, RowInv, Visible

\* A step of r that leaves its number, and the profile, alone.
LEMMA CountKept ==
    ASSUME CreationInv, [Next]_vars, NEW r \in Requests,
           ReadsProfile(r), pc[r] # "number", pc'[r] # "number",
           profile'[req[r].merchant] = profile[req[r].merchant],
           req'[r] = req[r], view'[r] = view[r], number'[r] = number[r]
    PROVE  OneCount(r)'
  <1>1. OneCount(r) /\ DrawnOK(r)
    BY DEF CreationInv, CountInv, OneCount
  <1>2. Reached(r)' = Reached(r) /\ used \subseteq used'
    BY UsedGrows DEF Reached
  <1>3. ASSUME NEW q \in Requests, row'[q] # "none", number'[q] = number'[r],
               number'[r].stamp = NoStamp
        PROVE  req'[q].merchant # req'[r].merchant
    <2>1. number'[q] = number[q] /\ req'[q] = req[q] /\ (row[q] # "none" \/ Commit(q))
      BY <1>3, RowsAppear
    <2>2. CASE row[q] # "none"
      BY <1>1, <1>3, <2>1, <2>2 DEF DrawnOK
    <2>3. CASE Commit(q) /\ req[q].merchant = req[r].merchant
      <3>1. number[q].prefix # NoPrefix
        BY <1>1, <1>3, <2>1, Reading DEF DrawnOK
      <3>2. CountsFor(q, req[r].merchant)
        BY <2>3, <3>1 DEF CountsFor
      <3>3. lock[req[r].merchant] = q /\ profile[req[r].merchant].next \in Nat /\ view[q].next \in Nat
             /\ profile[req[r].merchant] \in Profile
        BY <2>3, <3>2, CounterIsLocked, Reading DEF Commit
      <3>4. q = r
        BY <3>3, Reading
      <3>5. profile'[req[r].merchant].next = view[r].next + 1
        BY <2>3, <3>2, <3>3, <3>4, Reading
        DEF Commit, CounterAfter, CreationInv, TypeOK, Profile
      <3>6. profile[req[r].merchant].next <= number[r].n
             /\ view[r].next = number[r].n /\ number[r].n \in Nat
        BY <1>1, <1>3, Reading DEF OneCount, Reached, DrawnOK
      <3> QED
        BY <3>3, <3>5, <3>6
    <2> QED
      BY <2>1, <2>2, <2>3
  <1>4. DrawnOK(r)'
    BY <1>1, <1>3 DEF DrawnOK
  <1> QED
    BY <1>1, <1>2, <1>4 DEF OneCount

LEMMA CountOfMover ==
    ASSUME CreationInv, [Next]_vars, NEW r \in Requests, Moves(r)
    PROVE  OneCount(r)'
  <1>0. TypeOK /\ OneCount(r)
    BY DEF CreationInv, CountInv, OneCount
  <1> USE <1>0
  <1>1. CASE LockProfile(r)
    <2>1. req[r].merchant \in Merchants /\ profile[req[r].merchant].next \in Nat
      BY <1>1, ProfileType DEF LockProfile, CreationInv, RowInv
    <2>2. /\ pc'[r] = "number" /\ view'[r] = profile[req[r].merchant]
          /\ profile' = profile /\ req' = req
      BY <1>1 DEF LockProfile, Goto, TypeOK
    <2> QED
      BY <2>1, <2>2 DEF OneCount, Reached
  <1>2. CASE TakeNumber(r)
    <2>1. ReadsProfile(r) /\ pc[r] = "number"
      BY <1>2 DEF TakeNumber, ReadsProfile, Counting
    <2>2. /\ pc'[r] = "counter" /\ number'[r] = Counted(view[r].prefix, view[r].next)
          /\ UNCHANGED <<profile, req, view, used, row>>
          /\ \A q \in Requests \ {r} : number'[q] = number[q]
          /\ \A q \in Requests : row[q] # "none" => number[q] # number'[r]
      BY <1>2 DEF TakeNumber, Goto, TypeOK, profiles, table, Visible
    <2>3. Reached(r) = view[r].next /\ Reached(r)' = view[r].next
      BY <2>1, <2>2 DEF Reached, Counted
    <2>4. DrawnOK(r)'
      <3>1. \A q \in Requests : row'[q] # "none" => number'[q] # number'[r]
        BY <2>1, <2>2, Reading
      <3> QED
        BY <2>2, <3>1 DEF DrawnOK, Counted
    <2> QED
      BY <2>1, <2>2, <2>3, <2>4 DEF OneCount
  <1>3. CASE SkipNumber(r)
    <2>1. ReadsProfile(r) /\ pc[r] = "number"
      BY <1>3 DEF SkipNumber, ReadsProfile, Counting
    <2>2. /\ pc'[r] = "number" /\ view'[r].prefix = view[r].prefix
          /\ view'[r].next = view[r].next + 1
          /\ UNCHANGED <<profile, req, used>>
      BY <1>3, <2>1 DEF SkipNumber, TypeOK, profiles, table
    <2>3. Counted(view[r].prefix, view[r].next) \in used
      BY <1>3, SeenIsUsed DEF SkipNumber
    <2>4. Reached(r) = view[r].next /\ Reached(r)' = view[r].next + 1
      BY <2>1, <2>2 DEF Reached
    <2>5. profile[req[r].merchant].next \in Nat /\ view[r].next \in Nat
      BY <2>1, Reading
    <2>6. \A n \in profile[req[r].merchant].next .. (view[r].next + 1) - 1 :
            Counted(view[r].prefix, n) \in used
      BY <2>1, <2>3, <2>4, <2>5 DEF OneCount
    <2> QED
      BY <2>1, <2>2, <2>4, <2>5, <2>6 DEF OneCount
  <1>4. CASE StampNumber(r)
    <2>1. ReadsProfile(r) /\ pc[r] = "number"
      BY <1>4 DEF StampNumber, ReadsProfile, Counting
    <2>2. PICK t \in Stamps :
            number' = [number EXCEPT ![r] = Stamped(view[r].prefix, view[r].next + 1, t)]
      BY <1>4 DEF StampNumber
    <2>3. /\ pc'[r] = "counter" /\ view'[r].prefix = view[r].prefix
          /\ view'[r].next = view[r].next + 2
          /\ number'[r] = Stamped(view[r].prefix, view[r].next + 1, t)
          /\ UNCHANGED <<profile, req, used>>
      BY <1>4, <2>2 DEF StampNumber, Goto, TypeOK, profiles, table
    <2>4. Counted(view[r].prefix, view[r].next) \in used
      BY <1>4, SeenIsUsed DEF StampNumber
    <2>5. Reached(r) = view[r].next /\ Reached(r)' = view[r].next + 1
      BY <2>1, <2>3 DEF Reached, Stamped
    <2>6. profile[req[r].merchant].next \in Nat /\ view[r].next \in Nat
      BY <2>1, Reading
    <2>7. \A n \in profile[req[r].merchant].next .. (view[r].next + 1) - 1 :
            Counted(view[r].prefix, n) \in used
      BY <2>1, <2>4, <2>5, <2>6 DEF OneCount
    <2>8. DrawnOK(r)'
      <3>1. number'[r].stamp # NoStamp
        BY <2>3, CreationAssumption DEF Stamped, CreationAssumption
      <3> QED
        BY <2>3, <2>6, <3>1 DEF DrawnOK, Stamped
    <2> QED
      BY <2>1, <2>3, <2>5, <2>6, <2>7, <2>8 DEF OneCount
  <1>5. CASE WriteCounter(r) \/ Insert(r) \/ InsertItems(r)
    <2>1. CASE ReadsProfile(r)
      BY <1>5, <2>1, CountKept
      DEF WriteCounter, Insert, InsertItems, Goto, TypeOK, profiles
    <2>2. CASE ~ReadsProfile(r)
      <3>1. ~ReadsProfile(r)'
        BY <1>5, <2>2 DEF WriteCounter, Insert, InsertItems, ReadsProfile,
               Counting, Inserted, Goto, TypeOK
      <3> QED
        BY <3>1 DEF OneCount
    <2> QED
      BY <2>1, <2>2
  <1>6. CASE \/ Receive(r) \/ FindNoProfile(r) \/ TimeNumber(r) \/ InsertFails(r)
             \/ StatementFails(r) \/ Aftermath(r) \/ CleanupFails(r)
    <2>1. ~ReadsProfile(r)'
      <3>1. CASE TimeNumber(r)
        BY <3>1 DEF TimeNumber, Timed, ReadsProfile, Counting, Inserted, Goto, TypeOK
      <3>2. CASE Receive(r) \/ FindNoProfile(r) \/ InsertFails(r) \/ StatementFails(r)
        BY <3>2 DEF Receive, FindNoProfile, InsertFails, StatementFails, Rollback,
               ReadsProfile, Counting, Inserted, Goto, TypeOK
      <3>3. CASE Aftermath(r) \/ CleanupFails(r)
        BY <3>3 DEF Aftermath, Encrypt, Scrub, DropItems, AddPlaceholder,
               CheckDelete, Delete, Notify, CleanupFails, ReadsProfile,
               Counting, Inserted, Goto, TypeOK
      <3> QED
        BY <1>6, <3>1, <3>2, <3>3
    <2> QED
      BY <2>1 DEF OneCount
  <1>7. CASE Commit(r)
    <2>1. req[r].privacy \in Privacy
      BY DEF TypeOK, Request
    <2>2. ~ReadsProfile(r)'
      BY <1>7, <2>1 DEF Commit, AfterCommit, Privacy, ReadsProfile, Counting,
             Inserted, Goto, TypeOK
    <2> QED
      BY <2>2 DEF OneCount
  <1> QED
    BY <1>1, <1>2, <1>3, <1>4, <1>5, <1>6, <1>7 DEF Moves, Transaction

\* A step that is not of r leaves the profile it has locked alone.
LEMMA LockedProfileStays ==
    ASSUME CreationInv, [Next]_vars, NEW r \in Requests, ~Moves(r), ReadsProfile(r)
    PROVE  profile'[req[r].merchant] = profile[req[r].merchant]
  <1> DEFINE m == req[r].merchant
  <1>1. m \in Merchants /\ lock[m] = r /\ profile[m] # NoProfile /\ r # NoRequest
    BY Reading, CreationAssumption DEF CreationAssumption
  <1>2. ASSUME NEW q \in Requests, Commit(q), CountsFor(q, m)
        PROVE  FALSE
    <2>1. lock[m] = q
      BY <1>1, <1>2, CounterIsLocked DEF Commit
    <2> QED
      BY <1>1, <1>2, <2>1 DEF Moves, Transaction
  <1> QED
    BY <1>1, <1>2, ProfileWrites DEF ProfileWrite

LEMMA CountStep ==
    ASSUME CreationInv, [Next]_vars
    PROVE  CountInv'
  <1>0. TypeOK
    BY DEF CreationInv
  <1> SUFFICES ASSUME NEW r \in Requests
               PROVE  OneCount(r)'
    BY DEF CountInv, OneCount
  <1>1. CASE Moves(r)
    BY <1>1, CountOfMover
  <1>2. CASE /\ pc'[r] = pc[r] /\ number'[r] = number[r] /\ view'[r] = view[r]
             /\ req'[r] = req[r] /\ ~Moves(r)
    <2>1. ReadsProfile(r)' = ReadsProfile(r)
      BY <1>2 DEF ReadsProfile
    <2>2. CASE ~ReadsProfile(r)
      BY <2>1, <2>2 DEF OneCount
    <2>3. CASE ReadsProfile(r) /\ pc[r] # "number"
      BY <1>2, <2>3, CountKept, LockedProfileStays
    <2>4. CASE ReadsProfile(r) /\ pc[r] = "number"
      <3>1. OneCount(r) /\ Reached(r)' = Reached(r) /\ used \subseteq used'
        BY <1>2, UsedGrows DEF CreationInv, CountInv, OneCount, Reached
      <3>2. profile'[req[r].merchant] = profile[req[r].merchant]
        BY <1>2, <2>4, LockedProfileStays
      <3> QED
        BY <1>2, <2>4, <3>1, <3>2 DEF OneCount
    <2> QED
      BY <2>2, <2>3, <2>4
  <1>3. ASSUME NEW q \in Requests \ {r}, Moves(q), ~Moves(r)
        PROVE  OneCount(r)'
    BY <1>0, <1>2, <1>3, OthersStay
  <1>4. ASSUME NEW e \in Edits, ~Moves(r),
               EditRead(e) \/ EditStep(e) \/ \E q \in Requests : OwnerDeletes(e, q)
        PROVE  OneCount(r)'
    BY <1>2, <1>4 DEF EditRead, EditStep, EditUpdate, EditInsert, OwnerDeletes, locals
  <1>5. CASE Crash
    <2>1. ~ReadsProfile(r)'
      BY <1>0, <1>5 DEF Crash, ReadsProfile, Counting, Inserted, Ended, TypeOK
    <2> QED
      BY <2>1 DEF OneCount
  <1>6. CASE UNCHANGED vars /\ ~Moves(r)
    BY <1>2, <1>6 DEF vars, locals
  <1> QED
    BY <1>1, <1>3, <1>4, <1>5, <1>6 DEF Next, Moves

-----------------------------------------------------------------------------
(* Counters and the numbers behind them.                                     *)

\* The counter of m, where it was last set, and what has been drawn since: a
\* transaction moves the counter on, an edit sets it.
History(m) ==
    \/ profile'[m] = profile[m] /\ base'[m] = base[m] /\ own'[m] = own[m]
    \/ \E r \in Requests :
         /\ Commit(r) /\ CountsFor(r, m)
         /\ profile'[m] = [profile[m] EXCEPT !.next = CounterAfter(r)]
         /\ base'[m] = base[m] /\ own'[m] = own[m] \cup {number[r].n}
    \/ profile'[m] # NoProfile /\ base'[m] = profile'[m].next /\ own'[m] = {}

LEMMA Histories ==
    ASSUME CreationInv, [Next]_vars, TypeOK', NEW m \in Merchants
    PROVE  History(m)
  <1>0. TypeOK
    BY DEF CreationInv
  <1>1. ASSUME NEW r \in Requests, Moves(r), ~Commit(r)
        PROVE  UNCHANGED <<profile, base, own>>
    BY <1>1 DEF Moves, Transaction, Aftermath, Receive, LockProfile,
           FindNoProfile, TimeNumber, TakeNumber, SkipNumber, StampNumber,
           WriteCounter, Insert, InsertFails, InsertItems, StatementFails,
           Encrypt, Scrub, DropItems, AddPlaceholder, CheckDelete, Delete,
           Notify, CleanupFails, Rollback, profiles
  <1>2. ASSUME NEW r \in Requests, Commit(r)
        PROVE  History(m)
    BY <1>0, <1>2 DEF Commit, History, TypeOK
  <1>3. ASSUME NEW e \in Edits, EditUpdate(e)
        PROVE  History(m)
    <2>1. CASE edit[e].merchant = m
      <3>1. profile[m] # NoProfile
        BY <1>3, <2>1 DEF EditUpdate, CreationInv, EditInv
      <3>2. profile'[m] # NoProfile
        BY <3>1, ProfilesStay
      <3>3. base'[m] = profile'[m].next /\ own'[m] = {}
        BY <1>0, <1>3, <2>1 DEF EditUpdate, TypeOK
      <3> QED
        BY <3>2, <3>3 DEF History
    <2>2. CASE edit[e].merchant # m
      BY <1>0, <1>3, <2>2 DEF EditUpdate, History, TypeOK
    <2> QED
      BY <2>1, <2>2
  <1>4. ASSUME NEW e \in Edits, EditInsert(e)
        PROVE  History(m)
    <2>1. CASE edit[e].merchant = m /\ profile[m] = NoProfile
      <3> DEFINE n == IF edit[e].next = 0 THEN 1 ELSE edit[e].next
      <3>1. n \in Nat /\ edit[e].prefix \in Prefixes
        BY <1>0, <1>4 DEF EditInsert, CreationInv, EditInv, TypeOK, EditRow
      <3>2. profile'[m] = [prefix |-> edit[e].prefix, next |-> n] /\ base'[m] = n
             /\ own'[m] = own[m]
        BY <1>0, <1>4, <2>1 DEF EditInsert, TypeOK
      <3>3. profile'[m] # NoProfile
        <4>1. profile'[m] \in Profile
          BY <3>1, <3>2 DEF Profile
        <4> QED
          BY <4>1, CreationAssumption DEF CreationAssumption
      <3>4. own[m] = {}
        BY <2>1 DEF CreationInv, CounterAhead
      <3> QED
        BY <3>2, <3>3, <3>4 DEF History
    <2>2. CASE ~(edit[e].merchant = m /\ profile[m] = NoProfile)
      BY <1>0, <1>4, <2>2 DEF EditInsert, History, TypeOK, profiles
    <2> QED
      BY <2>1, <2>2
  <1>5. ASSUME NEW e \in Edits, EditRead(e) \/ \E r \in Requests : OwnerDeletes(e, r)
        PROVE  UNCHANGED <<profile, base, own>>
    BY <1>5 DEF EditRead, OwnerDeletes, profiles
  <1>6. CASE Crash \/ UNCHANGED vars
    BY <1>6 DEF Crash, vars, profiles, History
  <1> QED
    BY <1>1, <1>2, <1>3, <1>4, <1>5, <1>6 DEF Next, EditStep, Moves, History

\* What a transaction that counts for m brings to the table.
LEMMA Drawn ==
    ASSUME CreationInv, NEW r \in Requests, NEW m \in Merchants,
           pc[r] = "commit", CountsFor(r, m)
    PROVE  /\ profile[m].next <= number[r].n
           /\ \A n \in profile[m].next .. number[r].n - 1 :
                Counted(profile[m].prefix, n) \in used
           /\ number[r].prefix = profile[m].prefix
           /\ number[r].n \in Nat /\ number[r].stamp \in Stamps \cup {NoStamp}
           /\ number[r] = Stamped(profile[m].prefix, number[r].n, number[r].stamp)
           /\ number[r].stamp = NoStamp =>
                number[r] = Counted(profile[m].prefix, number[r].n)
           /\ view[r].next = IF number[r].stamp = NoStamp THEN number[r].n
                                                         ELSE number[r].n + 1
  <1>1. ReadsProfile(r) /\ profile[m].prefix = view[r].prefix /\ req[r].merchant = m
    BY CounterIsLocked DEF CountsFor
  <1>2. number[r] \in Number
    BY DEF CreationInv, TypeOK
  <1>3. OneCount(r) /\ Reached(r) = number[r].n /\ DrawnOK(r)
    BY <1>1 DEF CreationInv, CountInv, OneCount, Reached
  <1>4. number[r] = [prefix |-> number[r].prefix, n |-> number[r].n,
                     stamp |-> number[r].stamp]
         /\ number[r].n \in Nat /\ number[r].stamp \in Stamps \cup {NoStamp}
    BY <1>2 DEF Number
  <1>5. number[r].prefix = profile[m].prefix
    BY <1>1, <1>3 DEF DrawnOK
  <1> QED
    BY <1>1, <1>3, <1>4, <1>5 DEF OneCount, DrawnOK, Stamped, Counted

LEMMA AheadStep ==
    ASSUME CreationInv, [Next]_vars, TypeOK'
    PROVE  CounterAhead'
  <1> SUFFICES ASSUME NEW m \in Merchants, NEW n \in own'[m]
               PROVE  profile'[m] # NoProfile /\ n < profile'[m].next
    BY DEF CounterAhead
  <1>1. ASSUME NEW r \in Requests, Commit(r), CountsFor(r, m),
               profile'[m] = [profile[m] EXCEPT !.next = CounterAfter(r)],
               own'[m] = own[m] \cup {number[r].n}
        PROVE  profile'[m] # NoProfile /\ n < profile'[m].next
    <2>1. pc[r] = "commit"
      BY <1>1 DEF Commit
    <2>2. /\ profile[m] # NoProfile /\ profile[m] \in Profile
          /\ profile[m].next \in Nat /\ view[r].next \in Nat
      BY <1>1, <2>1, CounterIsLocked
    <2>3. /\ profile[m].next <= number[r].n /\ number[r].n \in Nat
          /\ number[r].n <= view[r].next
      BY <1>1, <2>1, Drawn
    <2>4. profile'[m] # NoProfile /\ profile'[m].next = view[r].next + 1
      BY <1>1, <2>2, ProfilesStay DEF CounterAfter, Profile
    <2>5. n \in own[m] => n \in Nat /\ n < profile[m].next
      BY DEF CreationInv, CounterAhead, TypeOK
    <2> QED
      BY <1>1, <2>2, <2>3, <2>4, <2>5
  <1> QED
    BY <1>1, Histories DEF History, CreationInv, CounterAhead

\* Number n with prefix p is among u, or one of two passed over.
Accounted(u, p, n) ==
    \/ Counted(p, n) \in u
    \/ \E t \in Stamps : Stamped(p, n, t) \in u \/ Stamped(p, n - 1, t) \in u

LEMMA LostStep ==
    ASSUME CreationInv, [Next]_vars, TypeOK'
    PROVE  NoNumberLost'
  <1>0. used \subseteq used'
    BY UsedGrows
  <1>a. ASSUME NEW p, NEW n, Accounted(used, p, n)
        PROVE  Accounted(used', p, n)
    BY <1>a, <1>0 DEF Accounted
  <1> SUFFICES ASSUME NEW m \in Merchants, profile'[m] # NoProfile,
                      NEW n \in base'[m] .. profile'[m].next - 1
               PROVE  Accounted(used', profile'[m].prefix, n)
    BY DEF NoNumberLost, PassedOver, Accounted
  <1>1. CASE profile'[m] = profile[m] /\ base'[m] = base[m]
    <2>1. Accounted(used, profile[m].prefix, n)
      BY <1>1 DEF CreationInv, NoNumberLost, PassedOver, Accounted
    <2> QED
      BY <1>1, <1>a, <2>1
  <1>2. ASSUME NEW r \in Requests, Commit(r), CountsFor(r, m),
               profile'[m] = [profile[m] EXCEPT !.next = CounterAfter(r)],
               base'[m] = base[m]
        PROVE  Accounted(used', profile'[m].prefix, n)
    <2>1. pc[r] = "commit" /\ number[r] \in used'
      BY <1>2 DEF Commit
    <2>2. /\ profile[m] # NoProfile /\ profile[m] \in Profile
          /\ profile[m].next \in Nat /\ view[r].next \in Nat
      BY <1>2, <2>1, CounterIsLocked
    <2>3. /\ profile'[m].prefix = profile[m].prefix
          /\ profile'[m].next = view[r].next + 1
      BY <1>2, <2>2 DEF CounterAfter, Profile
    <2>4. n \in base[m] .. view[r].next /\ base[m] \in Nat /\ n \in Nat
      BY <1>2, <2>2, <2>3 DEF CreationInv, TypeOK
    <2>5. number[r].n \in Nat
      BY <1>2, <2>1, Drawn
    <2>6. CASE n < profile[m].next
      <3>1. n \in base[m] .. profile[m].next - 1
        BY <2>2, <2>4, <2>6
      <3>2. Accounted(used, profile[m].prefix, n)
        BY <2>2, <3>1 DEF CreationInv, NoNumberLost, PassedOver, Accounted
      <3> QED
        BY <1>a, <2>3, <3>2
    <2>7. CASE profile[m].next <= n /\ n < number[r].n
      <3>1. n \in profile[m].next .. number[r].n - 1
        BY <2>2, <2>4, <2>5, <2>7
      <3>2. Counted(profile[m].prefix, n) \in used
        BY <1>2, <2>1, <3>1, Drawn
      <3> QED
        BY <1>0, <2>3, <3>2 DEF Accounted
    <2>8. CASE number[r].n <= n /\ number[r].stamp = NoStamp
      <3>1. n = number[r].n
        BY <1>2, <2>1, <2>4, <2>5, <2>8, Drawn
      <3>2. number[r] = Counted(profile[m].prefix, n)
        BY <1>2, <2>1, <2>8, <3>1, Drawn
      <3> QED
        BY <2>1, <2>3, <3>2 DEF Accounted
    <2>9. CASE number[r].n <= n /\ number[r].stamp # NoStamp
      <3>1. n = number[r].n \/ n - 1 = number[r].n
        BY <1>2, <2>1, <2>4, <2>5, <2>9, Drawn
      <3>2. /\ number[r] = Stamped(profile[m].prefix, number[r].n, number[r].stamp)
            /\ number[r].stamp \in Stamps
        BY <1>2, <2>1, <2>9, Drawn
      <3> QED
        BY <2>1, <2>3, <3>1, <3>2 DEF Accounted
    <2> QED
      BY <2>2, <2>4, <2>5, <2>6, <2>7, <2>8, <2>9
  <1>3. CASE base'[m] = profile'[m].next
    <2>1. base'[m] \in Nat
      BY DEF TypeOK
    <2> QED
      BY <1>3, <2>1
  <1> QED
    BY <1>1, <1>2, <1>3, Histories DEF History

-----------------------------------------------------------------------------
(* Conflicts, and encrypted invoices.                                        *)

LEMMA BeatenStep ==
    ASSUME CreationInv, [Next]_vars
    PROVE  BeatenByAnother'
  <1>0. TypeOK
    BY DEF CreationInv
  <1> SUFFICES ASSUME NEW r \in Requests, pc'[r] = "conflict",
                      number'[r].prefix # NoPrefix, number'[r].stamp = NoStamp
               PROVE  \E q \in Requests : /\ pc'[q] \in Answering \cup Ended
                                          /\ number'[q] = number'[r]
                                          /\ req'[q].merchant # req'[r].merchant
    BY DEF BeatenByAnother
  <1>a. ASSUME NEW q \in Requests, pc[q] \in Answering \cup Ended
        PROVE  /\ pc'[q] \in Answering \cup Ended
               /\ number'[q] = number[q] /\ req'[q] = req[q]
    <2>1. CASE Moves(q)
      <3>1. Aftermath(q) \/ CleanupFails(q)
        BY <1>a, <2>1 DEF Moves, Transaction, Receive, LockProfile,
               FindNoProfile, TimeNumber, TakeNumber, SkipNumber, StampNumber,
               WriteCounter, Insert, InsertFails, InsertItems, Commit,
               StatementFails, Answering, Ended, Counting, Inserted
      <3> QED
        BY <1>0, <3>1 DEF Aftermath, CleanupFails, Encrypt, Scrub, DropItems,
               AddPlaceholder, CheckDelete, Delete, Notify, Goto, TypeOK,
               Answering, Ended
    <2>2. ASSUME NEW p \in Requests \ {q}, Moves(p)
          PROVE  pc'[q] = pc[q] /\ number'[q] = number[q] /\ req'[q] = req[q]
      BY <1>0, <2>2, OthersStay
    <2>3. ASSUME NEW e \in Edits,
                 EditRead(e) \/ EditStep(e) \/ \E p \in Requests : OwnerDeletes(e, p)
          PROVE  UNCHANGED <<pc, number, req>>
      BY <2>3 DEF EditRead, EditStep, EditUpdate, EditInsert, OwnerDeletes, locals
    <2>4. CASE Crash
      BY <1>0, <1>a, <2>4 DEF Crash, TypeOK, Ended
    <2>5. CASE UNCHANGED vars
      BY <1>a, <2>5 DEF vars, locals
    <2> QED
      BY <1>a, <2>1, <2>2, <2>3, <2>4, <2>5 DEF Next, Moves
  <1>1. CASE pc[r] = "conflict"
    <2>1. pc[r] \in Answering \cup Ended
      BY <1>1 DEF Ended
    <2>2. number'[r] = number[r] /\ req'[r] = req[r]
      BY <2>1, <1>a
    <2>3. PICK q \in Requests : /\ pc[q] \in Answering \cup Ended
                                /\ number[q] = number[r]
                                /\ req[q].merchant # req[r].merchant
      BY <1>1, <2>2 DEF CreationInv, BeatenByAnother
    <2> QED
      BY <1>a, <2>2, <2>3
  <1>2. CASE pc[r] # "conflict"
    <2>1. InsertFails(r)
      <3>1. ASSUME Moves(r), ~InsertFails(r)
            PROVE  FALSE
        <4>1. req[r].privacy \in Privacy
          BY <1>0 DEF TypeOK, Request
        <4> QED
          BY <1>0, <1>2, <3>1, <4>1 DEF Moves, Transaction, Aftermath, Receive,
             LockProfile, FindNoProfile, TimeNumber, TakeNumber, SkipNumber,
             StampNumber, WriteCounter, Insert, InsertItems, Commit,
             AfterCommit, Privacy, StatementFails, Encrypt, Scrub, DropItems,
             AddPlaceholder, CheckDelete, Delete, Notify, CleanupFails,
             Rollback, Goto, TypeOK
      <3>2. ASSUME NEW p \in Requests \ {r}, Moves(p)
            PROVE  FALSE
        BY <1>0, <1>2, <3>2, OthersStay
      <3>3. ASSUME NEW e \in Edits,
                   EditRead(e) \/ EditStep(e) \/ \E p \in Requests : OwnerDeletes(e, p)
            PROVE  FALSE
        BY <1>2, <3>3
        DEF EditRead, EditStep, EditUpdate, EditInsert, OwnerDeletes, locals
      <3>4. CASE Crash \/ UNCHANGED vars
        BY <1>0, <1>2, <3>4 DEF Crash, vars, locals, TypeOK, Ended
      <3> QED
        BY <3>1, <3>2, <3>3, <3>4 DEF Next, Moves
    <2>2. pc[r] = "insert" /\ number' = number /\ req' = req /\ Visible(number[r])
      BY <2>1 DEF InsertFails, Rollback
    <2>3. PICK q \in Requests : row[q] # "none" /\ number[q] = number[r]
      BY <2>2 DEF Visible
    <2>4. pc[q] \in Answering \cup Ended
      BY <2>3 DEF CreationInv, RowInv
    <2>5. DrawnOK(r)
      BY <2>2 DEF CreationInv, CountInv, ReadsProfile
    <2>6. req[q].merchant # req[r].merchant
      BY <2>2, <2>3, <2>5 DEF DrawnOK
    <2> QED
      BY <1>a, <2>2, <2>3, <2>4, <2>6
  <1> QED
    BY <1>1, <1>2

\* Once it is answered, nothing comes back of an invoice.
LEMMA NothingBack ==
    ASSUME CreationInv, [Next]_vars, NEW r \in Requests, pc[r] \in Ended
    PROVE  /\ pc'[r] = pc[r] /\ req'[r] = req[r]
           /\ row'[r] \in {row[r], "none"} /\ items'[r] \subseteq items[r]
  <1>0. TypeOK
    BY DEF CreationInv
  <1>1. ~Moves(r)
    BY DEF Moves, Transaction, Aftermath, Receive, LockProfile, FindNoProfile,
           TimeNumber, TakeNumber, SkipNumber, StampNumber, WriteCounter, Insert,
           InsertFails, InsertItems, Commit, StatementFails, Encrypt, Scrub,
           DropItems, AddPlaceholder, CheckDelete, Delete, Notify, CleanupFails,
           Ended, Counting, Inserted
  <1>2. ASSUME NEW q \in Requests \ {r}, Moves(q)
        PROVE  pc'[r] = pc[r] /\ req'[r] = req[r] /\ row'[r] = row[r] /\ items'[r] = items[r]
    BY <1>0, <1>2, OthersStay
  <1>3. ASSUME NEW e \in Edits, NEW q \in Requests, OwnerDeletes(e, q)
        PROVE  /\ pc'[r] = pc[r] /\ req'[r] = req[r]
               /\ row'[r] \in {row[r], "none"} /\ items'[r] \subseteq items[r]
    BY <1>0, <1>3 DEF OwnerDeletes, locals, TypeOK
  <1>4. ASSUME NEW e \in Edits, EditRead(e) \/ EditStep(e)
        PROVE  UNCHANGED <<pc, req, row, items>>
    BY <1>4 DEF EditRead, EditStep, EditUpdate, EditInsert, locals, table
  <1>5. CASE Crash
    BY <1>0, <1>5 DEF Crash, table, TypeOK
  <1>6. CASE UNCHANGED vars
    BY <1>6 DEF vars, locals, table
  <1> QED
    BY <1>1, <1>2, <1>3, <1>4, <1>5, <1>6 DEF Next, Moves

\* A deletion that has failed is not forgotten.
LEMMA FailuresKept ==
    ASSUME [Next]_vars
    PROVE  undeleted \subseteq undeleted'
  <1>1. ASSUME NEW r \in Requests,
               \/ Receive(r) \/ Transaction(r) \/ StatementFails(r)
               \/ Aftermath(r) \/ CleanupFails(r)
        PROVE  undeleted \subseteq undeleted'
    BY <1>1 DEF Receive, Transaction, LockProfile, FindNoProfile, TimeNumber,
       TakeNumber, SkipNumber, StampNumber, WriteCounter, Insert, InsertFails,
       InsertItems, Commit, StatementFails, Aftermath, Encrypt, Scrub,
       DropItems, AddPlaceholder, CheckDelete, Delete, Notify, CleanupFails
  <1>2. ASSUME NEW e \in Edits,
               EditRead(e) \/ EditStep(e) \/ \E q \in Requests : OwnerDeletes(e, q)
        PROVE  undeleted' = undeleted
    BY <1>2 DEF EditRead, EditStep, EditUpdate, EditInsert, OwnerDeletes
  <1> QED
    BY <1>1, <1>2 DEF Next, Crash, vars

LEMMA GoneStep ==
    ASSUME CreationInv, [Next]_vars
    PROVE  EncryptedOrGone'
  <1>0. TypeOK
    BY DEF CreationInv
  <1> SUFFICES ASSUME NEW r \in Requests
               PROVE  /\ pc'[r] = "created" /\ req'[r].privacy = "encrypted" =>
                           row'[r] # "plain" /\ "details" \notin items'[r]
                      /\ pc'[r] = "unavailable" /\ r \notin undeleted' =>
                           row'[r] = "none"
    BY DEF EncryptedOrGone
  <1>1. CASE pc[r] \in Ended
    BY <1>1, NothingBack, FailuresKept DEF CreationInv, EncryptedOrGone
  <1>2. CASE pc'[r] = pc[r] /\ pc[r] \notin Ended
    BY <1>2 DEF Ended
  <1>3. CASE Moves(r) /\ pc[r] \notin Ended
    <2>1. CASE Notify(r)
      BY <1>0, <2>1 DEF Notify, Goto, table, TypeOK, CreationInv, RowInv
    <2>2. CASE CheckDelete(r)
      BY <1>0, <2>2 DEF CheckDelete, Goto, table, TypeOK
    <2>3. CASE Delete(r)
      BY <1>0, <2>3 DEF Delete, RowDeleted, Goto, TypeOK
    <2>4. CASE CleanupFails(r)
      BY <1>0, <2>4 DEF CleanupFails, Goto, TypeOK
    <2>5. CASE ~(Notify(r) \/ CheckDelete(r) \/ Delete(r) \/ CleanupFails(r))
      <3>1. req[r].privacy \in Privacy
        BY <1>0 DEF TypeOK, Request
      <3>2. pc'[r] \notin {"created", "unavailable"}
        BY <1>0, <1>3, <2>5, <3>1 DEF Moves, Transaction, Aftermath, Receive,
           LockProfile, FindNoProfile, TimeNumber, TakeNumber, SkipNumber,
           StampNumber, WriteCounter, Insert, InsertFails, InsertItems, Commit,
           AfterCommit, Privacy, StatementFails, Encrypt, Scrub, DropItems,
           AddPlaceholder, Rollback, Goto, TypeOK, Ended
      <3> QED
        BY <3>2
    <2> QED
      BY <2>1, <2>2, <2>3, <2>4, <2>5
  <1>4. CASE Crash
    BY <1>0, <1>1, <1>4 DEF Crash, TypeOK, Ended
  <1>5. ASSUME NEW q \in Requests \ {r}, Moves(q)
        PROVE  pc'[r] = pc[r]
    BY <1>0, <1>5, OthersStay
  <1>6. ASSUME NEW e \in Edits,
               EditRead(e) \/ EditStep(e) \/ \E q \in Requests : OwnerDeletes(e, q)
        PROVE  pc'[r] = pc[r]
    BY <1>6 DEF EditRead, EditStep, EditUpdate, EditInsert, OwnerDeletes, locals
  <1>7. CASE UNCHANGED vars
    BY <1>1, <1>2, <1>7 DEF vars, locals
  <1> QED
    BY <1>1, <1>2, <1>3, <1>4, <1>5, <1>6, <1>7 DEF Next, Moves

-----------------------------------------------------------------------------
(* The theorems.                                                             *)

\* The invariant is inductive, whatever the constants.
THEOREM CreationInductive == Spec => []CreationInv
  <1>1. Init => CreationInv
    <2> SUFFICES ASSUME Init
                 PROVE  CreationInv
      OBVIOUS
    <2>1. TypeOK
      BY TypeInit
    <2>2. /\ \A r \in Requests : ~ReadsProfile(r) /\ pc[r] = "idle" /\ row[r] = "none"
          /\ \A m \in Merchants : lock[m] = NoRequest /\ own[m] = {}
          /\ \A e \in Edits : edit[e].at = "idle"
      BY DEF Init, ReadsProfile, Counting, Inserted, IdleEdit
    <2>3. EditInv /\ LockInv /\ CountInv /\ CounterAhead /\ RowInv
           /\ BeatenByAnother /\ EncryptedOrGone
      BY <2>2 DEF EditInv, LockInv, CountInv, CounterAhead, RowInv,
             BeatenByAnother, EncryptedOrGone
    <2>4. NoNumberLost
      <3> SUFFICES ASSUME NEW m \in Merchants, profile[m] # NoProfile
                   PROVE  base[m] .. profile[m].next - 1 = {}
        BY DEF NoNumberLost
      <3>1. base[m] = profile[m].next /\ base[m] \in Nat
        BY <2>1 DEF Init, StartOf, TypeOK
      <3> QED
        BY <3>1
    <2> QED
      BY <2>1, <2>3, <2>4 DEF CreationInv
  <1>2. CreationInv /\ [Next]_vars => CreationInv'
    <2> SUFFICES ASSUME CreationInv, [Next]_vars
                 PROVE  CreationInv'
      OBVIOUS
    <2>1. TypeOK'
      BY TypeStep
    <2>2. LockInv'
      <3>1. \A r \in Requests : OwnLock(r)'
        BY <2>1, LockStep
      <3>2. \A m \in Merchants : lock'[m] # NoRequest => lock'[m] \in Requests
        BY <2>1 DEF TypeOK
      <3> QED
        BY <3>1, <3>2 DEF LockInv, OwnLock
    <2>3. EditInv' /\ CounterAhead' /\ NoNumberLost'
      BY <2>1, EditStays, AheadStep, LostStep
    <2>4. CountInv' /\ RowInv' /\ BeatenByAnother' /\ EncryptedOrGone'
      BY CountStep, RowStep, BeatenStep, GoneStep
    <2> QED
      BY <2>1, <2>2, <2>3, <2>4 DEF CreationInv
  <1> QED
    BY <1>1, <1>2, PTL DEF Spec

\* Every number a counter has passed is, or was, on an invoice, whatever
\* transactions fail and servers stop: nextInvoiceNumber moves with the insert.
THEOREM NumbersAccountedFor == Spec => []NoNumberLost
  <1>1. CreationInv => NoNumberLost
    BY DEF CreationInv
  <1> QED
    BY <1>1, CreationInductive, PTL

\* A request that finds its number taken lost it to another merchant, thanks to
\* SELECT ... FOR UPDATE.
THEOREM OnlyOthersCollide == Spec => []BeatenByAnother
  <1>1. CreationInv => BeatenByAnother
    BY DEF CreationInv
  <1> QED
    BY <1>1, CreationInductive, PTL

\* What a merchant is told of an encrypted invoice is so, unless the deletion of
\* one that could not be encrypted has failed.
THEOREM NothingInPlainText == Spec => []EncryptedOrGone
  <1>1. CreationInv => EncryptedOrGone
    BY DEF CreationInv
  <1> QED
    BY <1>1, CreationInductive, PTL

\* The invoices of a merchant come into the table in the order of their numbers.
THEOREM NumbersGoUp == Spec => NumberedInOrder
  <1> DEFINE Step ==
        \A r \in Requests :
          pc[r] = "commit" /\ pc'[r] # "commit" /\ row'[r] # "none"
              /\ number[r].prefix # NoPrefix =>
            \A n \in own[req[r].merchant] : n < number[r].n
  <1>1. CreationInv => Step
    <2> SUFFICES ASSUME CreationInv, NEW r \in Requests, pc[r] = "commit",
                        number[r].prefix # NoPrefix, NEW n \in own[req[r].merchant]
                 PROVE  n < number[r].n
      OBVIOUS
    <2>1. req[r].merchant \in Merchants /\ CountsFor(r, req[r].merchant)
      BY DEF CreationInv, RowInv, CountsFor
    <2>2. n \in Nat /\ n < profile[req[r].merchant].next
      BY <2>1 DEF CreationInv, CounterAhead, TypeOK
    <2>3. profile[req[r].merchant].next \in Nat /\ number[r].n \in Nat
           /\ profile[req[r].merchant].next <= number[r].n
      BY <2>1, CounterIsLocked, Drawn
    <2> QED
      BY <2>2, <2>3
  <1>2. CreationInv /\ [Next]_vars => [Step]_vars
    BY <1>1
  <1>3. Spec => [][Step]_vars
    BY <1>2, CreationInductive, PTL DEF Spec
  <1> QED
    BY <1>3 DEF NumberedInOrder

\* A transaction that others wait for has locked a profile, or has put a number
\* into the index.
LEMMA WaitedFor ==
    ASSUME CreationInv, NEW r \in Requests, NEW q \in WaitsFor(r)
    PROVE  \/ pc[r] = "profile" /\ ReadsProfile(q)
           \/ pc[r] = "insert" /\ pc[q] \in Inserted
<1>1. CASE pc[r] = "profile"
  <2>1. q = lock[req[r].merchant] /\ q # NoRequest
      BY <1>1 DEF WaitsFor
  <2>2. req[r].merchant \in Merchants
      BY <1>1 DEF CreationInv, RowInv
  <2> QED
      BY <1>1, <2>1, <2>2 DEF CreationInv, LockInv
<1>2. CASE pc[r] = "insert"
    BY <1>2 DEF WaitsFor
<1>3. CASE pc[r] \notin {"profile", "insert"}
    BY <1>3 DEF WaitsFor
<1> QED
    BY <1>1, <1>2, <1>3

\* The transactions of createInvoiceWithItems never wait for each other in a
\* circle: who has put a number into the index waits for nobody, so that who
\* has locked a profile waits only for those who do not wait.
THEOREM NeverDeadlocks == Spec => []NoDeadlock
<1>1. CreationInv => NoDeadlock
  <2> SUFFICES ASSUME CreationInv, NEW circle \in SUBSET Requests,
                      \A r \in circle : WaitsFor(r) \cap circle # {},
                      NEW r \in circle
               PROVE  FALSE
      BY DEF NoDeadlock
  <2>1. \A p \in circle : pc[p] \in {"profile", "insert"}
      BY WaitedFor
  <2>2. \A p \in circle : pc[p] # "insert"
      BY <2>1, WaitedFor DEF Inserted
  <2> PICK q \in circle : q \in WaitsFor(r)
      OBVIOUS
  <2>3. ReadsProfile(q)
      BY <2>2, WaitedFor
  <2> QED
      BY <2>1, <2>2, <2>3 DEF ReadsProfile, Counting, Inserted
<1> QED
    BY <1>1, CreationInductive, PTL

=============================================================================
