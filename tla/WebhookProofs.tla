--------------------------- MODULE WebhookProofs ---------------------------
(***************************************************************************)
(* Proofs about WebhookDelivery: that WebhookInv is an invariant, for any  *)
(* number of hooks, events and overlapping passes, any limits, and any     *)
(* number of edits, crashes and failed statements.                         *)
(***************************************************************************)
EXTENDS WebhookDelivery, FiniteSetTheorems, TLAPS

\* The rows of webhook_deliveries, each of one hook.
LEMMA Rows ==
    /\ \A d \in Deliveries : HookOf(d) \in Hooks
    /\ \A e \in Events, h \in Hooks : /\ <<e, h>> \in Deliveries
                                      /\ HookOf(<<e, h>>) = h
BY DEF Deliveries, HookOf

\* The copy an attempt is left with when it ends.
LEMMA IdleType == Idle \in Attempt /\ Idle.number = 0 /\ Idle.seen = NoHook
BY DEF Idle, Attempt

\* A health update writes a hook.
LEMMA HealthType ==
    ASSUME NEW hook \in Hook, NEW seen \in Hook, NEW ok \in BOOLEAN
    PROVE  Health(hook, seen, ok) \in Hook
BY DEF Health, Hook

\* The next number of a row.
LEMMA NumberType ==
    ASSUME TypeOK, NEW d \in Deliveries
    PROVE  Number(d) \in Nat
<1>1. deliveries[d].attempts \in Nat
    BY DEF TypeOK, Delivery
<1> QED
    BY <1>1 DEF Number

-----------------------------------------------------------------------------
(* Types.  An attempt that writes a hook's health has read the hook.       *)

Typed == TypeOK /\ \A p \in Passes, d \in Deliveries :
                     attempt[p][d].at = "healthWrite" => attempt[p][d].seen # NoHook

LEMMA InitTyped == Init => Typed
<1> SUFFICES ASSUME Init PROVE Typed
    OBVIOUS
<1>1. \A h \in Hooks : [status |-> "active", failures |-> 0] \in Hook
    BY DEF Hook
<1>2. \A d \in Deliveries :
        [status |-> "none", attempts |-> 0, due |-> FALSE] \in Delivery
    BY DEF Delivery
<1>3. TypeOK
    BY <1>1, <1>2, IdleType DEF Init, TypeOK
<1> QED
    BY <1>3 DEF Init, Typed, Idle

LEMMA NextTyped == Typed /\ [Next]_vars => Typed'
<1> SUFFICES ASSUME Typed, [Next]_vars PROVE Typed'
    OBVIOUS
<1> USE DEF Typed, TypeOK
<1>1. ASSUME NEW e \in Events, Emit(e) PROVE Typed'
    BY <1>1 DEF Emit, history
<1>2. ASSUME NEW e \in Events, Queue(e) PROVE Typed'
  <2> PICK h \in emitting[e] :
        /\ emitting' = [emitting EXCEPT ![e] = @ \ {h}]
        /\ deliveries' = [deliveries EXCEPT ![<<e, h>>] =
             [status |-> "pending", attempts |-> 0, due |-> TRUE]]
      BY <1>2 DEF Queue
  <2>1. [status |-> "pending", attempts |-> 0, due |-> TRUE] \in Delivery
      BY DEF Delivery
  <2>2. deliveries' \in [Deliveries -> Delivery]
      BY <2>1, Rows
  <2>3. emitting' \in [Events -> SUBSET Hooks]
      OBVIOUS
  <2> QED
      BY <1>2, <2>2, <2>3 DEF Queue, history
<1>3. ASSUME NEW e \in Events, QueueFails(e) PROVE Typed'
  <2>1. faults' \in Nat
      BY <1>3 DEF QueueFails
  <2>2. emitting' \in [Events -> SUBSET Hooks]
      BY <1>3 DEF QueueFails
  <2> QED
      BY <1>3, <2>1, <2>2 DEF QueueFails, history
<1>4. ASSUME NEW d \in Deliveries, ComesDue(d) PROVE Typed'
  <2>1. [deliveries[d] EXCEPT !.due = TRUE] \in Delivery
      BY DEF Delivery
  <2>2. deliveries' \in [Deliveries -> Delivery]
      BY <1>4, <2>1 DEF ComesDue
  <2> QED
      BY <1>4, <2>2 DEF ComesDue, history
<1>5. ASSUME NEW p \in Passes, Select(p) PROVE Typed'
  <2> PICK batch \in SUBSET Ready :
        attempt' = [attempt EXCEPT ![p] = [d \in Deliveries |->
                      IF d \in batch
                      THEN [Idle EXCEPT !.at = "mark", !.number = Number(d)]
                      ELSE Idle]]
      BY <1>5 DEF Select
  <2>1. \A d \in Deliveries :
          [Idle EXCEPT !.at = "mark", !.number = Number(d)] \in Attempt
      BY NumberType, IdleType DEF Attempt
  <2>2. attempt' \in [Passes -> [Deliveries -> Attempt]]
      BY <2>1, IdleType
  <2>3. \A q \in Passes, d \in Deliveries :
          attempt'[q][d].at = "healthWrite" => attempt'[q][d].seen # NoHook
      BY DEF Idle
  <2> QED
      BY <1>5, <2>2, <2>3 DEF Select, history
<1>6. ASSUME NEW p \in Passes, NEW d \in Deliveries, Step(p, d) PROVE Typed'
  <2>0. attempt[p][d] \in Attempt /\ deliveries[d] \in Delivery
      OBVIOUS
  <2>w. ASSUME NEW columns \in Delivery, Written(d, columns)
        PROVE  deliveries' \in [Deliveries -> Delivery]
      BY <2>w DEF Written
  <2>a. ASSUME NEW a \in Attempt, attempt' = [attempt EXCEPT ![p][d] = a],
               a.at = "healthWrite" => a.seen # NoHook
        PROVE  /\ attempt' \in [Passes -> [Deliveries -> Attempt]]
               /\ \A q \in Passes, x \in Deliveries :
                    attempt'[q][x].at = "healthWrite" => attempt'[q][x].seen # NoHook
      BY <2>a
  <2>i. Idle.at # "healthWrite"
      BY DEF Idle
  <2>1. CASE Mark(p, d)
    <3>1. [deliveries[d] EXCEPT !.status = "processing",
                                !.attempts = attempt[p][d].number] \in Delivery
        BY <2>0 DEF Delivery, Attempt
    <3>2. deliveries' \in [Deliveries -> Delivery]
        BY <2>1, <2>w, <3>1 DEF Mark
    <3>3. [attempt[p][d] EXCEPT !.at = "send"] \in Attempt
        BY <2>0 DEF Attempt
    <3>4. CASE Stop(p, d)
        BY <2>1, <2>a, <2>i, <3>2, <3>4, IdleType DEF Mark, Stop, history
    <3>5. CASE Goto(p, d, "send")
      <4>1. attempt' = [attempt EXCEPT ![p][d] = [attempt[p][d] EXCEPT !.at = "send"]]
          BY <3>5 DEF Goto
      <4>2. [attempt[p][d] EXCEPT !.at = "send"].at # "healthWrite"
          BY <2>0 DEF Attempt
      <4> QED
          BY <2>1, <2>a, <3>2, <3>3, <4>1, <4>2 DEF Mark, history
    <3> QED
        BY <2>1, <3>4, <3>5 DEF Mark
  <2>2. CASE Send(p, d)
    <3> PICK answer \in {"2xx", "other", "none"} :
          /\ accepted' = IF answer = "2xx" THEN accepted \cup {d} ELSE accepted
          /\ attempt' = [attempt EXCEPT ![p][d].at = AfterAnswer(answer),
                                        ![p][d].caught = (answer = "none")]
        BY <2>2 DEF Send
    <3> DEFINE a == [attempt[p][d] EXCEPT !.at = AfterAnswer(answer),
                                          !.caught = (answer = "none")]
    <3>1. a \in Attempt /\ a.at # "healthWrite"
        BY <2>0 DEF Attempt, AfterAnswer
    <3>2. attempt' = [attempt EXCEPT ![p][d] = a]
        OBVIOUS
    <3> QED
        BY <2>2, <2>a, <3>1, <3>2 DEF Send
  <2>3. CASE Succeed(p, d)
    <3> DEFINE a == [attempt[p][d] EXCEPT !.at = "health", !.ok = TRUE]
    <3>1. a \in Attempt /\ a.at # "healthWrite"
        BY <2>0 DEF Attempt
    <3>2. attempt' = [attempt EXCEPT ![p][d] = a]
        BY <2>3 DEF Succeed
    <3>3. [deliveries[d] EXCEPT !.status = "delivered"] \in Delivery
        BY <2>0 DEF Delivery
    <3> QED
        BY <2>3, <2>a, <2>w, <3>1, <3>2, <3>3 DEF Succeed, history
  <2>4. CASE Fail(p, d)
    <3> DEFINE a == [attempt[p][d] EXCEPT !.at = "health", !.ok = FALSE]
    <3>1. a \in Attempt /\ a.at # "healthWrite"
        BY <2>0 DEF Attempt
    <3>2. attempt' = [attempt EXCEPT ![p][d] = a]
        BY <2>4 DEF Fail
    <3>3. /\ [deliveries[d] EXCEPT !.status = "exhausted"] \in Delivery
          /\ Again(d) \in Delivery
        BY <2>0 DEF Delivery, Again
    <3>4. deliveries' \in [Deliveries -> Delivery]
        BY <2>4, <2>w, <3>3 DEF Fail
    <3>5. fails' \in [Deliveries -> Nat] /\ misses' \in [Hooks -> Nat]
        BY <2>4, Rows DEF Fail
    <3> QED
        BY <2>4, <2>a, <3>1, <3>2, <3>4, <3>5 DEF Fail
  <2>5. CASE HealthRead(p, d)
    <3>1. CASE Stop(p, d)
        BY <2>5, <2>a, <2>i, <3>1, IdleType DEF HealthRead, Stop, history
    <3>2. CASE hooks[HookOf(d)] # NoHook
      <4> DEFINE a == [attempt[p][d] EXCEPT !.at = "healthWrite",
                                            !.seen = hooks[HookOf(d)]]
      <4>1. a \in Attempt /\ a.seen # NoHook
          BY <2>0, <3>2, Rows DEF Attempt
      <4>2. attempt' = [attempt EXCEPT ![p][d] = a]
          BY <2>5, <3>2 DEF HealthRead
      <4> QED
          BY <2>5, <2>a, <4>1, <4>2 DEF HealthRead, history
    <3> QED
        BY <2>5, <3>1, <3>2 DEF HealthRead
  <2>6. CASE HealthWrite(p, d)
    <3>1. hooks' \in [Hooks -> Hook \cup {NoHook}]
      <4>1. attempt[p][d].ok \in BOOLEAN /\ attempt[p][d].seen \in Hook
          BY <2>0, <2>6 DEF Attempt, HealthWrite
      <4>2. CASE hooks[HookOf(d)] = NoHook
          BY <2>6, <4>2 DEF HealthWrite
      <4>3. CASE hooks[HookOf(d)] # NoHook
        <5>1. Health(hooks[HookOf(d)], attempt[p][d].seen, attempt[p][d].ok) \in Hook
            BY <4>1, <4>3, HealthType, Rows
        <5> QED
            BY <2>6, <4>3, <5>1 DEF HealthWrite
      <4> QED
          BY <4>2, <4>3
    <3> QED
        BY <2>6, <2>a, <2>i, <3>1, IdleType DEF HealthWrite, Stop, history
  <2>7. CASE StatementFails(p, d)
    <3>1. faults' \in Nat
        BY <2>7 DEF StatementFails
    <3>2. CASE Stop(p, d)
        BY <2>7, <2>a, <2>i, <3>1, <3>2, IdleType DEF StatementFails, Stop, history
    <3>3. CASE attempt' = [attempt EXCEPT ![p][d].at = "fail",
                                          ![p][d].caught = TRUE,
                                          ![p][d].seen = NoHook]
      <4> DEFINE a == [attempt[p][d] EXCEPT !.at = "fail", !.caught = TRUE,
                                            !.seen = NoHook]
      <4>1. a \in Attempt /\ a.at # "healthWrite"
          BY <2>0 DEF Attempt
      <4>2. attempt' = [attempt EXCEPT ![p][d] = a]
          BY <3>3
      <4> QED
          BY <2>7, <2>a, <3>1, <4>1, <4>2 DEF StatementFails, history
    <3> QED
        BY <2>7, <3>2, <3>3 DEF StatementFails
  <2> QED
      BY <1>6, <2>1, <2>2, <2>3, <2>4, <2>5, <2>6, <2>7 DEF Step
<1>7. ASSUME NEW h \in Hooks, EditRead(h) PROVE Typed'
    BY <1>7 DEF EditRead, history
<1>8. ASSUME NEW h \in Hooks, EditWrite(h) PROVE Typed'
  <2>1. hooks' \in [Hooks -> Hook \cup {NoHook}]
    <3>1. CASE hooks[h] = NoHook
        BY <1>8, <3>1 DEF EditWrite
    <3>2. CASE hooks[h] # NoHook
      <4>1. PICK status \in {"active", "paused", "disabled"} :
              hooks' = [hooks EXCEPT ![h] =
                [status |-> status,
                 failures |-> IF /\ status = "active"
                                 /\ edit[h].status = "disabled"
                              THEN 0 ELSE @.failures]]
          BY <1>8, <3>2 DEF EditWrite
      <4>2. hooks[h].failures \in Nat
          BY <3>2 DEF Hook
      <4>3. [status |-> status,
             failures |-> IF /\ status = "active"
                             /\ edit[h].status = "disabled"
                          THEN 0 ELSE hooks[h].failures] \in Hook
          BY <4>2 DEF Hook
      <4> QED
          BY <4>1, <4>3
    <3> QED
        BY <3>1, <3>2
  <2>2. ownerOff' \subseteq Hooks
      BY <1>8 DEF EditWrite
  <2>3. edit' \in [Hooks -> Hook \cup {NoHook}]
      BY <1>8 DEF EditWrite
  <2> QED
      BY <1>8, <2>1, <2>2, <2>3 DEF EditWrite, history
<1>9. ASSUME NEW h \in Hooks, Delete(h) PROVE Typed'
  <2>1. \A d \in Deliveries : [deliveries[d] EXCEPT !.status = "deleted"] \in Delivery
      BY DEF Delivery
  <2>2. deliveries' \in [Deliveries -> Delivery]
      BY <1>9, <2>1 DEF Delete
  <2>3. hooks' \in [Hooks -> Hook \cup {NoHook}]
      BY <1>9 DEF Delete
  <2> QED
      BY <1>9, <2>2, <2>3 DEF Delete, history
<1>10. ASSUME Crash PROVE Typed'
  <2>1. attempt' \in [Passes -> [Deliveries -> Attempt]]
      BY <1>10, IdleType DEF Crash
  <2>2. \A p \in Passes, d \in Deliveries : attempt'[p][d].at # "healthWrite"
      BY <1>10 DEF Crash, Idle
  <2> QED
      BY <1>10, <2>1, <2>2 DEF Crash, history
<1>11. ASSUME UNCHANGED vars PROVE Typed'
    BY <1>11 DEF vars
<1> QED
    BY <1>1, <1>2, <1>3, <1>4, <1>5, <1>6, <1>7, <1>8, <1>9, <1>10, <1>11
    DEF Next

-----------------------------------------------------------------------------
(* Attempts and failures.  A row that can be selected has no more attempts *)
(* than failures, so the copy a pass takes of it stands for at most one    *)
(* attempt that has not failed yet, however old the copy gets.             *)

Counted(d) ==
    /\ deliveries[d].attempts <= fails[d] + 1
    /\ deliveries[d].status \in {"pending", "failed"} =>
         deliveries[d].attempts <= fails[d]
    /\ deliveries[d].status = "exhausted" => fails[d] >= MaxAttempts
    /\ \A p \in Passes : attempt[p][d].number <= fails[d] + 1

LEMMA CountedIsCountInv ==
    (\A d \in Deliveries : Counted(d)) <=> CountInv /\ GivenUpLate
BY DEF Counted, CountInv, GivenUpLate

\* A row with the columns and the failures it had, and attempts with the
\* numbers they had or none.
LEMMA SameCounted ==
    ASSUME Typed, NEW d \in Deliveries, Counted(d),
           deliveries'[d].attempts = deliveries[d].attempts,
           \/ deliveries'[d].status = deliveries[d].status
           \/ deliveries'[d].status \notin {"pending", "failed", "exhausted"},
           fails'[d] = fails[d],
           \A p \in Passes : attempt'[p][d].number \in {0, attempt[p][d].number}
    PROVE  Counted(d)'
<1>1. fails[d] \in Nat
    BY DEF Typed, TypeOK
<1> QED
    BY <1>1 DEF Counted

LEMMA NextCounted ==
    Typed /\ (\A d \in Deliveries : Counted(d)) /\ [Next]_vars
      => (\A d \in Deliveries : Counted(d))'
<1> SUFFICES ASSUME Typed, \A d \in Deliveries : Counted(d), [Next]_vars,
                    NEW x \in Deliveries
             PROVE  Counted(x)'
    BY DEF Deliveries
<1>c. Counted(x)
    OBVIOUS
<1>t. /\ fails[x] \in Nat
      /\ deliveries[x] \in Delivery
      /\ deliveries[x].attempts \in Nat
      /\ \A p \in Passes : attempt[p][x].number \in Nat
    BY DEF Typed, TypeOK, Delivery, Attempt
<1>u. \A p \in Passes, d \in Deliveries : \A a :
        attempt' = [attempt EXCEPT ![p][d] = a] =>
          \A q \in Passes : attempt'[q][x] = IF q = p /\ x = d THEN a
                                             ELSE attempt[q][x]
    BY DEF Typed, TypeOK
<1>i. Idle.number = 0
    BY DEF Idle
<1>1. ASSUME NEW e \in Events, Emit(e) PROVE Counted(x)'
    BY <1>1, <1>c, SameCounted DEF Emit, history
<1>2. ASSUME NEW e \in Events, Queue(e) PROVE Counted(x)'
  <2>1. PICK h \in emitting[e] :
          deliveries' = [deliveries EXCEPT ![<<e, h>>] =
            [status |-> "pending", attempts |-> 0, due |-> TRUE]]
      BY <1>2 DEF Queue
  <2>2. /\ deliveries'[x] = deliveries[x]
        \/ deliveries'[x] = [status |-> "pending", attempts |-> 0, due |-> TRUE]
      BY <2>1 DEF Typed, TypeOK
  <2>3. fails' = fails /\ attempt' = attempt
      BY <1>2 DEF Queue, history
  <2> QED
      BY <2>2, <2>3, <1>c, <1>t DEF Counted
<1>3. ASSUME NEW e \in Events, QueueFails(e) PROVE Counted(x)'
    BY <1>3, <1>c, SameCounted DEF QueueFails, history
<1>4. ASSUME NEW d \in Deliveries, ComesDue(d) PROVE Counted(x)'
  <2>1. /\ deliveries'[x].attempts = deliveries[x].attempts
        /\ deliveries'[x].status = deliveries[x].status
      BY <1>4, <1>t DEF ComesDue, Typed, TypeOK, Delivery
  <2> QED
      BY <1>4, <2>1, <1>c, SameCounted DEF ComesDue, history
<1>5. ASSUME NEW p \in Passes, Select(p) PROVE Counted(x)'
  <2>1. PICK batch \in SUBSET Ready :
          attempt' = [attempt EXCEPT ![p] = [d \in Deliveries |->
                        IF d \in batch
                        THEN [Idle EXCEPT !.at = "mark", !.number = Number(d)]
                        ELSE Idle]]
      BY <1>5 DEF Select
  <2>2. deliveries' = deliveries /\ fails' = fails
      BY <1>5 DEF Select, history
  <2>3. ASSUME NEW q \in Passes PROVE attempt'[q][x].number <= fails[x] + 1
    <3>1. CASE q = p /\ x \in batch
      <4>1. attempt'[q][x].number = deliveries[x].attempts + 1
          BY <2>1, <3>1 DEF Typed, TypeOK, Idle, Number
      <4>2. deliveries[x].attempts <= fails[x]
          BY <3>1, <1>c DEF Ready, Counted
      <4> QED
          BY <4>1, <4>2, <1>t
    <3>2. CASE q = p /\ x \notin batch
      <4>1. attempt'[q][x] = Idle
          BY <2>1, <3>2 DEF Typed, TypeOK
      <4> QED
          BY <4>1, <1>i, <1>t
    <3>3. CASE q # p
      <4>1. attempt'[q][x] = attempt[q][x]
          BY <2>1, <3>3 DEF Typed, TypeOK
      <4> QED
          BY <4>1, <1>c DEF Counted
    <3> QED
        BY <3>1, <3>2, <3>3
  <2> QED
      BY <2>2, <2>3, <1>c DEF Counted
<1>6. ASSUME NEW p \in Passes, NEW d \in Deliveries, Step(p, d)
      PROVE  Counted(x)'
  <2>0. /\ attempt[p][d] \in Attempt
        /\ deliveries[d] \in Delivery
      BY DEF Typed, TypeOK
  <2>s. Stop(p, d) =>
          \A q \in Passes : attempt'[q][x].number \in {0, attempt[q][x].number}
      BY <1>u, <1>i DEF Stop
  <2>1. CASE Mark(p, d)
    <3>1. \A q \in Passes : attempt'[q][x].number \in {0, attempt[q][x].number}
      <4>1. CASE Goto(p, d, "send")
        <5>1. attempt' = [attempt EXCEPT ![p][d] =
                            [attempt[p][d] EXCEPT !.at = "send"]]
            BY <4>1 DEF Goto
        <5>2. [attempt[p][d] EXCEPT !.at = "send"].number = attempt[p][d].number
            BY <2>0 DEF Attempt
        <5> QED
            BY <5>1, <5>2, <1>u
      <4> QED
          BY <2>1, <2>s, <4>1 DEF Mark
    <3>2. fails' = fails
        BY <2>1 DEF Mark, history
    <3>3. CASE deliveries' = deliveries
        BY <3>1, <3>2, <3>3, <1>c, SameCounted
    <3>4. CASE deliveries' = [deliveries EXCEPT ![d] =
                 [deliveries[d] EXCEPT !.status = "processing",
                                       !.attempts = attempt[p][d].number]]
      <4>1. CASE x = d
        <5>1. /\ deliveries'[x].status = "processing"
              /\ deliveries'[x].attempts = attempt[p][x].number
            BY <3>4, <4>1, <2>0 DEF Typed, TypeOK, Delivery
        <5> QED
            BY <5>1, <3>1, <3>2, <1>c, <1>t DEF Counted
      <4>2. CASE x # d
        <5>1. deliveries'[x] = deliveries[x]
            BY <3>4, <4>2 DEF Typed, TypeOK
        <5> QED
            BY <5>1, <3>1, <3>2, <1>c, SameCounted
      <4> QED
          BY <4>1, <4>2
    <3> QED
        BY <2>1, <3>3, <3>4 DEF Mark, Written
  <2>2. CASE Send(p, d)
    <3>1. PICK answer \in {"2xx", "other", "none"} :
            attempt' = [attempt EXCEPT ![p][d].at = AfterAnswer(answer),
                                       ![p][d].caught = (answer = "none")]
        BY <2>2 DEF Send
    <3>2. \A q \in Passes : attempt'[q][x].number = attempt[q][x].number
        BY <3>1, <2>0 DEF Typed, TypeOK, Attempt
    <3> QED
        BY <2>2, <3>2, <1>c, SameCounted DEF Send
  <2>3. CASE Succeed(p, d)
    <3>1. \A q \in Passes : attempt'[q][x].number = attempt[q][x].number
        BY <2>3, <2>0 DEF Succeed, Typed, TypeOK, Attempt
    <3>2. /\ deliveries'[x].attempts = deliveries[x].attempts
          /\ \/ deliveries'[x].status = deliveries[x].status
             \/ deliveries'[x].status = "delivered"
        BY <2>3, <2>0, <1>t DEF Succeed, Written, Typed, TypeOK, Delivery
    <3> QED
        BY <2>3, <3>1, <3>2, <1>c, SameCounted DEF Succeed, history
  <2>4. CASE Fail(p, d)
    <3>1. \A q \in Passes : attempt'[q][x].number = attempt[q][x].number
        BY <2>4, <2>0 DEF Fail, Typed, TypeOK, Attempt
    <3>2. CASE x # d
      <4>1. deliveries'[x] = deliveries[x] /\ fails'[x] = fails[x]
          BY <2>4, <3>2 DEF Fail, Written, Typed, TypeOK
      <4> QED
          BY <4>1, <3>1, <1>c, SameCounted
    <3>3. CASE x = d
      <4>1. fails'[x] = fails[x] + 1
          BY <2>4, <3>3 DEF Fail, Typed, TypeOK
      <4>2. /\ deliveries'[x].attempts = deliveries[x].attempts
            /\ \/ deliveries'[x].status = deliveries[x].status
               \/ deliveries'[x].status = "failed"
               \/ /\ deliveries'[x].status = "exhausted"
                  /\ attempt[p][x].number >= MaxAttempts
          BY <2>4, <3>3, <2>0
          DEF Fail, Written, Again, Exhausted, Typed, TypeOK, Delivery
      <4>3. attempt[p][x].number <= fails[x] + 1 /\ MaxAttempts \in Nat
          BY <1>c, WebhookAssumption DEF Counted, WebhookAssumption
      <4> QED
          BY <4>1, <4>2, <4>3, <3>1, <1>c, <1>t DEF Counted
    <3> QED
        BY <3>2, <3>3
  <2>5. CASE HealthRead(p, d)
    <3>1. \A q \in Passes : attempt'[q][x].number \in {0, attempt[q][x].number}
      <4>1. CASE attempt' = [attempt EXCEPT ![p][d].at = "healthWrite",
                                            ![p][d].seen = hooks[HookOf(d)]]
          BY <4>1, <2>0 DEF Typed, TypeOK, Attempt
      <4> QED
          BY <2>5, <2>s, <4>1 DEF HealthRead
    <3> QED
        BY <2>5, <3>1, <1>c, SameCounted DEF HealthRead, history
  <2>6. CASE HealthWrite(p, d)
      BY <2>6, <2>s, <1>c, SameCounted DEF HealthWrite, history
  <2>7. CASE StatementFails(p, d)
    <3>1. \A q \in Passes : attempt'[q][x].number \in {0, attempt[q][x].number}
      <4>1. CASE attempt' = [attempt EXCEPT ![p][d].at = "fail",
                                            ![p][d].caught = TRUE,
                                            ![p][d].seen = NoHook]
          BY <4>1, <2>0 DEF Typed, TypeOK, Attempt
      <4> QED
          BY <2>7, <2>s, <4>1 DEF StatementFails
    <3> QED
        BY <2>7, <3>1, <1>c, SameCounted DEF StatementFails, history
  <2> QED
      BY <1>6, <2>1, <2>2, <2>3, <2>4, <2>5, <2>6, <2>7 DEF Step
<1>7. ASSUME NEW h \in Hooks, EditRead(h) PROVE Counted(x)'
    BY <1>7, <1>c, SameCounted DEF EditRead, history
<1>8. ASSUME NEW h \in Hooks, EditWrite(h) PROVE Counted(x)'
    BY <1>8, <1>c, SameCounted DEF EditWrite, history
<1>9. ASSUME NEW h \in Hooks, Delete(h) PROVE Counted(x)'
  <2>1. /\ deliveries'[x].attempts = deliveries[x].attempts
        /\ \/ deliveries'[x].status = deliveries[x].status
           \/ deliveries'[x].status = "deleted"
      BY <1>9, <1>t DEF Delete, Delivery
  <2> QED
      BY <1>9, <2>1, <1>c, SameCounted DEF Delete, history
<1>10. ASSUME Crash PROVE Counted(x)'
  <2>1. \A p \in Passes : attempt'[p][x].number = 0
      BY <1>10, <1>i DEF Crash
  <2> QED
      BY <1>10, <2>1, <1>c, SameCounted DEF Crash, history
<1>11. ASSUME UNCHANGED vars PROVE Counted(x)'
    BY <1>11, <1>c, SameCounted DEF vars
<1> QED
    BY <1>1, <1>2, <1>3, <1>4, <1>5, <1>6, <1>7, <1>8, <1>9, <1>10, <1>11
    DEF Next

-----------------------------------------------------------------------------
(* Answers.  Only an attempt answered with 2xx goes on to succeed, and     *)
(* nothing takes such an answer back.                                      *)

Answered(d) ==
    /\ \A p \in Passes : attempt[p][d].at = "succeed" => d \in accepted
    /\ deliveries[d].status = "delivered" => d \in accepted

LEMMA AnsweredIsAcceptInv ==
    (\A d \in Deliveries : Answered(d)) <=> AcceptInv /\ DeliveredWasAccepted
BY DEF Answered, AcceptInv, DeliveredWasAccepted

LEMMA SameAnswered ==
    ASSUME NEW d \in Deliveries, Answered(d),
           accepted \subseteq accepted',
           \/ deliveries'[d].status = deliveries[d].status
           \/ deliveries'[d].status # "delivered"
           \/ \E p \in Passes : attempt[p][d].at = "succeed",
           \A p \in Passes : \/ attempt'[p][d].at = attempt[p][d].at
                             \/ attempt'[p][d].at # "succeed"
                             \/ d \in accepted'
    PROVE  Answered(d)'
BY DEF Answered

LEMMA NextAnswered ==
    Typed /\ (\A d \in Deliveries : Answered(d)) /\ [Next]_vars
      => (\A d \in Deliveries : Answered(d))'
<1> SUFFICES ASSUME Typed, \A d \in Deliveries : Answered(d), [Next]_vars,
                    NEW x \in Deliveries
             PROVE  Answered(x)'
    BY DEF Deliveries
<1>c. Answered(x)
    OBVIOUS
<1>t. deliveries[x] \in Delivery
    BY DEF Typed, TypeOK
<1>i. Idle.at # "succeed"
    BY DEF Idle
<1>1. ASSUME NEW e \in Events, Emit(e) PROVE Answered(x)'
    BY <1>1, <1>c, SameAnswered DEF Emit, history
<1>2. ASSUME NEW e \in Events, Queue(e) PROVE Answered(x)'
  <2>1. \/ deliveries'[x].status = deliveries[x].status
        \/ deliveries'[x].status = "pending"
      BY <1>2 DEF Queue, Typed, TypeOK
  <2> QED
      BY <1>2, <2>1, <1>c, SameAnswered DEF Queue, history
<1>3. ASSUME NEW e \in Events, QueueFails(e) PROVE Answered(x)'
    BY <1>3, <1>c, SameAnswered DEF QueueFails, history
<1>4. ASSUME NEW d \in Deliveries, ComesDue(d) PROVE Answered(x)'
  <2>1. deliveries'[x].status = deliveries[x].status
      BY <1>4, <1>t DEF ComesDue, Typed, TypeOK, Delivery
  <2> QED
      BY <1>4, <2>1, <1>c, SameAnswered DEF ComesDue, history
<1>5. ASSUME NEW p \in Passes, Select(p) PROVE Answered(x)'
  <2>1. PICK batch \in SUBSET Ready :
          attempt' = [attempt EXCEPT ![p] = [d \in Deliveries |->
                        IF d \in batch
                        THEN [Idle EXCEPT !.at = "mark", !.number = Number(d)]
                        ELSE Idle]]
      BY <1>5 DEF Select
  <2>2. \A q \in Passes : \/ attempt'[q][x] = attempt[q][x]
                          \/ attempt'[q][x].at \in {"mark", Idle.at}
      BY <2>1 DEF Typed, TypeOK, Idle
  <2> QED
      BY <1>5, <2>2, <1>i, <1>c, SameAnswered DEF Select, history
<1>6. ASSUME NEW p \in Passes, NEW d \in Deliveries, Step(p, d)
      PROVE  Answered(x)'
  <2>0. /\ attempt[p][d] \in Attempt
        /\ deliveries[d] \in Delivery
      BY DEF Typed, TypeOK
  <2>s. Stop(p, d) => \A q \in Passes : \/ attempt'[q][x].at = attempt[q][x].at
                                        \/ attempt'[q][x].at # "succeed"
      BY <1>i DEF Stop, Typed, TypeOK
  <2>1. CASE Mark(p, d)
    <3>1. Goto(p, d, "send") =>
            \A q \in Passes : \/ attempt'[q][x].at = attempt[q][x].at
                              \/ attempt'[q][x].at # "succeed"
        BY <2>0 DEF Goto, Typed, TypeOK, Attempt
    <3>2. \/ deliveries'[x].status = deliveries[x].status
          \/ deliveries'[x].status = "processing"
        BY <2>1, <2>0, <1>t DEF Mark, Written, Typed, TypeOK, Delivery
    <3>3. Goto(p, d, "send") \/ Stop(p, d)
        BY <2>1 DEF Mark
    <3>4. accepted' = accepted
        BY <2>1 DEF Mark, history
    <3> QED
        BY <2>s, <3>1, <3>2, <3>3, <3>4, <1>c, SameAnswered
  <2>2. CASE Send(p, d)
    <3>1. PICK answer \in {"2xx", "other", "none"} :
            /\ accepted' = IF answer = "2xx" THEN accepted \cup {d} ELSE accepted
            /\ attempt' = [attempt EXCEPT ![p][d].at = AfterAnswer(answer),
                                          ![p][d].caught = (answer = "none")]
        BY <2>2 DEF Send
    <3>2. CASE answer = "2xx"
      <4>1. \A q \in Passes : \/ attempt'[q][x].at = attempt[q][x].at
                              \/ x = d
          BY <3>1, <2>0 DEF Typed, TypeOK, Attempt
      <4>2. x = d => x \in accepted'
          BY <3>1, <3>2
      <4> QED
          BY <2>2, <3>1, <3>2, <4>1, <4>2, <1>c, SameAnswered DEF Send
    <3>3. CASE answer # "2xx"
      <4>1. \A q \in Passes : \/ attempt'[q][x].at = attempt[q][x].at
                              \/ attempt'[q][x].at # "succeed"
          BY <3>1, <3>3, <2>0 DEF AfterAnswer, Typed, TypeOK, Attempt
      <4> QED
          BY <2>2, <3>1, <3>3, <4>1, <1>c, SameAnswered DEF Send
    <3> QED
        BY <3>2, <3>3
  <2>3. CASE Succeed(p, d)
    <3>1. \A q \in Passes : \/ attempt'[q][x].at = attempt[q][x].at
                            \/ attempt'[q][x].at # "succeed"
        BY <2>3, <2>0 DEF Succeed, Typed, TypeOK, Attempt
    <3>2. \/ deliveries'[x].status = deliveries[x].status
          \/ attempt[p][x].at = "succeed"
        BY <2>3, <2>0, <1>t DEF Succeed, Written, Typed, TypeOK, Delivery
    <3> QED
        BY <2>3, <3>1, <3>2, <1>c, SameAnswered DEF Succeed, history
  <2>4. CASE Fail(p, d)
    <3>1. \A q \in Passes : \/ attempt'[q][x].at = attempt[q][x].at
                            \/ attempt'[q][x].at # "succeed"
        BY <2>4, <2>0 DEF Fail, Typed, TypeOK, Attempt
    <3>2. \/ deliveries'[x].status = deliveries[x].status
          \/ deliveries'[x].status # "delivered"
        BY <2>4, <2>0, <1>t DEF Fail, Written, Again, Typed, TypeOK, Delivery
    <3> QED
        BY <2>4, <3>1, <3>2, <1>c, SameAnswered DEF Fail
  <2>5. CASE HealthRead(p, d)
    <3>1. attempt' = [attempt EXCEPT ![p][d].at = "healthWrite",
                                     ![p][d].seen = hooks[HookOf(d)]]
          => \A q \in Passes : \/ attempt'[q][x].at = attempt[q][x].at
                               \/ attempt'[q][x].at # "succeed"
        BY <2>0 DEF Typed, TypeOK, Attempt
    <3> QED
        BY <2>5, <2>s, <3>1, <1>c, SameAnswered DEF HealthRead, history
  <2>6. CASE HealthWrite(p, d)
      BY <2>6, <2>s, <1>c, SameAnswered DEF HealthWrite, history
  <2>7. CASE StatementFails(p, d)
    <3>1. attempt' = [attempt EXCEPT ![p][d].at = "fail",
                                     ![p][d].caught = TRUE,
                                     ![p][d].seen = NoHook]
          => \A q \in Passes : \/ attempt'[q][x].at = attempt[q][x].at
                               \/ attempt'[q][x].at # "succeed"
        BY <2>0 DEF Typed, TypeOK, Attempt
    <3> QED
        BY <2>7, <2>s, <3>1, <1>c, SameAnswered DEF StatementFails, history
  <2> QED
      BY <1>6, <2>1, <2>2, <2>3, <2>4, <2>5, <2>6, <2>7 DEF Step
<1>7. ASSUME NEW h \in Hooks, EditRead(h) PROVE Answered(x)'
    BY <1>7, <1>c, SameAnswered DEF EditRead, history
<1>8. ASSUME NEW h \in Hooks, EditWrite(h) PROVE Answered(x)'
    BY <1>8, <1>c, SameAnswered DEF EditWrite, history
<1>9. ASSUME NEW h \in Hooks, Delete(h) PROVE Answered(x)'
  <2>1. \/ deliveries'[x].status = deliveries[x].status
        \/ deliveries'[x].status = "deleted"
      BY <1>9, <1>t DEF Delete, Delivery
  <2> QED
      BY <1>9, <2>1, <1>c, SameAnswered DEF Delete, history
<1>10. ASSUME Crash PROVE Answered(x)'
  <2>1. \A p \in Passes : attempt'[p][x] = Idle
      BY <1>10 DEF Crash
  <2> QED
      BY <1>10, <2>1, <1>i, <1>c, SameAnswered DEF Crash, history
<1>11. ASSUME UNCHANGED vars PROVE Answered(x)'
    BY <1>11, <1>c, SameAnswered DEF vars
<1> QED
    BY <1>1, <1>2, <1>3, <1>4, <1>5, <1>6, <1>7, <1>8, <1>9, <1>10, <1>11
    DEF Next

-----------------------------------------------------------------------------
(* Health.  Whatever copy of a hook a health update works from, the        *)
(* failures it counts were handled, and so were those still to be added.   *)

Owing(a) == a.at \in {"health", "healthWrite"} /\ ~a.ok

Healthy(h) ==
    /\ Behind(hooks[h], h)
    /\ \A p \in Passes, d \in Deliveries :
         HookOf(d) = h => Behind(attempt[p][d].seen, h)

LEMMA HealthyIsHealthInv ==
    Typed => ((\A h \in Hooks : Healthy(h)) <=> HealthInv)
<1>1. (\A h \in Hooks : Healthy(h)) <=>
        /\ \A h \in Hooks : Behind(hooks[h], h)
        /\ \A p \in Passes, d \in Deliveries : Behind(attempt[p][d].seen, HookOf(d))
    BY Rows DEF Healthy
<1> QED
    BY <1>1 DEF HealthInv, Typed

\* Sets of attempts are finite.
LEMMA Attempts ==
    ASSUME NEW T \in SUBSET (Passes \X Deliveries)
    PROVE  /\ IsFiniteSet(T)
           /\ Cardinality(T) \in Nat
           /\ \A U \in SUBSET T : Cardinality(U) \in Nat /\ Cardinality(U) <= Cardinality(T)
<1>1. IsFiniteSet(Passes \X (Events \X Hooks))
    BY FS_Product, WebhookAssumption DEF WebhookAssumption
<1>2. IsFiniteSet(T)
    BY <1>1, FS_Subset DEF Deliveries
<1>3. Cardinality(T) \in Nat
    BY <1>2, FS_CardinalityType
<1>4. \A U \in SUBSET T : IsFiniteSet(U) /\ Cardinality(U) <= Cardinality(T)
    BY <1>2, FS_Subset
<1>5. \A U \in SUBSET T : Cardinality(U) \in Nat
    BY <1>4, FS_CardinalityType
<1> QED
    BY <1>2, <1>3, <1>4, <1>5

\* Where nobody begins to owe a failure, and the hook and the copies of it are
\* among those there were, all is as well as before.
LEMMA SameHealthy ==
    ASSUME Typed, NEW h \in Hooks, Healthy(h),
           \A p \in Passes, d \in Deliveries : HookOf(d) = h =>
             /\ Owing(attempt'[p][d]) => Owing(attempt[p][d])
             /\ attempt'[p][d].seen \in {NoHook, attempt[p][d].seen, hooks[h]},
           misses'[h] = misses[h],
           ownerOff \subseteq ownerOff',
           hooks'[h] \in {NoHook, hooks[h]}
    PROVE  Healthy(h)'
<1>1. Uncounted(h)' \subseteq Uncounted(h)
    BY DEF Uncounted, Owing
<1>2. Uncounted(h) \in SUBSET (Passes \X Deliveries)
    BY DEF Uncounted
<1>3. /\ Cardinality(Uncounted(h)) \in Nat
      /\ Cardinality(Uncounted(h)') \in Nat
      /\ Cardinality(Uncounted(h)') <= Cardinality(Uncounted(h))
    BY <1>1, <1>2, Attempts
<1>4. ASSUME NEW hook \in Hook \cup {NoHook}, Behind(hook, h)
      PROVE  Behind(hook, h)'
  <2>1. hook # NoHook => hook.failures \in Nat
      BY DEF Hook
  <2>2. misses[h] \in Nat
      BY DEF Typed, TypeOK
  <2> QED
      BY <1>3, <1>4, <2>1, <2>2 DEF Behind
<1>5. Behind(NoHook, h)
    BY DEF Behind
<1>6. hooks'[h] \in Hook \cup {NoHook} /\ Behind(hooks'[h], h)
    BY <1>5 DEF Healthy, Typed, TypeOK
<1>7. Behind(hooks[h], h)'
    BY <1>4, <1>6
<1>8. ASSUME NEW p \in Passes, NEW d \in Deliveries, HookOf(d) = h
      PROVE  Behind(attempt[p][d].seen, h)'
  <2>1. attempt[p][d].seen \in Hook \cup {NoHook}
      BY DEF Typed, TypeOK, Attempt
  <2>2. attempt'[p][d].seen \in Hook \cup {NoHook} /\ Behind(attempt'[p][d].seen, h)
      BY <1>5, <1>8, <2>1 DEF Healthy, Typed, TypeOK
  <2> QED
      BY <1>4, <2>2
<1> QED
    BY <1>7, <1>8 DEF Healthy

\* A failure that is handled is one more behind every count.
LEMMA FailHealthy ==
    ASSUME Typed, NEW p \in Passes, NEW d \in Deliveries, Fail(p, d),
           Healthy(HookOf(d))
    PROVE  Healthy(HookOf(d))'
<1> DEFINE h == HookOf(d)
<1>h. h \in Hooks
    BY Rows
<1>0. attempt[p][d] \in Attempt
    BY DEF Typed, TypeOK
<1>1. \A q \in Passes, x \in Deliveries :
        /\ attempt'[q][x].seen = attempt[q][x].seen
        /\ Owing(attempt'[q][x]) => Owing(attempt[q][x]) \/ (q = p /\ x = d)
    BY <1>0 DEF Fail, Typed, TypeOK, Attempt, Owing
<1>2. Uncounted(h)' \subseteq Uncounted(h) \cup {<<p, d>>}
    BY <1>1 DEF Uncounted, Owing
<1>3. /\ Uncounted(h) \in SUBSET (Passes \X Deliveries)
      /\ Uncounted(h) \cup {<<p, d>>} \in SUBSET (Passes \X Deliveries)
    BY DEF Uncounted
<1>4. /\ Cardinality(Uncounted(h)) \in Nat
      /\ Cardinality(Uncounted(h)') \in Nat
      /\ Cardinality(Uncounted(h)') <= Cardinality(Uncounted(h)) + 1
  <2>1. IsFiniteSet(Uncounted(h))
      BY <1>3, Attempts
  <2>2. Cardinality(Uncounted(h) \cup {<<p, d>>}) \in
          {Cardinality(Uncounted(h)), Cardinality(Uncounted(h)) + 1}
      BY <2>1, FS_AddElement
  <2>3. /\ Cardinality(Uncounted(h)') \in Nat
        /\ Cardinality(Uncounted(h)') <= Cardinality(Uncounted(h) \cup {<<p, d>>})
      BY <1>2, <1>3, Attempts
  <2>4. Cardinality(Uncounted(h)) \in Nat
      BY <1>3, Attempts
  <2> QED
      BY <2>2, <2>3, <2>4
<1>5. misses[h] \in Nat /\ misses'[h] = misses[h] + 1
    BY <1>h DEF Fail, Typed, TypeOK
<1>6. hooks' = hooks /\ ownerOff' = ownerOff
    BY DEF Fail
<1>7. Threshold \in Nat
    BY WebhookAssumption DEF WebhookAssumption
<1>8. ASSUME NEW hook \in Hook \cup {NoHook}, Behind(hook, h)
      PROVE  Behind(hook, h)'
  <2>1. hook # NoHook => hook.failures \in Nat
      BY DEF Hook
  <2> QED
      BY <1>4, <1>5, <1>6, <1>7, <1>8, <2>1 DEF Behind
<1>9. Behind(hooks[h], h)'
    BY <1>6, <1>8, <1>h DEF Healthy, Typed, TypeOK
<1>10. ASSUME NEW q \in Passes, NEW x \in Deliveries, HookOf(x) = h
       PROVE  Behind(attempt[q][x].seen, h)'
  <2>1. attempt[q][x].seen \in Hook \cup {NoHook}
      BY DEF Typed, TypeOK, Attempt
  <2>2. attempt'[q][x].seen \in Hook \cup {NoHook} /\ Behind(attempt'[q][x].seen, h)
      BY <1>1, <1>10, <2>1 DEF Healthy
  <2> QED
      BY <1>8, <2>2
<1> QED
    BY <1>9, <1>10 DEF Healthy

\* A failure that is counted is owed no more.
LEMMA HealthWriteHealthy ==
    ASSUME Typed, NEW p \in Passes, NEW d \in Deliveries, HealthWrite(p, d),
           Healthy(HookOf(d))
    PROVE  Healthy(HookOf(d))'
<1> DEFINE h == HookOf(d)
           seen == attempt[p][d].seen
<1>h. h \in Hooks
    BY Rows
<1>0. /\ attempt[p][d] \in Attempt
      /\ seen \in Hook /\ seen.failures \in Nat
      /\ attempt[p][d].ok \in BOOLEAN
  <2>1. attempt[p][d] \in Attempt
      BY DEF Typed, TypeOK
  <2>2. seen # NoHook
      BY DEF Typed, HealthWrite
  <2> QED
      BY <2>1, <2>2 DEF Attempt, Hook
<1>1. \A q \in Passes, x \in Deliveries :
        attempt'[q][x] = IF q = p /\ x = d THEN Idle ELSE attempt[q][x]
    BY DEF HealthWrite, Stop, Typed, TypeOK
<1>2. ~Owing(Idle) /\ Idle.seen = NoHook
    BY DEF Owing, Idle
<1>3. misses' = misses /\ ownerOff' = ownerOff
    BY DEF HealthWrite, history
<1>4. Uncounted(h)' \subseteq Uncounted(h) \ {<<p, d>>}
  <2> SUFFICES ASSUME NEW a \in Uncounted(h)'
               PROVE  a \in Uncounted(h) \ {<<p, d>>}
      OBVIOUS
  <2>1. /\ a \in Passes \X Deliveries
        /\ HookOf(a[2]) = h
        /\ Owing(attempt'[a[1]][a[2]])
      BY DEF Uncounted, Owing
  <2>2. ~(a[1] = p /\ a[2] = d)
      BY <1>1, <1>2, <2>1
  <2>3. Owing(attempt[a[1]][a[2]])
      BY <1>1, <2>1, <2>2
  <2> QED
      BY <2>1, <2>2, <2>3 DEF Uncounted, Owing
<1>5. Uncounted(h) \in SUBSET (Passes \X Deliveries)
    BY DEF Uncounted
<1>6. /\ Cardinality(Uncounted(h)) \in Nat
      /\ Cardinality(Uncounted(h)') \in Nat
      /\ Cardinality(Uncounted(h)') <= Cardinality(Uncounted(h))
    BY <1>4, <1>5, Attempts
<1>7. ASSUME ~attempt[p][d].ok
      PROVE  Cardinality(Uncounted(h)') + 1 <= Cardinality(Uncounted(h))
  <2>1. <<p, d>> \in Uncounted(h)
      BY <1>7 DEF Uncounted, HealthWrite
  <2>2. Cardinality(Uncounted(h) \ {<<p, d>>}) = Cardinality(Uncounted(h)) - 1
      BY <1>5, <2>1, Attempts, FS_RemoveElement
  <2>3. Uncounted(h) \ {<<p, d>>} \in SUBSET (Passes \X Deliveries)
      BY <1>5
  <2>4. Cardinality(Uncounted(h)') <= Cardinality(Uncounted(h) \ {<<p, d>>})
      BY <1>4, <2>3, Attempts
  <2> QED
      BY <1>6, <2>2, <2>4
<1>8. misses[h] \in Nat /\ Threshold \in Nat
    BY <1>h, WebhookAssumption DEF WebhookAssumption, Typed, TypeOK
<1>9. ASSUME NEW hook \in Hook \cup {NoHook}, Behind(hook, h)
      PROVE  Behind(hook, h)'
  <2>1. hook # NoHook => hook.failures \in Nat
      BY DEF Hook
  <2> QED
      BY <1>3, <1>6, <1>8, <1>9, <2>1 DEF Behind
<1>10. Behind(seen, h) /\ seen # NoHook
  <2>1. seen # NoHook
      BY DEF Typed, HealthWrite
  <2> QED
      BY <2>1 DEF Healthy
<1>11. Behind(hooks[h], h)'
  <2>1. CASE hooks[h] = NoHook
    <3>1. hooks'[h] = NoHook
        BY <2>1 DEF HealthWrite
    <3> QED
        BY <3>1 DEF Behind
  <2>2. CASE hooks[h] # NoHook
    <3>1. hooks'[h] = Health(hooks[h], seen, attempt[p][d].ok)
        BY <2>2, <1>h DEF HealthWrite, Typed, TypeOK
    <3>2. hooks[h] \in Hook /\ hooks[h].failures \in Nat /\ Behind(hooks[h], h)
        BY <2>2, <1>h DEF Healthy, Typed, TypeOK, Hook
    <3>3. CASE attempt[p][d].ok
      <4>1. hooks'[h].failures = 0 /\ hooks'[h].status = hooks[h].status
          BY <3>1, <3>2, <3>3 DEF Health, Hook
      <4>2. /\ Cardinality(Uncounted(h)) <= misses[h]
            /\ hooks[h].status = "disabled" /\ h \notin ownerOff => misses[h] >= Threshold
          BY <2>2, <3>2, <1>6, <1>8 DEF Behind
      <4> QED
          BY <4>1, <4>2, <1>3, <1>6, <1>8 DEF Behind
    <3>4. CASE ~attempt[p][d].ok
      <4>1. /\ hooks'[h].failures = seen.failures + 1
            /\ hooks'[h].status = "disabled" =>
                 seen.failures + 1 >= Threshold \/ seen.status = "disabled"
          BY <3>1, <3>4 DEF Health
      <4>2. /\ seen.failures + Cardinality(Uncounted(h)) <= misses[h]
            /\ seen.status = "disabled" /\ h \notin ownerOff => misses[h] >= Threshold
          BY <1>10 DEF Behind
      <4>3. /\ seen.failures + 1 + Cardinality(Uncounted(h)') <= misses[h]
            /\ seen.failures + 1 <= misses[h]
          BY <4>2, <1>0, <1>6, <1>7, <1>8, <3>4
      <4> QED
          BY <4>1, <4>2, <4>3, <1>0, <1>3, <1>8 DEF Behind
    <3> QED
        BY <3>3, <3>4
  <2> QED
      BY <2>1, <2>2
<1>12. ASSUME NEW q \in Passes, NEW x \in Deliveries, HookOf(x) = h
       PROVE  Behind(attempt[q][x].seen, h)'
  <2>1. attempt[q][x].seen \in Hook \cup {NoHook} /\ Behind(attempt[q][x].seen, h)
      BY <1>12 DEF Healthy, Typed, TypeOK, Attempt
  <2>2. CASE q = p /\ x = d
      BY <2>2, <1>1, <1>2 DEF Behind
  <2>3. CASE ~(q = p /\ x = d)
    <3>1. attempt'[q][x].seen = attempt[q][x].seen
        BY <2>3, <1>1
    <3>2. Behind(attempt'[q][x].seen, h)
        BY <2>1, <3>1
    <3>3. attempt'[q][x].seen \in Hook \cup {NoHook}
        BY <2>1, <3>1
    <3> QED
        BY <1>9, <3>2, <3>3
  <2> QED
      BY <2>2, <2>3
<1> QED
    BY <1>11, <1>12 DEF Healthy

\* The owner's edit keeps the count or resets it, and disables what is then a
\* hook the owner has disabled.
LEMMA EditWriteHealthy ==
    ASSUME Typed, NEW g \in Hooks, EditWrite(g), NEW h \in Hooks, Healthy(h)
    PROVE  Healthy(h)'
<1>1. attempt' = attempt /\ misses' = misses /\ ownerOff \subseteq ownerOff'
    BY DEF EditWrite, history
<1>2. CASE hooks'[h] = hooks[h]
  <2>1. hooks'[h] \in {NoHook, hooks[h]}
      BY <1>2
  <2> QED
      BY <1>1, <2>1, SameHealthy
<1>3. CASE hooks'[h] # hooks[h]
  <2>1. h = g /\ hooks[h] # NoHook
      BY <1>3 DEF EditWrite, Typed, TypeOK
  <2>2. PICK status \in {"active", "paused", "disabled"} :
          /\ hooks' = [hooks EXCEPT ![h] =
               [status |-> status,
                failures |-> IF /\ status = "active"
                                /\ edit[h].status = "disabled"
                             THEN 0 ELSE @.failures]]
          /\ ownerOff' = IF status = "disabled" THEN ownerOff \cup {h} ELSE ownerOff
      BY <2>1 DEF EditWrite
  <2>3. /\ hooks'[h].failures \in {0, hooks[h].failures}
        /\ hooks'[h].status = "disabled" => h \in ownerOff'
      BY <2>2 DEF Typed, TypeOK
  <2>4. Uncounted(h)' = Uncounted(h)
      BY <1>1 DEF Uncounted
  <2>5. Cardinality(Uncounted(h)) \in Nat
      BY Attempts DEF Uncounted
  <2>6. hooks[h].failures \in Nat /\ misses[h] \in Nat
      BY <2>1 DEF Typed, TypeOK, Hook
  <2>7. hooks[h].failures + Cardinality(Uncounted(h)) <= misses[h]
      BY <2>1 DEF Healthy, Behind
  <2>8. Behind(hooks[h], h)'
      BY <1>1, <2>3, <2>4, <2>5, <2>6, <2>7 DEF Behind
  <2>9. ASSUME NEW p \in Passes, NEW d \in Deliveries, HookOf(d) = h
        PROVE  Behind(attempt[p][d].seen, h)'
    <3>1. Behind(attempt[p][d].seen, h)
        BY <2>9 DEF Healthy
    <3> QED
        BY <1>1, <2>4, <3>1 DEF Behind
  <2> QED
      BY <2>8, <2>9 DEF Healthy
<1> QED
    BY <1>2, <1>3

LEMMA NextHealthy ==
    Typed /\ (\A h \in Hooks : Healthy(h)) /\ [Next]_vars
      => (\A h \in Hooks : Healthy(h))'
<1> SUFFICES ASSUME Typed, \A h \in Hooks : Healthy(h), [Next]_vars,
                    NEW h \in Hooks
             PROVE  Healthy(h)'
    OBVIOUS
<1>c. Healthy(h)
    OBVIOUS
<1>i. ~Owing(Idle) /\ Idle.seen = NoHook
    BY DEF Owing, Idle
<1>h. hooks[h] \in {NoHook, hooks[h]}
    OBVIOUS
<1>s. ASSUME attempt' = attempt, misses' = misses, ownerOff' = ownerOff,
             hooks' = hooks
      PROVE  Healthy(h)'
    BY <1>s, <1>c, SameHealthy
<1>1. ASSUME NEW e \in Events, Emit(e) PROVE Healthy(h)'
    BY <1>1, <1>s DEF Emit, history
<1>2. ASSUME NEW e \in Events, Queue(e) PROVE Healthy(h)'
    BY <1>2, <1>s DEF Queue, history
<1>3. ASSUME NEW e \in Events, QueueFails(e) PROVE Healthy(h)'
    BY <1>3, <1>s DEF QueueFails, history
<1>4. ASSUME NEW d \in Deliveries, ComesDue(d) PROVE Healthy(h)'
    BY <1>4, <1>s DEF ComesDue, history
<1>5. ASSUME NEW p \in Passes, Select(p) PROVE Healthy(h)'
  <2>1. PICK batch \in SUBSET Ready :
          attempt' = [attempt EXCEPT ![p] = [d \in Deliveries |->
                        IF d \in batch
                        THEN [Idle EXCEPT !.at = "mark", !.number = Number(d)]
                        ELSE Idle]]
      BY <1>5 DEF Select
  <2>2. \A q \in Passes, d \in Deliveries :
          \/ attempt'[q][d] = attempt[q][d]
          \/ attempt'[q][d] = Idle
          \/ attempt'[q][d].at = "mark" /\ attempt'[q][d].seen = NoHook
      BY <2>1 DEF Typed, TypeOK, Idle
  <2>3. \A q \in Passes, d \in Deliveries :
          /\ Owing(attempt'[q][d]) => Owing(attempt[q][d])
          /\ attempt'[q][d].seen \in {NoHook, attempt[q][d].seen, hooks[h]}
      BY <2>2, <1>i DEF Owing
  <2>4. hooks' = hooks /\ misses' = misses /\ ownerOff' = ownerOff
      BY <1>5 DEF Select, history
  <2> QED
      BY <2>3, <2>4, <1>c, SameHealthy
<1>6. ASSUME NEW p \in Passes, NEW d \in Deliveries, Step(p, d)
      PROVE  Healthy(h)'
  <2>0. attempt[p][d] \in Attempt
      BY DEF Typed, TypeOK
  <2>a. ASSUME NEW a \in Attempt, attempt' = [attempt EXCEPT ![p][d] = a],
               Owing(a) => Owing(attempt[p][d]),
               HookOf(d) = h => a.seen \in {NoHook, attempt[p][d].seen, hooks[h]},
               misses' = misses, ownerOff' = ownerOff, hooks' = hooks
        PROVE  Healthy(h)'
    <3>1. \A q \in Passes, x \in Deliveries :
            attempt'[q][x] = IF q = p /\ x = d THEN a ELSE attempt[q][x]
        BY <2>a DEF Typed, TypeOK
    <3>2. \A q \in Passes, x \in Deliveries : HookOf(x) = h =>
            /\ Owing(attempt'[q][x]) => Owing(attempt[q][x])
            /\ attempt'[q][x].seen \in {NoHook, attempt[q][x].seen, hooks[h]}
        BY <2>a, <3>1
    <3> QED
        BY <2>a, <3>2, <1>c, SameHealthy
  <2>1. CASE Mark(p, d)
    <3>0. hooks' = hooks /\ misses' = misses /\ ownerOff' = ownerOff
        BY <2>1 DEF Mark, history
    <3>1. CASE Stop(p, d)
        BY <3>0, <3>1, <2>a, <1>i, IdleType DEF Stop
    <3>2. CASE Goto(p, d, "send")
      <4> DEFINE a == [attempt[p][d] EXCEPT !.at = "send"]
      <4>1. a \in Attempt /\ ~Owing(a) /\ a.seen = attempt[p][d].seen
          BY <2>0 DEF Attempt, Owing
      <4>2. attempt' = [attempt EXCEPT ![p][d] = a]
          BY <3>2 DEF Goto
      <4> QED
          BY <3>0, <4>1, <4>2, <2>a
    <3> QED
        BY <2>1, <3>1, <3>2 DEF Mark
  <2>2. CASE Send(p, d)
    <3>0. hooks' = hooks /\ misses' = misses /\ ownerOff' = ownerOff
        BY <2>2 DEF Send
    <3>1. PICK answer \in {"2xx", "other", "none"} :
            attempt' = [attempt EXCEPT ![p][d].at = AfterAnswer(answer),
                                       ![p][d].caught = (answer = "none")]
        BY <2>2 DEF Send
    <3> DEFINE a == [attempt[p][d] EXCEPT !.at = AfterAnswer(answer),
                                          !.caught = (answer = "none")]
    <3>2. a \in Attempt /\ ~Owing(a) /\ a.seen = attempt[p][d].seen
        BY <2>0 DEF Attempt, AfterAnswer, Owing
    <3>3. attempt' = [attempt EXCEPT ![p][d] = a]
        BY <3>1
    <3> QED
        BY <3>0, <3>2, <3>3, <2>a
  <2>3. CASE Succeed(p, d)
    <3>0. hooks' = hooks /\ misses' = misses /\ ownerOff' = ownerOff
        BY <2>3 DEF Succeed, history
    <3> DEFINE a == [attempt[p][d] EXCEPT !.at = "health", !.ok = TRUE]
    <3>1. a \in Attempt /\ ~Owing(a) /\ a.seen = attempt[p][d].seen
        BY <2>0 DEF Attempt, Owing
    <3>2. attempt' = [attempt EXCEPT ![p][d] = a]
        BY <2>3 DEF Succeed
    <3> QED
        BY <3>0, <3>1, <3>2, <2>a
  <2>4. CASE Fail(p, d)
    <3>1. CASE HookOf(d) = h
        BY <2>4, <3>1, <1>c, FailHealthy
    <3>2. CASE HookOf(d) # h
      <4>1. \A q \in Passes, x \in Deliveries : HookOf(x) = h =>
              attempt'[q][x] = attempt[q][x]
          BY <2>4, <3>2 DEF Fail, Typed, TypeOK
      <4>2. misses'[h] = misses[h] /\ hooks' = hooks /\ ownerOff' = ownerOff
          BY <2>4, <3>2 DEF Fail, Typed, TypeOK
      <4> QED
          BY <4>1, <4>2, <1>c, SameHealthy
    <3> QED
        BY <3>1, <3>2
  <2>5. CASE HealthRead(p, d)
    <3>0. hooks' = hooks /\ misses' = misses /\ ownerOff' = ownerOff
        BY <2>5 DEF HealthRead, history
    <3>1. CASE Stop(p, d)
        BY <3>0, <3>1, <2>a, <1>i, IdleType DEF Stop
    <3>2. CASE attempt' = [attempt EXCEPT ![p][d].at = "healthWrite",
                                          ![p][d].seen = hooks[HookOf(d)]]
      <4> DEFINE a == [attempt[p][d] EXCEPT !.at = "healthWrite",
                                            !.seen = hooks[HookOf(d)]]
      <4>1. a \in Attempt
          BY <2>0, Rows DEF Attempt, Typed, TypeOK
      <4>2. a.ok = attempt[p][d].ok /\ a.seen = hooks[HookOf(d)]
          BY <2>0 DEF Attempt
      <4>3. Owing(a) => Owing(attempt[p][d])
        <5>1. attempt[p][d].at = "health"
            BY <2>5 DEF HealthRead
        <5> QED
            BY <4>2, <5>1 DEF Owing
      <4>4. attempt' = [attempt EXCEPT ![p][d] = a]
          BY <3>2
      <4> QED
          BY <3>0, <4>1, <4>2, <4>3, <4>4, <2>a
    <3> QED
        BY <2>5, <3>1, <3>2 DEF HealthRead
  <2>6. CASE HealthWrite(p, d)
    <3>1. CASE HookOf(d) = h
        BY <2>6, <3>1, <1>c, HealthWriteHealthy
    <3>2. CASE HookOf(d) # h
      <4>1. \A q \in Passes, x \in Deliveries : HookOf(x) = h =>
              attempt'[q][x] = attempt[q][x]
          BY <2>6, <3>2 DEF HealthWrite, Stop, Typed, TypeOK
      <4>2. misses' = misses /\ hooks'[h] = hooks[h] /\ ownerOff' = ownerOff
          BY <2>6, <3>2 DEF HealthWrite, history, Typed, TypeOK
      <4> QED
          BY <4>1, <4>2, <1>c, SameHealthy
    <3> QED
        BY <3>1, <3>2
  <2>7. CASE StatementFails(p, d)
    <3>0. hooks' = hooks /\ misses' = misses /\ ownerOff' = ownerOff
        BY <2>7 DEF StatementFails, history
    <3>1. CASE Stop(p, d)
        BY <3>0, <3>1, <2>a, <1>i, IdleType DEF Stop
    <3>2. CASE attempt' = [attempt EXCEPT ![p][d].at = "fail",
                                          ![p][d].caught = TRUE,
                                          ![p][d].seen = NoHook]
      <4> DEFINE a == [attempt[p][d] EXCEPT !.at = "fail", !.caught = TRUE,
                                            !.seen = NoHook]
      <4>1. a \in Attempt /\ ~Owing(a) /\ a.seen = NoHook
          BY <2>0 DEF Attempt, Owing
      <4>2. attempt' = [attempt EXCEPT ![p][d] = a]
          BY <3>2
      <4> QED
          BY <3>0, <4>1, <4>2, <2>a
    <3> QED
        BY <2>7, <3>1, <3>2 DEF StatementFails
  <2> QED
      BY <1>6, <2>1, <2>2, <2>3, <2>4, <2>5, <2>6, <2>7 DEF Step
<1>7. ASSUME NEW g \in Hooks, EditRead(g) PROVE Healthy(h)'
    BY <1>7, <1>s DEF EditRead, history
<1>8. ASSUME NEW g \in Hooks, EditWrite(g) PROVE Healthy(h)'
    BY <1>8, <1>c, EditWriteHealthy
<1>9. ASSUME NEW g \in Hooks, Delete(g) PROVE Healthy(h)'
  <2>1. attempt' = attempt /\ misses' = misses /\ ownerOff' = ownerOff
      BY <1>9 DEF Delete, history
  <2>2. hooks'[h] \in {NoHook, hooks[h]}
      BY <1>9 DEF Delete, Typed, TypeOK
  <2> QED
      BY <2>1, <2>2, <1>c, SameHealthy
<1>10. ASSUME Crash PROVE Healthy(h)'
  <2>1. \A p \in Passes, d \in Deliveries : attempt'[p][d] = Idle
      BY <1>10 DEF Crash
  <2>2. hooks' = hooks /\ misses' = misses /\ ownerOff' = ownerOff
      BY <1>10 DEF Crash, history
  <2> QED
      BY <2>1, <2>2, <1>i, <1>c, SameHealthy
<1>11. ASSUME UNCHANGED vars PROVE Healthy(h)'
    BY <1>11, <1>s DEF vars
<1> QED
    BY <1>1, <1>2, <1>3, <1>4, <1>5, <1>6, <1>7, <1>8, <1>9, <1>10, <1>11
    DEF Next

-----------------------------------------------------------------------------
(* The invariant and its consequences.                                     *)

LEMMA Parts ==
    Typed => ( /\ \A d \in Deliveries : Counted(d)
               /\ \A d \in Deliveries : Answered(d)
               /\ \A h \in Hooks : Healthy(h)
             => WebhookInv )
<1> SUFFICES ASSUME Typed,
                    \A d \in Deliveries : Counted(d),
                    \A d \in Deliveries : Answered(d),
                    \A h \in Hooks : Healthy(h)
             PROVE  WebhookInv
    OBVIOUS
<1>1. CountInv /\ GivenUpLate
    BY CountedIsCountInv
<1>2. AcceptInv /\ DeliveredWasAccepted
    BY AnsweredIsAcceptInv
<1>3. HealthInv
    BY HealthyIsHealthInv
<1>4. DisabledByFailures
    BY <1>3 DEF HealthInv, Behind, DisabledByFailures
<1> QED
    BY <1>1, <1>2, <1>3, <1>4 DEF WebhookInv, Typed

LEMMA PartsOf ==
    WebhookInv => /\ Typed
                  /\ \A d \in Deliveries : Counted(d)
                  /\ \A d \in Deliveries : Answered(d)
                  /\ \A h \in Hooks : Healthy(h)
<1> SUFFICES ASSUME WebhookInv
             PROVE  /\ Typed
                    /\ \A d \in Deliveries : Counted(d)
                    /\ \A d \in Deliveries : Answered(d)
                    /\ \A h \in Hooks : Healthy(h)
    OBVIOUS
<1>1. Typed
    BY DEF WebhookInv, HealthInv, Typed
<1>2. \A d \in Deliveries : Counted(d)
    BY CountedIsCountInv DEF WebhookInv
<1>3. \A d \in Deliveries : Answered(d)
    BY AnsweredIsAcceptInv DEF WebhookInv
<1>4. \A h \in Hooks : Healthy(h)
    BY <1>1, HealthyIsHealthInv DEF WebhookInv
<1> QED
    BY <1>1, <1>2, <1>3, <1>4

LEMMA InitInv == Init => WebhookInv
<1> SUFFICES ASSUME Init PROVE WebhookInv
    OBVIOUS
<1>1. Typed
    BY InitTyped
<1>2. \A d \in Deliveries : Counted(d)
    BY WebhookAssumption DEF Init, Counted, Idle, WebhookAssumption
<1>3. \A d \in Deliveries : Answered(d)
    BY DEF Init, Answered, Idle
<1>4. \A h \in Hooks : Healthy(h)
  <2> SUFFICES ASSUME NEW h \in Hooks PROVE Healthy(h)
      OBVIOUS
  <2>1. Uncounted(h) = {}
      BY DEF Init, Uncounted, Idle
  <2>2. Cardinality(Uncounted(h)) = 0
      BY <2>1, FS_EmptySet
  <2>3. Behind(hooks[h], h)
      BY <2>2 DEF Behind, Init
  <2>4. \A p \in Passes, d \in Deliveries : attempt[p][d].seen = NoHook
      BY DEF Init, Idle
  <2> QED
      BY <2>3, <2>4 DEF Healthy, Behind
<1> QED
    BY <1>1, <1>2, <1>3, <1>4, Parts

LEMMA NextInv == WebhookInv /\ [Next]_vars => WebhookInv'
<1> SUFFICES ASSUME WebhookInv, [Next]_vars PROVE WebhookInv'
    OBVIOUS
<1>0. /\ Typed
      /\ \A d \in Deliveries : Counted(d)
      /\ \A d \in Deliveries : Answered(d)
      /\ \A h \in Hooks : Healthy(h)
    BY PartsOf
<1>1. Typed'
    BY <1>0, NextTyped
<1>2. (\A d \in Deliveries : Counted(d))'
    BY <1>0, NextCounted
<1>3. (\A d \in Deliveries : Answered(d))'
    BY <1>0, NextAnswered
<1>4. (\A h \in Hooks : Healthy(h))'
    BY <1>0, NextHealthy
<1>5. (Typed => ( /\ \A d \in Deliveries : Counted(d)
                  /\ \A d \in Deliveries : Answered(d)
                  /\ \A h \in Hooks : Healthy(h)
                => WebhookInv ))'
    BY Parts, PTL
<1> QED
    BY <1>1, <1>2, <1>3, <1>4, <1>5

\* WebhookInv is an invariant of webhook delivery (server/webhook-service.ts).
THEOREM Webhooks == Spec => []WebhookInv
<1> QED
    BY InitInv, NextInv, PTL DEF Spec

\* handleDeliveryFailure gives no delivery up before MaxAttempts failures of it
\* were handled, however many passes overlap.
THEOREM GivingUp == Spec => []GivenUpLate
<1>1. WebhookInv => GivenUpLate
    BY DEF WebhookInv
<1> QED
    BY <1>1, Webhooks, PTL

\* updateWebhookHealth disables no hook, that its owner has never disabled,
\* before Threshold failures were handled, whatever health updates and edits
\* overwrite each other.
THEOREM Disabling == Spec => []DisabledByFailures
<1>1. WebhookInv => DisabledByFailures
    BY DEF WebhookInv
<1> QED
    BY <1>1, Webhooks, PTL

\* markDeliverySuccess records no delivery that was not answered with 2xx.
THEOREM Delivering == Spec => []DeliveredWasAccepted
<1>1. WebhookInv => DeliveredWasAccepted
    BY DEF WebhookInv
<1> QED
    BY <1>1, Webhooks, PTL

=============================================================================
