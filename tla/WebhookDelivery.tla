--------------------------- MODULE WebhookDelivery ---------------------------
(***************************************************************************)
(* Delivery of webhook events (server/webhook-service.ts).  An event gives *)
(* every hook subscribed to it a row in webhook_deliveries.  Passes over   *)
(* the rows that are due (processWebhookDeliveries) start when an event is *)
(* emitted and every minute, whether or not earlier passes have ended, and *)
(* attempt the rows they selected in parallel, each attempt by the copy of *)
(* the row its pass has read.  The owner of a hook edits and deletes it    *)
(* meanwhile (server/webhook-routes.ts).  Every hook here is subscribed to *)
(* every event.                                                            *)
(*                                                                         *)
(* The clock is left out: a row that failed comes due at some time.  An    *)
(* attempt may outlast that time, because the timeout of 10 seconds ends   *)
(* with the headers of the answer.                                         *)
(*                                                                         *)
(* Where two operators with the same parameters stand one above the other, *)
(* the first is a fault the second must not have; no action uses it.       *)
(***************************************************************************)
EXTENDS Integers, FiniteSets

CONSTANTS
    Hooks,
    Events,
    Passes,         \* bound: passes that run at the same time
    NoHook,         \* a hook that was deleted, or has not been read
    MaxAttempts,    \* webhook_deliveries.max_attempts
    Threshold,      \* webhooks.auto_disable_threshold
    BatchSize,      \* LIMIT of a pass
    Unreadable,     \* hooks whose encrypted secret cannot be decrypted
    MaxEdits,       \* bound on the edits of the hooks' owners
    MaxFaults       \* bound on crashes and failed statements, together

Deliveries == Events \X Hooks
HookOf(d) == d[2]

Hook == [status : {"active", "paused", "disabled"}, failures : Nat]
Delivery == [status : {"none", "pending", "processing", "delivered", "failed",
                       "exhausted", "deleted"},
             attempts : Nat, due : BOOLEAN]
Attempt == [at : {"idle", "mark", "send", "succeed", "fail", "health",
                  "healthWrite"},
            number : Nat, ok : BOOLEAN, caught : BOOLEAN,
            seen : Hook \cup {NoHook}]

ASSUME WebhookAssumption ==
    /\ IsFiniteSet(Hooks) /\ IsFiniteSet(Events) /\ IsFiniteSet(Passes)
    /\ NoHook \notin Hook
    /\ MaxAttempts \in Nat \ {0}
    /\ Threshold \in Nat \ {0}
    /\ BatchSize \in Nat \ {0}
    /\ Unreadable \subseteq Hooks
    /\ MaxEdits \in Nat
    /\ MaxFaults \in Nat

VARIABLES
    hooks,       \* the webhooks table
    deliveries,  \* the webhook_deliveries table
    emitting,    \* emitting[e]: the hooks event e has still to be queued for
    attempt,     \* attempt[p][d]: where pass p is with delivery d
    edit,        \* edit[h]: the hook as the owner's PATCH has read it
    accepted,    \* history: deliveries a hook answered with 2xx
    fails,       \* history: fails[d]: failures handled for d
    misses,      \* history: misses[h]: failures handled for h
    ownerOff,    \* history: hooks their owner has disabled at some time
    edits,       \* how many edits there were
    faults       \* how many crashes and failed statements there were

history == <<accepted, fails, misses>>
vars == <<hooks, deliveries, emitting, attempt, edit, accepted, fails, misses,
          ownerOff, edits, faults>>

Idle == [at |-> "idle", number |-> 0, ok |-> FALSE, caught |-> FALSE,
         seen |-> NoHook]

Init ==
    /\ hooks = [h \in Hooks |-> [status |-> "active", failures |-> 0]]
    /\ deliveries = [d \in Deliveries |->
                       [status |-> "none", attempts |-> 0, due |-> FALSE]]
    /\ emitting = [e \in Events |-> {}]
    /\ attempt = [p \in Passes |-> [d \in Deliveries |-> Idle]]
    /\ edit = [h \in Hooks |-> NoHook]
    /\ accepted = {}
    /\ fails = [d \in Deliveries |-> 0]
    /\ misses = [h \in Hooks |-> 0]
    /\ ownerOff = {}
    /\ edits = 0
    /\ faults = 0

-----------------------------------------------------------------------------
(* emitWebhookEvent.                                                       *)

Fresh(e) == \A h \in Hooks : deliveries[<<e, h>>].status = "none"

Active(h) == hooks[h] # NoHook /\ hooks[h].status = "active"

\* The active hooks are read once ...
Emit(e) ==
    /\ Fresh(e)
    /\ emitting[e] = {}
    /\ emitting' = [emitting EXCEPT ![e] = {h \in Hooks : Active(h)}]
    /\ UNCHANGED <<hooks, deliveries, attempt, edit, history, ownerOff, edits,
                   faults>>

\* ... and get their rows one by one.
Queue(e) ==
    \E h \in emitting[e] :
      /\ hooks[h] # NoHook
      /\ emitting' = [emitting EXCEPT ![e] = @ \ {h}]
      /\ deliveries' = [deliveries EXCEPT ![<<e, h>>] =
           [status |-> "pending", attempts |-> 0, due |-> TRUE]]
      /\ UNCHANGED <<hooks, attempt, edit, history, ownerOff, edits, faults>>

\* An insert that fails, as it does for a hook deleted meanwhile, ends the
\* emission for the hooks that remain.
QueueFails(e) ==
    /\ emitting[e] # {}
    /\ \/ /\ \E h \in emitting[e] : hooks[h] = NoHook
          /\ UNCHANGED faults
       \/ /\ faults < MaxFaults
          /\ faults' = faults + 1
    /\ emitting' = [emitting EXCEPT ![e] = {}]
    /\ UNCHANGED <<hooks, deliveries, attempt, edit, history, ownerOff, edits>>

-----------------------------------------------------------------------------
(* processWebhookDeliveries and attemptDelivery.                           *)

\* Fault: failed rows are not selected.
ReadyPending == {d \in Deliveries : /\ deliveries[d].status = "pending"
                                    /\ deliveries[d].due}

\* The rows to attempt.
Ready == {d \in Deliveries : /\ deliveries[d].status \in {"pending", "failed"}
                             /\ deliveries[d].due}

ComesDue(d) ==
    /\ deliveries[d].status = "failed"
    /\ ~deliveries[d].due
    /\ deliveries' = [deliveries EXCEPT ![d].due = TRUE]
    /\ UNCHANGED <<hooks, emitting, attempt, edit, history, ownerOff, edits,
                   faults>>

\* The number of an attempt, from the copy of the row the pass has read.
Number(d) == deliveries[d].attempts + 1

\* A pass reads the rows that are due, up to the limit.
Select(p) ==
    /\ \A d \in Deliveries : attempt[p][d].at = "idle"
    /\ \E batch \in SUBSET Ready :
         /\ batch # {}
         /\ batch = Ready \/ Cardinality(batch) = BatchSize
         /\ Cardinality(batch) <= BatchSize
         /\ attempt' = [attempt EXCEPT ![p] = [d \in Deliveries |->
                          IF d \in batch
                          THEN [Idle EXCEPT !.at = "mark", !.number = Number(d)]
                          ELSE Idle]]
    /\ UNCHANGED <<hooks, deliveries, emitting, edit, history, ownerOff, edits,
                   faults>>

Goto(p, d, step) == attempt' = [attempt EXCEPT ![p][d].at = step]
Stop(p, d) == attempt' = [attempt EXCEPT ![p][d] = Idle]

\* An UPDATE of a row that is gone updates nothing.
Written(d, columns) ==
    deliveries' = IF deliveries[d].status = "deleted" THEN deliveries
                  ELSE [deliveries EXCEPT ![d] = columns]

\* Where an attempt goes on once it is marked: nowhere, if the secret of the
\* hook cannot be decrypted.
Mark(p, d) ==
    LET number == attempt[p][d].number
    IN /\ attempt[p][d].at = "mark"
       /\ Written(d, [deliveries[d] EXCEPT !.status = "processing",
                                           !.attempts = number])
       /\ IF HookOf(d) \in Unreadable THEN Stop(p, d) ELSE Goto(p, d, "send")
       /\ UNCHANGED <<hooks, emitting, edit, history, ownerOff, edits, faults>>

\* Where the attempt goes on after the answer (response.ok).
AfterAnswer(answer) == IF answer = "2xx" THEN "succeed" ELSE "fail"

\* The hook answers, or fetch throws, which the catch handles.
Send(p, d) ==
    /\ attempt[p][d].at = "send"
    /\ \E answer \in {"2xx", "other", "none"} :
         /\ accepted' = IF answer = "2xx" THEN accepted \cup {d} ELSE accepted
         /\ attempt' = [attempt EXCEPT ![p][d].at = AfterAnswer(answer),
                                       ![p][d].caught = (answer = "none")]
    /\ UNCHANGED <<hooks, deliveries, emitting, edit, fails, misses, ownerOff,
                   edits, faults>>

\* markDeliverySuccess.
Succeed(p, d) ==
    /\ attempt[p][d].at = "succeed"
    /\ Written(d, [deliveries[d] EXCEPT !.status = "delivered"])
    /\ attempt' = [attempt EXCEPT ![p][d].at = "health", ![p][d].ok = TRUE]
    /\ UNCHANGED <<hooks, emitting, edit, history, ownerOff, edits, faults>>

\* Fault: one attempt less.
ExhaustedEarly(number) == number + 1 >= MaxAttempts

Exhausted(number) == number >= MaxAttempts

\* The row after a failure that is not the last.
Again(d) == [deliveries[d] EXCEPT !.status = "failed", !.due = FALSE]

\* handleDeliveryFailure.
Fail(p, d) ==
    /\ attempt[p][d].at = "fail"
    /\ Written(d, IF Exhausted(attempt[p][d].number)
                  THEN [deliveries[d] EXCEPT !.status = "exhausted"]
                  ELSE Again(d))
    /\ fails' = [fails EXCEPT ![d] = @ + 1]
    /\ misses' = [misses EXCEPT ![HookOf(d)] = @ + 1]
    /\ attempt' = [attempt EXCEPT ![p][d].at = "health", ![p][d].ok = FALSE]
    /\ UNCHANGED <<hooks, emitting, edit, accepted, ownerOff, edits, faults>>

\* updateWebhookHealth reads the hook ...
HealthRead(p, d) ==
    LET h == HookOf(d)
    IN /\ attempt[p][d].at = "health"
       /\ IF hooks[h] = NoHook
          THEN Stop(p, d)
          ELSE attempt' = [attempt EXCEPT ![p][d].at = "healthWrite",
                                          ![p][d].seen = hooks[h]]
       /\ UNCHANGED <<hooks, deliveries, emitting, edit, history, ownerOff,
                      edits, faults>>

\* Fault: a success counts as a failure.
HealthOfAny(hook, seen, ok) ==
    [status |-> IF seen.failures + 1 >= Threshold THEN "disabled"
                ELSE hook.status,
     failures |-> seen.failures + 1]

\* What it writes, over the hook as it is by then: a success resets the count,
\* a failure sets the count and the status from what was read.
Health(hook, seen, ok) ==
    IF ok THEN [hook EXCEPT !.failures = 0]
    ELSE [status |-> IF seen.failures + 1 >= Threshold THEN "disabled"
                     ELSE seen.status,
          failures |-> seen.failures + 1]

\* ... and writes it back.
HealthWrite(p, d) ==
    LET h == HookOf(d)
    IN /\ attempt[p][d].at = "healthWrite"
       /\ hooks' = IF hooks[h] = NoHook THEN hooks
                   ELSE [hooks EXCEPT ![h] =
                           Health(@, attempt[p][d].seen, attempt[p][d].ok)]
       /\ Stop(p, d)
       /\ UNCHANGED <<deliveries, emitting, edit, history, ownerOff, edits,
                      faults>>

\* A statement of the attempt fails: the catch hands it to
\* handleDeliveryFailure, unless it is what failed there, or at the mark.
StatementFails(p, d) ==
    /\ attempt[p][d].at \notin {"idle", "send"}
    /\ faults < MaxFaults
    /\ faults' = faults + 1
    /\ IF attempt[p][d].at = "mark" \/ attempt[p][d].caught
       THEN Stop(p, d)
       ELSE attempt' = [attempt EXCEPT ![p][d].at = "fail",
                                       ![p][d].caught = TRUE,
                                       ![p][d].seen = NoHook]
    /\ UNCHANGED <<hooks, deliveries, emitting, edit, history, ownerOff, edits>>

-----------------------------------------------------------------------------
(* The hook's owner, and the server process.                               *)

\* PATCH /api/webhooks/:id reads the hook ...
EditRead(h) ==
    /\ edits < MaxEdits
    /\ hooks[h] # NoHook
    /\ edit[h] = NoHook
    /\ edit' = [edit EXCEPT ![h] = hooks[h]]
    /\ edits' = edits + 1
    /\ UNCHANGED <<hooks, deliveries, emitting, attempt, history, ownerOff,
                   faults>>

\* ... and sets its status; enabling a hook that was disabled resets the count.
EditWrite(h) ==
    /\ edit[h] # NoHook
    /\ \E status \in {"active", "paused", "disabled"} :
         /\ hooks' = IF hooks[h] = NoHook THEN hooks
                     ELSE [hooks EXCEPT ![h] =
                       [status |-> status,
                        failures |-> IF /\ status = "active"
                                        /\ edit[h].status = "disabled"
                                     THEN 0 ELSE @.failures]]
         /\ ownerOff' = IF status = "disabled" THEN ownerOff \cup {h}
                        ELSE ownerOff
    /\ edit' = [edit EXCEPT ![h] = NoHook]
    /\ UNCHANGED <<deliveries, emitting, attempt, history, edits, faults>>

\* DELETE /api/webhooks/:id takes the hook's deliveries with it.
Delete(h) ==
    /\ edits < MaxEdits
    /\ hooks[h] # NoHook
    /\ hooks' = [hooks EXCEPT ![h] = NoHook]
    /\ deliveries' = [d \in Deliveries |->
                        IF HookOf(d) = h /\ deliveries[d].status # "none"
                        THEN [deliveries[d] EXCEPT !.status = "deleted"]
                        ELSE deliveries[d]]
    /\ edits' = edits + 1
    /\ UNCHANGED <<emitting, attempt, edit, history, ownerOff, faults>>

\* The server stops: what was being emitted, attempted or edited is lost.
Crash ==
    /\ faults < MaxFaults
    /\ faults' = faults + 1
    /\ emitting' = [e \in Events |-> {}]
    /\ attempt' = [p \in Passes |-> [d \in Deliveries |-> Idle]]
    /\ edit' = [h \in Hooks |-> NoHook]
    /\ UNCHANGED <<hooks, deliveries, history, ownerOff, edits>>

Step(p, d) ==
    \/ Mark(p, d) \/ Send(p, d) \/ Succeed(p, d) \/ Fail(p, d)
    \/ HealthRead(p, d) \/ HealthWrite(p, d)
    \/ StatementFails(p, d)

Next ==
    \/ \E e \in Events : Emit(e) \/ Queue(e) \/ QueueFails(e)
    \/ \E d \in Deliveries : ComesDue(d)
    \/ \E p \in Passes : Select(p) \/ \E d \in Deliveries : Step(p, d)
    \/ \E h \in Hooks : EditRead(h) \/ EditWrite(h) \/ Delete(h)
    \/ Crash

Spec == Init /\ [][Next]_vars

\* Passes start every minute, time passes, and an attempt goes on: its request
\* is aborted after 10 seconds, the body of an answer after 5 minutes.
Fairness ==
    /\ \A d \in Deliveries : WF_vars(ComesDue(d))
    /\ \A p \in Passes : /\ WF_vars(Select(p))
                         /\ \A d \in Deliveries : WF_vars(Step(p, d))

FairSpec == Spec /\ Fairness

-----------------------------------------------------------------------------

TypeOK ==
    /\ hooks \in [Hooks -> Hook \cup {NoHook}]
    /\ deliveries \in [Deliveries -> Delivery]
    /\ emitting \in [Events -> SUBSET Hooks]
    /\ attempt \in [Passes -> [Deliveries -> Attempt]]
    /\ edit \in [Hooks -> Hook \cup {NoHook}]
    /\ accepted \subseteq Deliveries
    /\ fails \in [Deliveries -> Nat]
    /\ misses \in [Hooks -> Nat]
    /\ ownerOff \subseteq Hooks
    /\ edits \in Nat
    /\ faults \in Nat

\* A delivery is given up only after MaxAttempts failures of it were handled,
\* although passes overlap and each counts from its own copy of the row, so
\* that the column "attempts" may go back (handleDeliveryFailure).
GivenUpLate ==
    \A d \in Deliveries :
      deliveries[d].status = "exhausted" => fails[d] >= MaxAttempts

\* A hook that its owner has never disabled is disabled only after Threshold
\* failures, although success and failure updates of its health overwrite each
\* other (updateWebhookHealth).
DisabledByFailures ==
    \A h \in Hooks :
      /\ hooks[h] # NoHook
      /\ hooks[h].status = "disabled"
      /\ h \notin ownerOff
      => misses[h] >= Threshold

\* A delivery recorded as delivered was answered with 2xx, whichever of several
\* concurrent attempts wrote the row last (markDeliverySuccess).
DeliveredWasAccepted ==
    \A d \in Deliveries : deliveries[d].status = "delivered" => d \in accepted

\* What is inductive about it: the failures an attempt's number stands for.
CountInv ==
    /\ \A d \in Deliveries :
         /\ deliveries[d].attempts <= fails[d] + 1
         /\ deliveries[d].status \in {"pending", "failed"} =>
              deliveries[d].attempts <= fails[d]
    /\ \A p \in Passes, d \in Deliveries :
         attempt[p][d].number <= fails[d] + 1

\* ... the answers behind an attempt that succeeds ...
AcceptInv ==
    \A p \in Passes, d \in Deliveries :
      attempt[p][d].at = "succeed" => d \in accepted

\* ... and the failures behind every count of failures, in the table or in the
\* copy an attempt has read: as many were handled as it counts, and one more for
\* each attempt that is still to add its own.
Uncounted(h) ==
    {a \in Passes \X Deliveries :
       /\ HookOf(a[2]) = h
       /\ attempt[a[1]][a[2]].at \in {"health", "healthWrite"}
       /\ ~attempt[a[1]][a[2]].ok}
Behind(hook, h) ==
    hook # NoHook =>
      /\ hook.failures + Cardinality(Uncounted(h)) <= misses[h]
      /\ hook.status = "disabled" /\ h \notin ownerOff => misses[h] >= Threshold
HealthInv ==
    /\ \A h \in Hooks : Behind(hooks[h], h)
    /\ \A p \in Passes, d \in Deliveries :
         /\ Behind(attempt[p][d].seen, HookOf(d))
         /\ attempt[p][d].at = "healthWrite" => attempt[p][d].seen # NoHook

\* The inductive invariant of webhook delivery.
WebhookInv ==
    /\ TypeOK
    /\ CountInv
    /\ AcceptInv
    /\ HealthInv
    /\ GivenUpLate
    /\ DisabledByFailures
    /\ DeliveredWasAccepted

\* Every delivery that is queued comes to rest for good, however often passes
\* overlap and set it back: delivered, exhausted or deleted with its hook, or
\* "processing" with nobody at work on it, which is where a crash in the middle
\* of an attempt, or a secret that cannot be decrypted, leaves it
\* (processWebhookDeliveries selects no such row).
AtWork(d) == \E p \in Passes : attempt[p][d].at # "idle"
Settled(d) ==
    deliveries[d].status \in {"none", "delivered", "exhausted", "deleted"}
Orphaned(d) == deliveries[d].status = "processing" /\ ~AtWork(d)
EveryDeliverySettles ==
    \A d \in Deliveries : <>[](Settled(d) \/ Orphaned(d))
=============================================================================
