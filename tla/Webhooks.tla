------------------------------ MODULE Webhooks ------------------------------
(***************************************************************************)
(* The webhook outbox drained by polling workers: webhook-worker.ts over   *)
(* webhook-event.repository.ts.  A tick claims a batch under a lease and   *)
(* delivers it concurrently, one task for each event.  Promise.all rejects *)
(* with the first task that does: the tick is over and the worker goes on  *)
(* to the next one, while the other tasks run to their ends.               *)
(*                                                                         *)
(* (rabbit-worker.ts, which drains the same table, runs instead of these   *)
(* workers and not next to them: see WebhookRelay.)                        *)
(***************************************************************************)
EXTENDS Naturals, FiniteSets, FiniteSetsExt

CONSTANTS
    Event,        \* webhook_events.id
    Worker,       \* processes running webhook-worker.ts
    MaxAttempts,
    Batch,        \* BATCH_SIZE
    MaxFaults,    \* bound: faults in a behaviour
    Faults        \* what the environment may do: see Fault

Fault == {"crash",            \* a worker process dies and is restarted
          "dbError",          \* a statement of a worker fails
          "slowWorker",       \* a lease runs out under a live worker
          "unheard",          \* the endpoint accepts, the answer times out
          "endpointDeleted"}  \* the endpoint goes, and its events with it

ASSUME WebhookAssumption ==
    /\ IsFiniteSet(Worker)
    /\ MaxAttempts \in Nat \ {0}
    /\ Batch \in Nat \ {0}
    /\ MaxFaults \in Nat
    /\ Faults \subseteq Fault

VARIABLES
    status,     \* webhook_events.status, or "absent", or "gone"
    attempts,   \* webhook_events.attempts
    due,        \* rows whose next_attempt_at has come
    batch,      \* the events a worker's tick is waiting for
    task,       \* where deliverOne of a worker and an event is
    known,      \* event.attempts as it was claimed
    received,   \* 2xx answers of the endpoint
    tried,      \* POSTs
    again,      \* reasons to send an event again
    lapsed,     \* events whose lease ran out under a live worker
    doubted,    \* events whose markDelivered was executed and seemed to fail
    faults      \* faults so far

rowVars == <<status, attempts, due>>
workerVars == <<batch, task, known>>
history == <<received, tried, again, lapsed, doubted>>
vars == <<rowVars, workerVars, history, faults>>

Init ==
    /\ status = [e \in Event |-> "absent"]
    /\ attempts = [e \in Event |-> 0]
    /\ due = {}
    /\ batch = [w \in Worker |-> {}]
    /\ task = [w \in Worker |-> [e \in Event |-> "none"]]
    /\ known = [w \in Worker |-> [e \in Event |-> 0]]
    /\ received = [e \in Event |-> 0]
    /\ tried = [e \in Event |-> 0]
    /\ again = [e \in Event |-> 0]
    /\ lapsed = {}
    /\ doubted = {}
    /\ faults = 0

Budget(f) == f \in Faults /\ faults < MaxFaults /\ faults' = faults + 1

(* The row is gone for an UPDATE once its endpoint is. *)
Write(e, new) == [status EXCEPT ![e] = IF @ = "gone" THEN @ ELSE new]

Once(f, e) == [f EXCEPT ![e] = @ + 1]

----------------------------------------------------------------------------
(* enqueue(), committed with the payment or payout that emits the event. *)
Emit(e) ==
    /\ status[e] = "absent"
    /\ status' = [status EXCEPT ![e] = "pending"]
    /\ due' = due \cup {e}
    /\ UNCHANGED <<attempts, workerVars, history, faults>>

(* A tick begins: rows are claimed, their next attempt moves into the      *)
(* future, and each gets a task with a copy of its attempts.  Bound: none  *)
(* that an earlier tick of this very worker is still delivering.           *)
ClaimRows(w, from, leased) ==
    LET open == {e \in from : task[w][e] = "none"} IN
    /\ batch[w] = {}
    /\ \E S \in SUBSET open :
          /\ Cardinality(S) = Min({Batch, Cardinality(open)})
          /\ batch' = [batch EXCEPT ![w] = S]
          /\ task' = [task EXCEPT ![w] = [e \in Event |->
                         IF e \in S THEN "lookup" ELSE @[e]]]
          /\ known' = [known EXCEPT ![w] = [e \in Event |->
                         IF e \in S THEN attempts[e] ELSE @[e]]]
          /\ due' = IF leased THEN due \ S ELSE due
    /\ UNCHANGED <<status, attempts, history, faults>>

ClaimWithoutLease(w) ==                   \* mutant: next_attempt_at not moved
    ClaimRows(w, {e \in due : status[e] = "pending"}, FALSE)

ClaimDue(w) == ClaimRows(w, {e \in due : status[e] = "pending"}, TRUE)

----------------------------------------------------------------------------
(* deliverOne. *)
Goto(w, e, place) == task' = [task EXCEPT ![w][e] = place]

(* The task resolves, and with the last one of its batch the tick. *)
Resolve(w, e) ==
    /\ Goto(w, e, "none")
    /\ known' = [known EXCEPT ![w][e] = 0]
    /\ batch' = [batch EXCEPT ![w] = @ \ {e}]

RejectUncaught(w, e) ==                   \* mutant: main() does not catch
    /\ Goto(w, e, "none")
    /\ known' = [known EXCEPT ![w][e] = 0]
    /\ UNCHANGED batch

(* The task rejects: if the tick waits for it, the tick has failed.        *)
Reject(w, e) ==
    /\ Goto(w, e, "none")
    /\ known' = [known EXCEPT ![w][e] = 0]
    /\ batch' = [batch EXCEPT ![w] = IF e \in @ THEN {} ELSE @]

(* findById() of the endpoint; the POST leaves. *)
Post(w, e) ==
    /\ task[w][e] = "lookup"
    /\ status[e] # "gone"
    /\ Goto(w, e, "post")
    /\ tried' = Once(tried, e)
    /\ UNCHANGED <<rowVars, batch, known, received, again, lapsed, doubted, faults>>

(* markFailed(..., "endpoint deleted"), of a row that went with it. *)
NoEndpoint(w, e) ==
    /\ task[w][e] = "lookup"
    /\ status[e] = "gone"
    /\ Resolve(w, e)
    /\ UNCHANGED <<rowVars, history, faults>>

AnswerUnread(w, e) ==                     \* mutant: res.ok not looked at
    /\ task[w][e] = "post"
    /\ Goto(w, e, "record")
    /\ UNCHANGED <<rowVars, batch, known, history, faults>>

Refused(w, e) ==
    /\ task[w][e] = "post"
    /\ Goto(w, e, "caught")
    /\ UNCHANGED <<rowVars, batch, known, history, faults>>

Accepted(w, e) ==
    /\ task[w][e] = "post"
    /\ received' = Once(received, e)
    /\ Goto(w, e, "record")
    /\ UNCHANGED <<rowVars, batch, known, tried, again, lapsed, doubted, faults>>

MarkDelivered(w, e) ==
    /\ task[w][e] = "record"
    /\ status' = Write(e, "delivered")
    /\ Resolve(w, e)
    /\ UNCHANGED <<attempts, due, history, faults>>

(* The catch block, which counts from the claimed copy; none of its        *)
(* updates looks at the status.                                            *)
Attempt(w, e) == known[w][e] + 1

MarkRetryAs(w, e, n) ==
    /\ task[w][e] = "caught"
    /\ attempts' = [attempts EXCEPT ![e] = n]
    /\ due' = due \ {e}
    /\ Resolve(w, e)
    /\ UNCHANGED <<status, history, faults>>

MarkRetryOnceMore(w, e) ==                \* mutant: attempt > MAX_ATTEMPTS
    Attempt(w, e) <= MaxAttempts /\ MarkRetryAs(w, e, Attempt(w, e))

MarkRetryRevives(w, e) ==                 \* mutant: "stay pending" is written
    /\ task[w][e] = "caught" /\ Attempt(w, e) < MaxAttempts
    /\ status' = Write(e, "pending")
    /\ attempts' = [attempts EXCEPT ![e] = Attempt(w, e)]
    /\ due' = due \ {e}
    /\ Resolve(w, e)
    /\ UNCHANGED <<history, faults>>

MarkRetry(w, e) ==
    Attempt(w, e) < MaxAttempts /\ MarkRetryAs(w, e, Attempt(w, e))

MarkFailed(w, e) ==
    /\ task[w][e] = "caught"
    /\ Attempt(w, e) >= MaxAttempts
    /\ status' = Write(e, "failed")
    /\ attempts' = [attempts EXCEPT ![e] = Attempt(w, e)]
    /\ Resolve(w, e)
    /\ UNCHANGED <<due, history, faults>>

DeliverOne(w, e) ==
    \/ Post(w, e) \/ NoEndpoint(w, e) \/ Refused(w, e) \/ Accepted(w, e)
    \/ MarkDelivered(w, e) \/ MarkRetry(w, e) \/ MarkFailed(w, e)

WorkerStep(w) == ClaimDue(w) \/ \E e \in Event : DeliverOne(w, e)

----------------------------------------------------------------------------
(* Time and faults. *)
Held(e) == \E w \in Worker : task[w][e] # "none"

(* next_attempt_at comes to pass: a backoff is over, or a lease ran out.   *)
BecomesDue(e) ==
    /\ status[e] \notin {"absent", "gone"} /\ e \notin due
    /\ due' = due \cup {e}
    /\ IF Held(e)
       THEN /\ Budget("slowWorker")
            /\ lapsed' = lapsed \cup {e}
            /\ again' = IF status[e] = "pending" THEN Once(again, e) ELSE again
       ELSE UNCHANGED <<lapsed, again, faults>>
    /\ UNCHANGED <<status, attempts, workerVars, received, tried, doubted>>

Unheard(w, e) ==
    /\ task[w][e] = "post"
    /\ Budget("unheard")
    /\ received' = Once(received, e)
    /\ again' = Once(again, e)
    /\ Goto(w, e, "caught")
    /\ UNCHANGED <<rowVars, batch, known, tried, lapsed, doubted>>

(* markDelivered() is inside the try of the POST, and may have been        *)
(* executed although its answer is lost; whatever else raises rejects the  *)
(* task.                                                                   *)
MarkDeliveredFails(w, e) ==
    /\ task[w][e] = "record"
    /\ Budget("dbError")
    /\ again' = Once(again, e)
    /\ Goto(w, e, "caught")
    /\ \/ UNCHANGED <<status, doubted>>
       \/ status' = Write(e, "delivered") /\ doubted' = doubted \cup {e}
    /\ UNCHANGED <<attempts, due, batch, known, received, tried, lapsed>>

TaskFails(w, e) ==
    /\ task[w][e] \in {"lookup", "caught"}
    /\ Budget("dbError")
    /\ Reject(w, e)
    /\ UNCHANGED <<rowVars, history>>

(* The tasks of the process die with it; an endpoint may have accepted a   *)
(* POST, and the server may have executed markDelivered.  An acceptance    *)
(* that was not recorded is a reason to send again.                        *)
Crash(w) ==
    LET at(place) == {e \in Event : task[w][e] = place} IN
    \E accepted \in SUBSET at("post"), recorded \in SUBSET at("record") :
        /\ \E e \in Event : task[w][e] # "none"
        /\ Budget("crash")
        /\ received' = [e \in Event |-> IF e \in accepted THEN received[e] + 1
                                        ELSE received[e]]
        /\ again' = [e \in Event |->
              IF e \in accepted \cup (at("record") \ recorded)
              THEN again[e] + 1 ELSE again[e]]
        /\ status' = [e \in Event |-> IF e \in recorded /\ status[e] # "gone"
                                      THEN "delivered" ELSE status[e]]
        /\ batch' = [batch EXCEPT ![w] = {}]
        /\ task' = [task EXCEPT ![w] = [e \in Event |-> "none"]]
        /\ known' = [known EXCEPT ![w] = [e \in Event |-> 0]]
        /\ UNCHANGED <<attempts, due, tried, lapsed, doubted>>

(* webhook_events.endpoint_id: ON DELETE CASCADE. *)
EndpointDeleted(e) ==
    /\ status[e] \notin {"absent", "gone"}
    /\ Budget("endpointDeleted")
    /\ status' = [status EXCEPT ![e] = "gone"]
    /\ UNCHANGED <<attempts, due, workerVars, history>>

Disturbance ==
    \/ \E w \in Worker, e \in Event :
          Unheard(w, e) \/ MarkDeliveredFails(w, e) \/ TaskFails(w, e)
    \/ \E w \in Worker : Crash(w)
    \/ \E e \in Event : EndpointDeleted(e)

Next == \/ \E e \in Event : Emit(e) \/ BecomesDue(e)
        \/ \E w \in Worker : WorkerStep(w)
        \/ Disturbance

Spec == Init /\ [][Next]_vars

(* The worker's loop runs for ever, each of its tasks goes on, time passes. *)
FairSpec ==
    /\ Spec
    /\ \A w \in Worker : /\ WF_vars(ClaimDue(w))
                         /\ \A e \in Event : WF_vars(DeliverOne(w, e))
    /\ \A e \in Event : WF_vars(BecomesDue(e) /\ ~Held(e))

----------------------------------------------------------------------------
TypeOK ==
    /\ status \in [Event -> {"absent", "pending", "delivered", "failed", "gone"}]
    /\ attempts \in [Event -> 0..MaxAttempts]
    /\ due \subseteq Event
    /\ batch \in [Worker -> SUBSET Event]
    /\ task \in [Worker -> [Event -> {"none", "lookup", "post", "record", "caught"}]]
    /\ \A w \in Worker : \A e \in batch[w] : task[w][e] # "none"
    /\ known \in [Worker -> [Event -> 0..(MaxAttempts - 1)]]
    /\ received \in [Event -> Nat] /\ tried \in [Event -> Nat]
    /\ again \in [Event -> Nat]
    /\ lapsed \subseteq Event /\ doubted \subseteq Event
    /\ faults \in 0..MaxFaults

(* A terminal status says what happened to the event: 'delivered' that the *)
(* endpoint accepted it, 'failed' that MAX_ATTEMPTS POSTs were made and    *)
(* none accepted, but for acceptances the worker was kept from knowing of. *)
StatusIsTrue ==
    \A e \in Event :
        /\ status[e] = "delivered" => received[e] > 0
        /\ status[e] = "failed" => tried[e] >= MaxAttempts /\ received[e] <= again[e]

(* claimDue: "at-least-once delivery".  More than once only for a reason,  *)
(* once for each: an answer not heard or not recorded, a crash in between, *)
(* a lease that ran out.                                                   *)
ReceivedOnce == \A e \in Event : received[e] <= 1 + again[e]

(* "terminal 'delivered'", "terminal 'failed'": whatever a worker that     *)
(* outlived its lease writes over an event that another one is done with,  *)
(* the event is not pending again, so no worker claims it and sends it     *)
(* once more.  And nothing at all is written to it but by such a worker,   *)
(* or one that was told that the update failed which ended the event.      *)
TerminalIsFinal ==
    [][\A e \in Event : status[e] \in {"delivered", "failed"} =>
          /\ status'[e] \in {"delivered", "failed", "gone"}
          /\ e \notin lapsed \cup doubted \/ ~Held(e) =>
                status'[e] \in {status[e], "gone"} /\ attempts'[e] = attempts[e]]_vars

(* Every event that was committed is delivered or dead-lettered, through   *)
(* retries, failed ticks and restarts.                                     *)
EveryEventSettles ==
    \A e \in Event : status[e] = "pending" ~>
                        status[e] \in {"delivered", "failed", "gone"}
=============================================================================
