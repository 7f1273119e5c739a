---------------------------- MODULE WebhookRelay ----------------------------
(***************************************************************************)
(* The webhook outbox drained through RabbitMQ: rabbit-worker.ts over      *)
(* webhook-event.repository.ts and rabbit/topology.ts.  Each worker        *)
(* process runs a relay (outbox rows to broker messages) and a consumer    *)
(* (broker messages to POSTs), which share nothing but the rows, the       *)
(* queues and the process's life.                                          *)
(*                                                                         *)
(* A message is one of Slot, in the deliver queue, in the retry queue, or  *)
(* unacknowledged with a consumer.  The broker stores what it is sent on   *)
(* the confirm channel one message at a time, and a consumer may have a    *)
(* message before the relay hears that it was stored.  Queue order is      *)
(* left open: handlers run concurrently, ten to a process.                 *)
(***************************************************************************)
EXTENDS Naturals, FiniteSets, FiniteSetsExt

CONSTANTS
    Event,        \* webhook_events.id
    Worker,       \* processes running rabbit-worker.ts
    Slot,         \* bound: messages in the broker at one time
    MaxAttempts,
    Batch,        \* RELAY_BATCH
    Prefetch,
    MaxFaults,    \* bound: faults in a behaviour
    Faults        \* what the environment may do: see Fault

Fault == {"crash",            \* a worker process dies and is restarted
          "dbError",          \* a statement of a worker fails
          "confirmLost",      \* a nack, or the confirm channel closes
          "slowRelay",        \* a live relay holds a batch for 30 seconds
          "unheard",          \* the endpoint accepts, the answer times out
          "endpointDeleted"}  \* the endpoint goes, and its events with it

ASSUME RelayAssumption ==
    /\ "none" \notin Event \cup Worker      \* ids and process names
    /\ IsFiniteSet(Worker)
    /\ Slot \subseteq Nat /\ IsFiniteSet(Slot)
    /\ MaxAttempts \in Nat \ {0}
    /\ Batch \in Nat \ {0}
    /\ Prefetch \in Nat \ {0}
    /\ MaxFaults \in Nat
    /\ Faults \subseteq Fault

VARIABLES
    status,     \* webhook_events.status, or "absent", or "gone"
    stale,      \* rows whose updated_at is over 30 seconds old
    relay,      \* where a worker's relayTick is
    batch,      \* its ids
    unsent,     \* those of them the broker has not stored
    message,    \* what is in a slot
    dead,       \* events with a message in the dead queue
    discarded,  \* events with a message that was nacked away
    received,   \* 2xx answers of the endpoint
    tried,      \* POSTs
    again,      \* reasons to send an event again
    faults      \* faults so far

rowVars == <<status, stale>>
relayVars == <<relay, batch, unsent>>
brokerVars == <<message, dead, discarded>>
history == <<received, tried, again>>
vars == <<rowVars, relayVars, brokerVars, history, faults>>

Free == [event |-> "none", attempt |-> 0, at |-> "free", by |-> "none"]

Init ==
    /\ status = [e \in Event |-> "absent"]
    /\ stale = {}
    /\ relay = [w \in Worker |-> "sleep"]
    /\ batch = [w \in Worker |-> {}]
    /\ unsent = [w \in Worker |-> {}]
    /\ message = [s \in Slot |-> Free]
    /\ dead = {}
    /\ discarded = {}
    /\ received = [e \in Event |-> 0]
    /\ tried = [e \in Event |-> 0]
    /\ again = [e \in Event |-> 0]
    /\ faults = 0

Budget(f) == f \in Faults /\ faults < MaxFaults /\ faults' = faults + 1

----------------------------------------------------------------------------
(* Rows.  No UPDATE but the claim's and the reaper's looks at the status   *)
(* it overwrites; each sets updated_at; none finds a row that is gone.     *)
Update(S, new) ==
    /\ status' = [e \in Event |-> IF e \in S /\ status[e] # "gone"
                                  THEN new ELSE status[e]]
    /\ stale' = stale \ S

OneMore(f, S) == [e \in Event |-> IF e \in S THEN f[e] + 1 ELSE f[e]]

(* enqueue(), committed with the payment that emits the event. *)
Emit(e) ==
    /\ status[e] = "absent"
    /\ status' = [status EXCEPT ![e] = "pending"]
    /\ UNCHANGED <<stale, relayVars, brokerVars, history, faults>>

----------------------------------------------------------------------------
(* The relay. *)
Goto(w, label) == relay' = [relay EXCEPT ![w] = label]

ReapNothing(w) ==                         \* mutant: no reaper
    /\ relay[w] = "sleep" /\ Goto(w, "claim")
    /\ UNCHANGED <<rowVars, batch, unsent, brokerVars, history, faults>>

(* Phase 0.  Rows are taken back from whoever claimed them, dead or slow.  *)
Reap(w) ==
    LET S == {e \in stale : status[e] = "publishing"} IN
    /\ relay[w] = "sleep"
    /\ Update(S, "pending")
    /\ again' = OneMore(again, S)
    /\ Goto(w, "claim")
    /\ UNCHANGED <<batch, unsent, brokerVars, received, tried, faults>>

ClaimFrom(w, from) ==
    LET open == {e \in Event : status[e] \in from} IN
    /\ relay[w] = "claim"
    /\ \E S \in SUBSET open :
          /\ Cardinality(S) = Min({Batch, Cardinality(open)})
          /\ batch' = [batch EXCEPT ![w] = S]
          /\ unsent' = [unsent EXCEPT ![w] = S]
          /\ Update(S, "publishing")
          /\ Goto(w, IF S = {} THEN "sleep" ELSE "publish")
    /\ UNCHANGED <<brokerVars, history, faults>>

ClaimUnfinished(w) ==                     \* mutant: 'publishing' hides nothing
    ClaimFrom(w, {"pending", "publishing"})

(* Phase 1. *)
Claim(w) == ClaimFrom(w, {"pending"})

Lowest == Min({s \in Slot : message[s] = Free})

(* Phase 2: the broker stores one of the messages published.               *)
Store(w, e) ==
    /\ relay[w] = "publish"
    /\ e \in unsent[w]
    /\ \E s \in Slot : message[s] = Free
    /\ message' = [message EXCEPT ![Lowest] =
                     [event |-> e, attempt |-> 1, at |-> "deliver", by |-> "none"]]
    /\ unsent' = [unsent EXCEPT ![w] = @ \ {e}]
    /\ UNCHANGED <<rowVars, relay, batch, dead, discarded, history, faults>>

MarkUnconfirmed(w) ==                     \* mutant: no waitForConfirms
    /\ relay[w] = "publish"
    /\ unsent' = [unsent EXCEPT ![w] = {}]
    /\ Goto(w, "mark")
    /\ UNCHANGED <<rowVars, batch, brokerVars, history, faults>>

(* waitForConfirms() resolves. *)
Confirm(w) ==
    /\ relay[w] = "publish"
    /\ unsent[w] = {}
    /\ Goto(w, "mark")
    /\ UNCHANGED <<rowVars, batch, unsent, brokerVars, history, faults>>

Rest(w) ==
    /\ Goto(w, "sleep")
    /\ batch' = [batch EXCEPT ![w] = {}]
    /\ unsent' = [unsent EXCEPT ![w] = {}]

(* Phase 3, on every id of the batch, whatever became of it since.         *)
MarkPublished(w) ==
    /\ relay[w] = "mark"
    /\ Update(batch[w], "published")
    /\ Rest(w)
    /\ UNCHANGED <<brokerVars, history, faults>>

(* The catch block: what was not stored by now never is.                   *)
ResetToPending(w) ==
    /\ relay[w] = "reset"
    /\ Update(batch[w], "pending")
    /\ again' = OneMore(again, batch[w])
    /\ Rest(w)
    /\ UNCHANGED <<brokerVars, received, tried, faults>>

RelayStep(w) == \/ Reap(w) \/ Claim(w) \/ Confirm(w)
                \/ \E e \in Event : Store(w, e)
                \/ MarkPublished(w) \/ ResetToPending(w)

----------------------------------------------------------------------------
(* The consumer's handler of the message in slot s. *)
EventOf(s) == message[s].event
Held(w) == {s \in Slot : message[s].by = w}
Move(s, place) == message' = [message EXCEPT ![s].at = place]
Ack(s) == message' = [message EXCEPT ![s] = Free]

(* The broker hands over a message; findById() is under way. *)
Consume(w, s) ==
    /\ message[s].at = "deliver"
    /\ Cardinality(Held(w)) < Prefetch
    /\ message' = [message EXCEPT ![s].at = "lookup", ![s].by = w]
    /\ UNCHANGED <<rowVars, relayVars, dead, discarded, history, faults>>

(* The endpoint was found: the POST leaves. *)
Post(s) ==
    /\ message[s].at = "lookup"
    /\ status[EventOf(s)] # "gone"
    /\ Move(s, "post")
    /\ tried' = OneMore(tried, {EventOf(s)})
    /\ UNCHANGED <<rowVars, relayVars, dead, discarded, received, again, faults>>

NoEndpoint(s) ==
    /\ message[s].at = "lookup"
    /\ status[EventOf(s)] = "gone"
    /\ Move(s, "bury")
    /\ dead' = dead \cup {EventOf(s)}
    /\ UNCHANGED <<rowVars, relayVars, discarded, history, faults>>

CaughtOffByOne(s) ==                      \* mutant: attempt > MAX_ATTEMPTS
    IF message[s].attempt > MaxAttempts
    THEN Move(s, "bury") /\ dead' = dead \cup {EventOf(s)}
    ELSE /\ message' = [message EXCEPT
              ![s].attempt = @ + 1, ![s].at = "retry", ![s].by = "none"]
         /\ UNCHANGED dead

CaughtUncounted(s) ==                     \* mutant: x-attempts not raised
    IF message[s].attempt >= MaxAttempts
    THEN Move(s, "bury") /\ dead' = dead \cup {EventOf(s)}
    ELSE /\ message' = [message EXCEPT ![s].at = "retry", ![s].by = "none"]
         /\ UNCHANGED dead

CaughtTwice(s) ==                         \* mutant: dead-lettered and retried
    LET again1 == [message[s] EXCEPT !.at = "retry", !.by = "none"] IN
    IF message[s].attempt >= MaxAttempts
    THEN /\ \E f \in Slot : message[f] = Free
         /\ message' = [message EXCEPT ![s].at = "bury", ![Lowest] = again1]
         /\ dead' = dead \cup {EventOf(s)}
    ELSE /\ message' = [message EXCEPT ![s] = [again1 EXCEPT !.attempt = @ + 1]]
         /\ UNCHANGED dead

(* The inner catch block: a copy to the dead queue and markFailed() under  *)
(* way, or a copy to the retry queue and the message acknowledged.         *)
Caught(s) ==
    IF message[s].attempt >= MaxAttempts
    THEN Move(s, "bury") /\ dead' = dead \cup {EventOf(s)}
    ELSE /\ message' = [message EXCEPT
              ![s].attempt = @ + 1, ![s].at = "retry", ![s].by = "none"]
         /\ UNCHANGED dead

Refused(s) ==
    /\ message[s].at = "post"
    /\ Caught(s)
    /\ UNCHANGED <<rowVars, relayVars, discarded, history, faults>>

AcceptedIsRefused(s) ==                   \* mutant: res.ok the wrong way round
    /\ message[s].at = "post"
    /\ received' = OneMore(received, {EventOf(s)})
    /\ Caught(s)
    /\ UNCHANGED <<rowVars, relayVars, discarded, tried, again, faults>>

(* res.ok: markDelivered() is under way. *)
Accepted(s) ==
    /\ message[s].at = "post"
    /\ received' = OneMore(received, {EventOf(s)})
    /\ Move(s, "record")
    /\ UNCHANGED <<rowVars, relayVars, dead, discarded, tried, again, faults>>

MarkDelivered(s) ==
    /\ message[s].at = "record"
    /\ Update({EventOf(s)}, "delivered")
    /\ Ack(s)
    /\ UNCHANGED <<relayVars, dead, discarded, history, faults>>

MarkFailed(s) ==
    /\ message[s].at = "bury"
    /\ Update({EventOf(s)}, "failed")
    /\ Ack(s)
    /\ UNCHANGED <<relayVars, dead, discarded, history, faults>>

(* The TTL runs out and the broker dead-letters the message back. *)
Expire(s) ==
    /\ message[s].at = "retry"
    /\ Move(s, "deliver")
    /\ UNCHANGED <<rowVars, relayVars, dead, discarded, history, faults>>

ConsumerStep(s) == \/ Post(s) \/ NoEndpoint(s) \/ Refused(s) \/ Accepted(s)
                   \/ MarkDelivered(s) \/ MarkFailed(s)

Delivery(s) == Expire(s) \/ \E w \in Worker : Consume(w, s)

----------------------------------------------------------------------------
(* Time and faults. *)
(* A row nobody is publishing any more grows old without anybody's fault.  *)
Abandoned(e) == \A w \in Worker : e \notin batch[w]

GrowStale(e) ==
    /\ status[e] = "publishing"
    /\ e \notin stale
    /\ IF Abandoned(e) THEN UNCHANGED faults ELSE Budget("slowRelay")
    /\ stale' = stale \cup {e}
    /\ UNCHANGED <<status, relayVars, brokerVars, history>>

ConfirmLost(w) ==
    /\ relay[w] = "publish"
    /\ Budget("confirmLost")
    /\ Goto(w, "reset")
    /\ UNCHANGED <<rowVars, batch, unsent, brokerVars, history>>

(* markPublished() is inside the try; the other statements end the tick.   *)
RelayDbError(w) ==
    /\ Budget("dbError")
    /\ \/ relay[w] = "mark" /\ Goto(w, "reset") /\ UNCHANGED <<batch, unsent>>
       \/ relay[w] \in {"claim", "reset"} /\ Rest(w)
    /\ UNCHANGED <<rowVars, brokerVars, history>>

(* The outer catch block: nack without requeue, on a queue that has no     *)
(* dead-letter exchange.                                                   *)
Discard(s) ==
    /\ message[s].at \in {"lookup", "bury"}
    /\ Budget("dbError")
    /\ discarded' = discarded \cup {EventOf(s)}
    /\ Ack(s)
    /\ UNCHANGED <<rowVars, relayVars, dead, history>>

(* markDelivered() is inside the try of the POST, and may have been        *)
(* executed although its answer is lost.                                   *)
MarkDeliveredFails(s) ==
    /\ message[s].at = "record"
    /\ Budget("dbError")
    /\ again' = OneMore(again, {EventOf(s)})
    /\ Caught(s)
    /\ UNCHANGED rowVars \/ Update({EventOf(s)}, "delivered")
    /\ UNCHANGED <<relayVars, discarded, received, tried>>

Unheard(s) ==
    /\ message[s].at = "post"
    /\ Budget("unheard")
    /\ received' = OneMore(received, {EventOf(s)})
    /\ again' = OneMore(again, {EventOf(s)})
    /\ Caught(s)
    /\ UNCHANGED <<rowVars, relayVars, discarded, tried>>

(* The broker takes back what the worker had not acknowledged.  The POST   *)
(* or statement a handler was waiting for may have been carried out        *)
(* (done), and a refused message may be in the retry queue already (copy). *)
Count(f, S) == [e \in Event |-> f[e] + Cardinality({s \in S : EventOf(s) = e})]

EventsOf(S) == {EventOf(s) : s \in S}
HeldAt(w, place) == {s \in Held(w) : message[s].at = place}

Copiable(w) == {s \in HeldAt(w, "post") : /\ message[s].attempt < MaxAttempts
                                          /\ \E t \in Slot : message[t] = Free}

Requeued(w, copy) ==
    [s \in Slot |->
        IF s \in Held(w) THEN [message[s] EXCEPT !.at = "deliver", !.by = "none"]
        ELSE IF copy # {} /\ s = Lowest
        THEN [message[CHOOSE c \in copy : TRUE]
                 EXCEPT !.attempt = @ + 1, !.at = "retry", !.by = "none"]
        ELSE message[s]]

Crash(w) ==
    \E done \in SUBSET (HeldAt(w, "post") \cup HeldAt(w, "record") \cup HeldAt(w, "bury")) :
    \E copy \in {{}} \cup {{s} : s \in Copiable(w) \ done} :
        /\ relay[w] # "sleep" \/ Held(w) # {}
        /\ Budget("crash")
        /\ Rest(w)
        /\ received' = Count(received, done \cap HeldAt(w, "post"))
        /\ again' = Count(again, Held(w))
        /\ message' = Requeued(w, copy)
        /\ status' = [e \in Event |->
              IF status[e] = "gone" THEN "gone"
              ELSE IF e \in EventsOf(done \cap HeldAt(w, "bury")) THEN "failed"
              ELSE IF e \in EventsOf(done \cap HeldAt(w, "record")) THEN "delivered"
              ELSE status[e]]
        /\ stale' = stale \ EventsOf(done \ HeldAt(w, "post"))
        /\ UNCHANGED <<dead, discarded, tried>>

(* webhook_events.endpoint_id: ON DELETE CASCADE. *)
EndpointDeleted(e) ==
    /\ status[e] \notin {"absent", "gone"}
    /\ Budget("endpointDeleted")
    /\ status' = [status EXCEPT ![e] = "gone"]
    /\ stale' = stale \ {e}
    /\ UNCHANGED <<relayVars, brokerVars, history>>

Disturbance ==
    \/ \E w \in Worker : ConfirmLost(w) \/ RelayDbError(w) \/ Crash(w)
    \/ \E s \in Slot : Discard(s) \/ MarkDeliveredFails(s) \/ Unheard(s)
    \/ \E e \in Event : EndpointDeleted(e)

Next == \/ \E e \in Event : Emit(e) \/ GrowStale(e)
        \/ \E w \in Worker : RelayStep(w)
        \/ \E s \in Slot : ConsumerStep(s) \/ Delivery(s)
        \/ Disturbance

Spec == Init /\ [][Next]_vars

FairSpec == /\ Spec
            /\ \A w \in Worker : WF_vars(RelayStep(w))
            /\ \A s \in Slot : WF_vars(ConsumerStep(s)) /\ WF_vars(Delivery(s))
            /\ \A e \in Event : WF_vars(Abandoned(e) /\ GrowStale(e))

----------------------------------------------------------------------------
Place == {"deliver", "lookup", "post", "record", "bury", "retry"}
Carried == {"lookup", "post", "record", "bury"}

(* Types.  A message in the broker has an attempt that MAX_ATTEMPTS allows, *)
(* and exactly the messages handlers work on belong to a worker.            *)
TypeOK ==
    /\ status \in [Event -> {"absent", "pending", "publishing", "published",
                             "delivered", "failed", "gone"}]
    /\ stale \subseteq {e \in Event : status[e] = "publishing"}
    /\ relay \in [Worker -> {"sleep", "claim", "publish", "mark", "reset"}]
    /\ batch \in [Worker -> SUBSET Event]
    /\ \A w \in Worker : unsent[w] \subseteq batch[w]
    /\ \A s \in Slot :
          LET m == message[s] IN
          \/ m = Free
          \/ /\ m.event \in Event
             /\ m.attempt \in 1..MaxAttempts
             /\ \/ m.at \in Carried /\ m.by \in Worker
                \/ m.at \in Place \ Carried /\ m.by = "none"
    /\ dead \subseteq Event /\ discarded \subseteq Event
    /\ received \in [Event -> Nat] /\ tried \in [Event -> Nat]
    /\ again \in [Event -> Nat]
    /\ faults \in 0..MaxFaults

InBroker(e) == \E s \in Slot : EventOf(s) = e

(* migration 0007: "published: relay handed it to RabbitMQ; delivery is now *)
(* the broker's job".  An event the relay will not look at again is in the  *)
(* broker, or was received, or is in the dead queue.  Only a message that a *)
(* failing statement made a consumer throw away excuses.                    *)
NothingIsLost ==
    \A e \in Event : status[e] \in {"published", "delivered", "failed"} =>
        InBroker(e) \/ received[e] > 0 \/ e \in dead \/ e \in discarded

(* "at-least-once delivery": an endpoint that answers 2xx hears of an event *)
(* again only for a reason, one for each time: the relay published it       *)
(* again, an answer was not heard or not recorded, a message was redelivered. *)
ReceivedOnce == \A e \in Event : received[e] <= 1 + again[e]

(* A dead letter is the end of MAX_ATTEMPTS refusals: an event that ends    *)
(* 'failed' was never received, as far as its worker could tell.            *)
FailedMeansRefused ==
    \A e \in Event : status[e] = "failed" =>
        /\ e \in dead
        /\ tried[e] >= MaxAttempts
        /\ received[e] <= again[e]

(* An endpoint that keeps refusing is left alone after MAX_ATTEMPTS POSTs,  *)
(* through the retry queue, its TTL and the x-attempts header; again only   *)
(* for a reason.                                                            *)
TriedWithinLimit == \A e \in Event : tried[e] <= MaxAttempts * (1 + again[e])

(* webhook-event.repository.ts: "Delivery succeeded -> terminal             *)
(* 'delivered'" and "Retries exhausted -> terminal 'failed'".  Not quite:   *)
(* the updates ask for no status, and the consumer may settle an event      *)
(* before its relay hears the confirm and writes 'published' over it.  That *)
(* relay, or a second message with a reason, is all that can unsettle one.  *)
SettledUnlessHeld ==
    [][\A e \in Event : status[e] \in {"delivered", "failed"} =>
          \/ status'[e] \in {status[e], "gone"}
          \/ \E w \in Worker : e \in batch[w]
          \/ again[e] > 0]_vars

(* Every event that a payment committed comes to an end: received, in the   *)
(* dead queue, or thrown away with its message.                             *)
EveryEventEnds ==
    \A e \in Event : status[e] = "pending" ~>
        received[e] > 0 \/ e \in dead \/ e \in discarded \/ status[e] = "gone"
=============================================================================
