---------------------------- MODULE Idempotency ----------------------------
(***************************************************************************)
(* The Idempotency-Key guard of POST /transfers: middleware/idempotency.ts *)
(* over idempotency.repository.ts.  Every statement of the guard commits   *)
(* by itself (it uses the pool, not a transaction), so the guard, the      *)
(* handler's own transaction and the saving of its response are separate   *)
(* steps, between which other requests run and the process may die.        *)
(*                                                                         *)
(* The handler is seen from outside: it ends with one of Outcome, having   *)
(* committed its transfer or not.  Transfers says how it gets there.       *)
(***************************************************************************)
EXTENDS Naturals

CONSTANTS
    Request,    \* requests, retries of a client included
    Key,        \* (merchant, Idempotency-Key) pairs
    Body,       \* what hashRequest fingerprints
    KeyOf,
    BodyOf,
    Outcome,    \* how the handler may end: see HandlerOutcome
    Faults      \* what the environment may do: see Fault

\* "lost": the transfer was committed and COMMIT's answer did not arrive, so
\* withTransaction threw and the error handler made it a 500.
HandlerOutcome == {"201", "400", "403", "404", "409", "422", "500", "lost"}

Fault == {"crash",          \* the API process dies
          "claimFails",     \* the INSERT or the SELECT of claim() fails
          "claimAckLost",   \* the INSERT commits and its answer is lost
          "persistFails"}   \* the UPDATE or DELETE that saves the result fails

ASSUME IdempotencyAssumption ==
    /\ KeyOf \in [Request -> Key]
    /\ BodyOf \in [Request -> Body]
    /\ Outcome \subseteq HandlerOutcome
    /\ Faults \subseteq Fault

VARIABLES
    keyStatus,    \* idempotency_keys.status, or "absent"
    keyHash,      \* request_hash of the row, when there is one
    keyResponse,  \* response_status and response_body of the row
    pc,           \* where request r is
    outcome,      \* how its handler ended
    executed,     \* its handler committed a transfer
    unclaimed,    \* it passed the guard without a row of its own
    saveFailed,   \* its response could not be saved
    reply         \* what it was answered

tableVars == <<keyStatus, keyHash, keyResponse>>
requestVars == <<pc, outcome, executed, unclaimed, saveFailed, reply>>
vars == <<tableVars, requestVars>>

(* A response names the request whose handler produced its body.           *)
NoResponse == [status |-> "none", by |-> "none"]

Init ==
    /\ keyStatus = [k \in Key |-> "absent"]
    /\ keyHash \in [Key -> Body]
    /\ keyResponse = [k \in Key |-> NoResponse]
    /\ pc = [r \in Request |-> "idle"]
    /\ outcome = [r \in Request |-> "none"]
    /\ executed = [r \in Request |-> FALSE]
    /\ unclaimed = [r \in Request |-> FALSE]
    /\ saveFailed = [r \in Request |-> FALSE]
    /\ reply = [r \in Request |-> NoResponse]

----------------------------------------------------------------------------
Goto(r, label) == pc' = [pc EXCEPT ![r] = label]

Answer(r, status, by) ==
    /\ Goto(r, "done")
    /\ reply' = [reply EXCEPT ![r] = [status |-> status, by |-> by]]

Arrive(r) ==
    /\ pc[r] = "idle"
    /\ Goto(r, "insert")
    /\ UNCHANGED <<tableVars, outcome, executed, unclaimed, saveFailed, reply>>

(* The row a successful claim() inserts. *)
InsertRow(r) ==
    LET k == KeyOf[r] IN
    /\ keyStatus[k] = "absent"
    /\ keyStatus' = [keyStatus EXCEPT ![k] = "in_progress"]
    /\ keyHash' = [keyHash EXCEPT ![k] = BodyOf[r]]
    /\ keyResponse' = [keyResponse EXCEPT ![k] = NoResponse]

(* claim(): the INSERT succeeds, or the unique constraint sends it to get. *)
Claim(r) ==
    /\ pc[r] = "insert"
    /\ InsertRow(r)
    /\ Goto(r, "handle")
    /\ UNCHANGED <<outcome, executed, unclaimed, saveFailed, reply>>

Duplicate(r) ==
    /\ pc[r] = "insert"
    /\ keyStatus[KeyOf[r]] # "absent"
    /\ Goto(r, "get")
    /\ UNCHANGED <<tableVars, outcome, executed, unclaimed, saveFailed, reply>>

(* get() and what the middleware makes of the row it finds.                *)
Reuse(r) ==
    /\ pc[r] = "get"
    /\ keyStatus[KeyOf[r]] # "absent"
    /\ keyHash[KeyOf[r]] # BodyOf[r]
    /\ Answer(r, "422reuse", r)
    /\ UNCHANGED <<tableVars, outcome, executed, unclaimed, saveFailed>>

InProgress(r) ==
    /\ pc[r] = "get"
    /\ keyStatus[KeyOf[r]] = "in_progress"
    /\ keyHash[KeyOf[r]] = BodyOf[r]
    /\ Answer(r, "409inProgress", r)
    /\ UNCHANGED <<tableVars, outcome, executed, unclaimed, saveFailed>>

ReplayAnyHash(r) ==                       \* mutant: hashes not compared
    /\ pc[r] = "get" /\ keyStatus[KeyOf[r]] = "completed"
    /\ Answer(r, keyResponse[KeyOf[r]].status, keyResponse[KeyOf[r]].by)
    /\ UNCHANGED <<tableVars, outcome, executed, unclaimed, saveFailed>>

Replay(r) ==
    /\ pc[r] = "get"
    /\ keyStatus[KeyOf[r]] = "completed"
    /\ keyHash[KeyOf[r]] = BodyOf[r]
    /\ Answer(r, keyResponse[KeyOf[r]].status, keyResponse[KeyOf[r]].by)
    /\ UNCHANGED <<tableVars, outcome, executed, unclaimed, saveFailed>>

(* The row was released between the INSERT and the SELECT: created is      *)
(* false and existing undefined, and the request goes on as if it had      *)
(* claimed the key.                                                        *)
FallThrough(r) ==
    /\ pc[r] = "get"
    /\ keyStatus[KeyOf[r]] = "absent"
    /\ unclaimed' = [unclaimed EXCEPT ![r] = TRUE]
    /\ Goto(r, "handle")
    /\ UNCHANGED <<tableVars, outcome, executed, saveFailed, reply>>

(* The controller and, if it threw, the error handler.                     *)
Handle(r) ==
    /\ pc[r] = "handle"
    /\ \E o \in Outcome :
          /\ outcome' = [outcome EXCEPT ![r] = o]
          /\ executed' = [executed EXCEPT ![r] = o \in {"201", "lost"}]
    /\ Goto(r, "persist")
    /\ UNCHANGED <<tableVars, unclaimed, saveFailed, reply>>

StatusOf(o) == IF o = "lost" THEN "500" ELSE o

ReleaseAlways(r) ==                       \* mutant: no status >= 500
    /\ pc[r] = "persist"
    /\ keyStatus' = [keyStatus EXCEPT ![KeyOf[r]] = "absent"]
    /\ Goto(r, "send")
    /\ UNCHANGED <<keyHash, keyResponse, outcome, executed, unclaimed, saveFailed,
                   reply>>

KeepOnServerError(r) ==                   \* mutant: nothing is freed
    /\ pc[r] = "persist" /\ StatusOf(outcome[r]) = "500"
    /\ Goto(r, "send")
    /\ UNCHANGED <<tableVars, outcome, executed, unclaimed, saveFailed, reply>>

(* res.json, intercepted: release() a 5xx, complete() anything else, on    *)
(* whichever row the key has by now.                                       *)
Release(r) ==
    /\ pc[r] = "persist"
    /\ StatusOf(outcome[r]) = "500"
    /\ keyStatus' = [keyStatus EXCEPT ![KeyOf[r]] = "absent"]
    /\ Goto(r, "send")
    /\ UNCHANGED <<keyHash, keyResponse, outcome, executed, unclaimed, saveFailed,
                   reply>>

Save(r) ==
    LET k == KeyOf[r] IN
    IF keyStatus[k] = "absent" THEN UNCHANGED <<keyStatus, keyResponse>>
    ELSE /\ keyStatus' = [keyStatus EXCEPT ![k] = "completed"]
         /\ keyResponse' = [keyResponse EXCEPT ![k] =
                              [status |-> outcome[r], by |-> r]]

AnswerThenComplete(r) ==                  \* mutant: sent before it is saved
    /\ pc[r] = "persist" /\ StatusOf(outcome[r]) # "500"
    /\ \/ /\ reply[r] = NoResponse
          /\ reply' = [reply EXCEPT ![r] = [status |-> outcome[r], by |-> r]]
          /\ UNCHANGED <<pc, keyStatus, keyResponse>>
       \/ reply[r] # NoResponse /\ Save(r) /\ Goto(r, "done") /\ UNCHANGED reply
    /\ UNCHANGED <<keyHash, outcome, executed, unclaimed, saveFailed>>

Complete(r) ==
    /\ pc[r] = "persist"
    /\ StatusOf(outcome[r]) # "500"
    /\ Save(r)
    /\ Goto(r, "send")
    /\ UNCHANGED <<keyHash, outcome, executed, unclaimed, saveFailed, reply>>

(* .finally(() => originalJson(body)): sent whether or not it was saved.   *)
Send(r) ==
    /\ pc[r] = "send"
    /\ Answer(r, StatusOf(outcome[r]), r)
    /\ UNCHANGED <<tableVars, outcome, executed, unclaimed, saveFailed>>

----------------------------------------------------------------------------
(* Faults. *)
ClaimFails(r) ==
    /\ pc[r] \in {"insert", "get"}
    /\ "claimFails" \in Faults
    /\ Answer(r, "500", r)
    /\ UNCHANGED <<tableVars, outcome, executed, unclaimed, saveFailed>>

ClaimAckLost(r) ==
    /\ pc[r] = "insert"
    /\ "claimAckLost" \in Faults
    /\ InsertRow(r)
    /\ Answer(r, "500", r)
    /\ UNCHANGED <<outcome, executed, unclaimed, saveFailed>>

PersistFails(r) ==
    /\ pc[r] = "persist"
    /\ "persistFails" \in Faults
    /\ saveFailed' = [saveFailed EXCEPT ![r] = TRUE]
    /\ Goto(r, "send")
    /\ UNCHANGED <<tableVars, outcome, executed, unclaimed, reply>>

Crash(r) ==
    /\ pc[r] \notin {"idle", "done"}
    /\ "crash" \in Faults
    /\ Answer(r, "noAnswer", r)
    /\ UNCHANGED <<tableVars, outcome, executed, unclaimed, saveFailed>>

Lookup(r) == Reuse(r) \/ InProgress(r) \/ Replay(r) \/ FallThrough(r)

Step(r) == \/ Claim(r) \/ Duplicate(r) \/ Lookup(r) \/ Handle(r)
           \/ Release(r) \/ Complete(r) \/ Send(r)

Disturbance(r) ==
    ClaimFails(r) \/ ClaimAckLost(r) \/ PersistFails(r) \/ Crash(r)

Terminated == (\A r \in Request : pc[r] = "done") /\ UNCHANGED vars

Next == \/ \E r \in Request : Arrive(r) \/ Step(r) \/ Disturbance(r)
        \/ Terminated

Spec == Init /\ [][Next]_vars

----------------------------------------------------------------------------
Answered == [status: (HandlerOutcome \ {"lost"})
                        \cup {"422reuse", "409inProgress", "noAnswer"},
             by: Request]

(* Types; in particular nobody is answered with a row that has no response *)
(* yet, which "response_status ?? 200" would make a success.               *)
TypeOK ==
    /\ keyStatus \in [Key -> {"absent", "in_progress", "completed"}]
    /\ keyHash \in [Key -> Body]
    /\ keyResponse \in [Key -> Answered \cup {NoResponse}]
    /\ pc \in [Request -> {"idle", "insert", "get", "handle", "persist", "send",
                           "done"}]
    /\ outcome \in [Request -> Outcome \cup {"none"}]
    /\ executed \in [Request -> BOOLEAN]
    /\ unclaimed \in [Request -> BOOLEAN]
    /\ saveFailed \in [Request -> BOOLEAN]
    /\ reply \in [Request -> Answered \cup {NoResponse}]
    /\ \A k \in Key : keyStatus[k] = "completed" => keyResponse[k] \in Answered
    /\ \A r \in Request : pc[r] = "done" => reply[r] \in Answered

(* The two ways past the guard that the code leaves open: somebody fell    *)
(* through, or a committed transfer was answered 500 and its key released. *)
FellThrough(k) == \E r \in Request : KeyOf[r] = k /\ unclaimed[r]
AckWasLost(k) == \E r \in Request : KeyOf[r] = k /\ outcome[r] = "lost"

(* The promise of migration 0004: however a client repeats a request under *)
(* one key, and whatever crashes or fails meanwhile, one transfer is made  *)
(* at most, but for those two.                                             *)
AtMostOnce ==
    \A r, s \in Request :
        KeyOf[r] = KeyOf[s] /\ executed[r] /\ executed[s] =>
            r = s \/ FellThrough(KeyOf[r]) \/ AckWasLost(KeyOf[r])

(* Everybody told 201 under a key is told about a transfer that was made   *)
(* under it, and asked for that transfer and not for another.              *)
RepliesNameTheTransfer ==
    \A r \in Request : reply[r].status = "201" =>
        LET s == reply[r].by IN
        \/ executed[s] /\ KeyOf[s] = KeyOf[r] /\ BodyOf[s] = BodyOf[r]
        \/ FellThrough(KeyOf[r])

(* "persist-before-send": by the time a client can react to an answer, a   *)
(* repetition of its request finds it saved, and will for ever.  Only a    *)
(* failed save and a request that fell through excuse.                     *)
AnswersAreSaved ==
    \A r \in Request :
        reply[r].status \in HandlerOutcome \ {"500", "lost"} =>
            \/ /\ keyStatus[KeyOf[r]] = "completed"
               /\ keyResponse[KeyOf[r]].status = reply[r].status
            \/ saveFailed[r] \/ FellThrough(KeyOf[r])

(* Nobody will finish key k: a process died under it, a save failed, or    *)
(* claim() failed although its INSERT was committed.                       *)
Orphaned(k) ==
    \E r \in Request :
        /\ KeyOf[r] = k
        /\ \/ saveFailed[r]
           \/ reply[r].status = "noAnswer"
           \/ reply[r].status = "500" /\ outcome[r] = "none"

(* migrations/0004: "'in_progress' while the first request runs".  A row   *)
(* that says so has somebody who will still complete or release it, so     *)
(* that 409 is not the answer for ever; only a failure of the database or  *)
(* the process excuses, never an answer of the handler.                    *)
InProgressMeansRunning ==
    \A k \in Key : keyStatus[k] = "in_progress" =>
        \/ \E r \in Request : KeyOf[r] = k /\ pc[r] \in {"handle", "persist"}
        \/ Orphaned(k)

(* idempotency.repository.ts: "two concurrent requests can't both claim    *)
(* it - exactly one wins".  Two handlers never run under one key.          *)
OneClaimant ==
    \A r, s \in Request :
        KeyOf[r] = KeyOf[s] /\ pc[r] = "handle" /\ pc[s] = "handle" => r = s
=============================================================================
