-------------------------- MODULE GuardedTransfers --------------------------
(***************************************************************************)
(* POST /transfers as its router wires it: the idempotency guard around    *)
(* the transfer service.  A request walks through the steps of Idempotency *)
(* (gpc) and, while it is at "handle", through those of Transfers (pc);    *)
(* the two tables are written in transactions of their own, so a key and   *)
(* the transfer made under it can disagree.  What a client is promised     *)
(* over its retries needs both.                                            *)
(***************************************************************************)
EXTENDS Transfers

CONSTANTS
    Key, Body,
    DtoOf, KeyOf, BodyOf,   \* what a request asks and under which key
    Scenario,               \* bound: the sets of requests that may arrive
    GuardFaults

VARIABLES
    keyStatus, keyHash, keyResponse,                              \* Idempotency
    gpc, outcome, executed, unclaimed, saveFailed,
    answered     \* what a request was answered; reply is what transfer() said

guardVars == <<keyStatus, keyHash, keyResponse, gpc, outcome, executed,
               unclaimed, saveFailed, answered>>
guardedVars == <<vars, guardVars>>

Guard == INSTANCE Idempotency WITH
             Request <- Transfer, pc <- gpc, reply <- answered,
             Faults <- GuardFaults,
             Outcome <- {"201", "400", "403", "404", "409", "422", "500", "lost"}

ASSUME GuardedAssumption ==
    /\ DtoOf \in [Transfer -> Dto]
    /\ KeyOf \in [Transfer -> Key]
    /\ BodyOf \in [Transfer -> Body]
    /\ GuardFaults \subseteq Guard!Fault
    /\ Scenario \subseteq SUBSET Transfer
    \* a process that dies takes both layers of the request with it
    /\ "crash" \in Faults <=> "crash" \in GuardFaults
    \* requests of one key and body ask the same of the service
    /\ \A r, s \in Transfer :
          KeyOf[r] = KeyOf[s] /\ BodyOf[r] = BodyOf[s] => DtoOf[r] = DtoOf[s]

GuardedInit ==
    /\ dto = DtoOf
    /\ keyHash = [k \in Key |-> CHOOSE b \in Body : TRUE]    \* of no row yet
    /\ Guard!Init
    /\ Init

----------------------------------------------------------------------------
Arrived == {r \in Transfer : gpc[r] # "idle"}

GuardedArrive(r) ==
    /\ \E S \in Scenario : Arrived \cup {r} \subseteq S    \* bound
    /\ Guard!Arrive(r)
    /\ UNCHANGED vars

(* The middleware, before and after the controller. *)
GuardStep(r) ==
    /\ \/ Guard!Claim(r) \/ Guard!Duplicate(r) \/ Guard!Lookup(r)
       \/ Guard!Release(r) \/ Guard!Complete(r) \/ Guard!Send(r)
    /\ UNCHANGED vars

(* transfer() returned or threw: the status that res.json() is called with *)
(* by the controller or by the error handler.                              *)
HandlerEnds(r) ==
    /\ gpc' = [gpc EXCEPT ![r] = "persist"]
    /\ executed' = [executed EXCEPT ![r] = posted'[r] > 0]
    /\ outcome' = [outcome EXCEPT ![r] =
                      IF reply'[r] = "500" /\ posted'[r] > 0 THEN "lost"
                                                             ELSE reply'[r]]
    /\ UNCHANGED <<keyStatus, keyHash, keyResponse, unclaimed, saveFailed, answered>>

InHandler(r) ==
    /\ gpc[r] = "handle"
    /\ \/ pc[r] # "done" /\ pc'[r] = "done" /\ HandlerEnds(r)
       \/ pc'[r] # "done" /\ UNCHANGED guardVars

(* The controller: a statement of transfer(). *)
HandlerStep(r) ==
    /\ gpc[r] = "handle"
    /\ Arrive(r) \/ Step(r) \/ DeadlockVictim(r)
    /\ InHandler(r)

----------------------------------------------------------------------------
GuardFault(r) ==
    /\ Guard!ClaimFails(r) \/ Guard!ClaimAckLost(r) \/ Guard!PersistFails(r)
    /\ UNCHANGED vars

HandlerFault(r) ==
    /\ gpc[r] = "handle"
    /\ DbError(r) \/ AckLost(r)
    /\ InHandler(r)

(* The process dies, with the transaction it has open, if any. *)
ProcessDies(r) ==
    /\ Guard!Crash(r)
    /\ Crash(r) \/ (pc[r] \notin InTransaction /\ UNCHANGED vars)

GuardedStep(r) == GuardStep(r) \/ HandlerStep(r)

GuardedDisturbance(r) == GuardFault(r) \/ HandlerFault(r) \/ ProcessDies(r)

GuardedTerminated ==
    /\ \A r \in Arrived : gpc[r] = "done"
    /\ UNCHANGED guardedVars

GuardedNext ==
    \/ \E r \in Transfer :
          GuardedArrive(r) \/ GuardedStep(r) \/ GuardedDisturbance(r)
    \/ GuardedTerminated

GuardedSpec == GuardedInit /\ [][GuardedNext]_guardedVars

(* Node runs one continuation after another while any is ready, and the    *)
(* server its deadlock detector: whose is next is left open.               *)
GuardedFairSpec ==
    GuardedSpec /\ WF_guardedVars(\E r \in Transfer : GuardedStep(r))

----------------------------------------------------------------------------
(* The service is a handler such as the guard expects: it ends once, with  *)
(* a transfer if and only if it says so, but for a lost answer.  So what   *)
(* holds of the guard around any such handler holds here.                  *)
ImplementsGuard == Guard!Spec

(* A refusal is final.  The conflict's message says "please retry", but    *)
(* middleware/idempotency.ts saves every answer below 500, so a client     *)
(* that was told no under a key is never charged under it: not by a retry  *)
(* on its way, not when the funds are there by then.  Only a request that  *)
(* fell through or an earlier transfer whose COMMIT answer was lost        *)
(* excuses.                                                                *)
Refusal == {"400", "403", "404", "409", "422"}

RefusalIsFinal ==
    \A r, s \in Transfer :
        KeyOf[r] = KeyOf[s] /\ answered[r].status \in Refusal /\ posted[s] > 0 =>
            Guard!FellThrough(KeyOf[r]) \/ Guard!AckWasLost(KeyOf[r])

(* Every request is answered, whatever its handler waits for and whatever  *)
(* fails in saving its answer, unless its process dies.                    *)
EveryRequestEnds == []<>(\A r \in Arrived : gpc[r] = "done")
=============================================================================
