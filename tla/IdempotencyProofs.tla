------------------------- MODULE IdempotencyProofs -------------------------
(***************************************************************************)
(* Theorems about Idempotency, for any requests, keys, bodies, outcomes    *)
(* and faults: its types; and, but for the requests that fell through and  *)
(* the commits whose answer was lost, one execution per key, truthful      *)
(* answers, answers that a repetition of the request finds saved, and rows *)
(* in progress that somebody will settle.                                  *)
(***************************************************************************)
EXTENDS Idempotency, TLAPS

TypeInv ==
    /\ TypeOK
    /\ \A r \in Request : pc[r] \in {"persist", "send"} => outcome[r] \in Outcome

Runner(r) == pc[r] \in {"handle", "persist"}

(* A handler runs over a row of its own, in progress, and alone.           *)
OneRunner ==
    /\ \A r \in Request : Runner(r) /\ ~FellThrough(KeyOf[r]) =>
          keyStatus[KeyOf[r]] = "in_progress" /\ keyHash[KeyOf[r]] = BodyOf[r]
    /\ \A r, s \in Request :
          KeyOf[r] = KeyOf[s] /\ Runner(r) /\ Runner(s) /\ ~FellThrough(KeyOf[r])
              => r = s

(* What a handler did is what its outcome says.                            *)
Consistent ==
    /\ \A r \in Request : pc[r] \in {"idle", "insert", "get", "handle"} =>
          ~executed[r] /\ outcome[r] = "none"
    /\ \A r \in Request : executed[r] <=> outcome[r] \in {"201", "lost"}

Excused(k) == FellThrough(k) \/ AckWasLost(k)

(* An execution keeps the row of its key, and everybody else out.          *)
OneExecution ==
    /\ \A r \in Request : executed[r] /\ ~Excused(KeyOf[r]) =>
          keyStatus[KeyOf[r]] # "absent"
    /\ \A r, s \in Request :
          KeyOf[r] = KeyOf[s] /\ executed[r] /\ (executed[s] \/ Runner(s))
            /\ ~Excused(KeyOf[r])
              => r = s

Names(response, k, body) ==
    response.status = "201" => /\ executed[response.by]
                               /\ KeyOf[response.by] = k
                               /\ BodyOf[response.by] = body

(* What is saved and what is answered tell the truth about executions.     *)
Truthful ==
    /\ \A k \in Key : keyStatus[k] # "absent" /\ ~FellThrough(k)
                         => Names(keyResponse[k], k, keyHash[k])
    /\ \A r \in Request : ~FellThrough(KeyOf[r]) => Names(reply[r], KeyOf[r], BodyOf[r])

Final == {"201", "400", "403", "404", "409", "422"}

SavedAs(k, st) == keyStatus[k] = "completed" /\ keyResponse[k].status = st

(* A final answer is saved before it is sent.                              *)
Saved ==
    \A r \in Request : ~saveFailed[r] /\ ~FellThrough(KeyOf[r]) =>
        /\ pc[r] = "send" /\ outcome[r] \in Final => SavedAs(KeyOf[r], outcome[r])
        /\ reply[r].status \in Final => SavedAs(KeyOf[r], reply[r].status)

IInv == TypeInv /\ OneRunner /\ Consistent /\ OneExecution /\ Truthful /\ Saved

----------------------------------------------------------------------------
LEMMA TypeInit == Init => TypeInv
  BY IdempotencyAssumption DEF Init, TypeInv, TypeOK, NoResponse, Answered

LEMMA TypeNext == TypeInv /\ [Next]_vars => TypeInv'
<1> SUFFICES ASSUME TypeInv, [Next]_vars PROVE TypeInv'
  OBVIOUS
<1> USE IdempotencyAssumption
<1> USE DEF TypeInv, TypeOK, Goto, Answer, Answered, NoResponse, HandlerOutcome,
            tableVars, requestVars
<1>1. CASE UNCHANGED vars
  BY <1>1 DEF vars
<1>2. ASSUME NEW r \in Request, Arrive(r) \/ Claim(r) \/ Duplicate(r) PROVE TypeInv'
  <2>1. CASE Arrive(r)
    BY <2>1 DEF Arrive
  <2>2. CASE Claim(r)
    BY <2>2 DEF Claim, InsertRow
  <2>3. CASE Duplicate(r)
    BY <2>3 DEF Duplicate
  <2> QED
    BY <1>2, <2>1, <2>2, <2>3
<1>3. ASSUME NEW r \in Request, Lookup(r) PROVE TypeInv'
  <2>1. CASE Reuse(r) \/ InProgress(r)
    <3>1. /\ [status |-> "422reuse", by |-> r] \in Answered
          /\ [status |-> "409inProgress", by |-> r] \in Answered
      OBVIOUS
    <3>2. CASE Reuse(r)
      BY <3>1, <3>2 DEF Reuse
    <3>3. CASE InProgress(r)
      BY <3>1, <3>3 DEF InProgress
    <3> QED
      BY <2>1, <3>2, <3>3
  <2>2. CASE Replay(r)
    <3>1. keyResponse[KeyOf[r]] \in Answered
      BY <2>2 DEF Replay
    <3>2. [status |-> keyResponse[KeyOf[r]].status, by |-> keyResponse[KeyOf[r]].by]
            \in Answered
      BY <3>1
    <3> QED
      BY <2>2, <3>2 DEF Replay
  <2>3. CASE FallThrough(r)
    BY <2>3 DEF FallThrough
  <2> QED
    BY <1>3, <2>1, <2>2, <2>3 DEF Lookup
<1>4. ASSUME NEW r \in Request, Handle(r) PROVE TypeInv'
  BY <1>4 DEF Handle
<1>5. ASSUME NEW r \in Request, Release(r) PROVE TypeInv'
  BY <1>5 DEF Release
<1>6. ASSUME NEW r \in Request, Complete(r) PROVE TypeInv'
  <2>1. /\ pc[r] = "persist" /\ outcome[r] \in HandlerOutcome \ {"500", "lost"}
        /\ pc' = [pc EXCEPT ![r] = "send"]
        /\ UNCHANGED <<keyHash, outcome, executed, unclaimed, saveFailed, reply>>
    BY <1>6 DEF Complete, StatusOf
  <2>2. [status |-> outcome[r], by |-> r] \in Answered
    BY <2>1
  <2>3. CASE keyStatus[KeyOf[r]] = "absent"
    BY <1>6, <2>1, <2>3 DEF Complete, Save
  <2>4. CASE keyStatus[KeyOf[r]] # "absent"
    <3>1. /\ keyStatus' = [keyStatus EXCEPT ![KeyOf[r]] = "completed"]
          /\ keyResponse' = [keyResponse EXCEPT ![KeyOf[r]] =
                               [status |-> outcome[r], by |-> r]]
      BY <1>6, <2>4 DEF Complete, Save
    <3>2. keyResponse' \in [Key -> Answered \cup {NoResponse}]
      BY <2>2, <3>1
    <3>3. \A k \in Key : keyStatus'[k] = "completed" => keyResponse'[k] \in Answered
      BY <2>2, <3>1
    <3> HIDE DEF Answered, NoResponse
    <3> QED
      BY <2>1, <3>1, <3>2, <3>3
  <2> QED
    BY <2>3, <2>4
<1>7. ASSUME NEW r \in Request, Send(r) PROVE TypeInv'
  <2>1. [status |-> StatusOf(outcome[r]), by |-> r] \in Answered
    BY <1>7 DEF Send, StatusOf
  <2> QED
    BY <1>7, <2>1 DEF Send
<1>8. ASSUME NEW r \in Request, Disturbance(r) PROVE TypeInv'
  <2>1. CASE ClaimFails(r)
    BY <2>1 DEF ClaimFails
  <2>2. CASE ClaimAckLost(r)
    BY <2>2 DEF ClaimAckLost, InsertRow
  <2>3. CASE PersistFails(r)
    BY <2>3 DEF PersistFails
  <2>4. CASE Crash(r)
    BY <2>4 DEF Crash
  <2> QED
    BY <1>8, <2>1, <2>2, <2>3, <2>4 DEF Disturbance
<1> QED
  BY <1>1, <1>2, <1>3, <1>4, <1>5, <1>6, <1>7, <1>8 DEF Next, Step, Terminated

(* The rows and answers stay within their types, so no caller is answered  *)
(* from a row that holds no response.                                      *)
THEOREM TypeCorrect == Spec => []TypeOK
<1>1. TypeInv => TypeOK
  BY DEF TypeInv
<1> QED
  BY <1>1, TypeInit, TypeNext, PTL DEF Spec

----------------------------------------------------------------------------
LEMMA OnceInit == Init => IInv
  BY TypeInit DEF Init, IInv, OneRunner, Runner, Consistent, OneExecution, Truthful,
                  Names, Saved, Final, NoResponse

(* An action of r that leaves the table, the outcomes and the histories    *)
(* alone, and does not bring r past the guard or out of a handler with an  *)
(* answer of its own.                                                      *)
Uneventful(r) ==
    /\ UNCHANGED <<tableVars, outcome, executed, unclaimed>>
    /\ pc' \in [Request -> {"idle", "insert", "get", "handle", "persist", "send", "done"}]
    /\ \A s \in Request \ {r} : pc'[s] = pc[s] /\ reply'[s] = reply[s]
                              /\ saveFailed'[s] = saveFailed[s]
    /\ Runner(r)' => Runner(r)
    /\ pc'[r] \in {"idle", "insert", "get", "handle"} =>
          pc[r] \in {"idle", "insert", "get", "handle"}
    /\ saveFailed[r] => saveFailed'[r]

LEMMA UneventfulKeeps ==
    ASSUME IInv, NEW r \in Request, Uneventful(r)
    PROVE  (OneRunner /\ Consistent /\ OneExecution)'
<1> USE IdempotencyAssumption
<1> USE DEF IInv, TypeInv, TypeOK, Uneventful, tableVars
<1>1. \A k \in Key : FellThrough(k)' = FellThrough(k) /\ Excused(k)' = Excused(k)
  BY DEF FellThrough, AckWasLost, Excused
<1>2. \A s \in Request : Runner(s)' => Runner(s)
  BY DEF Runner
<1>3. OneRunner'
  BY <1>1, <1>2 DEF OneRunner
<1>4. Consistent'
  BY DEF Consistent
<1>5. OneExecution'
  BY <1>1, <1>2 DEF OneExecution
<1> QED
  BY <1>3, <1>4, <1>5

(* Waiting, reading a row, answering and failing change nothing that       *)
(* matters, but for the answer, which is true.                             *)
LEMMA UneventfulNext ==
    ASSUME IInv, NEW r \in Request,
           \/ Arrive(r) \/ Duplicate(r) \/ Reuse(r) \/ InProgress(r) \/ Replay(r)
           \/ Send(r) \/ ClaimFails(r) \/ PersistFails(r) \/ Crash(r)
    PROVE  (OneRunner /\ Consistent /\ OneExecution /\ Truthful /\ Saved)'
<1> USE IdempotencyAssumption
<1> USE DEF IInv, TypeInv, TypeOK, Goto, Answer, tableVars, requestVars
<1>1. Uneventful(r)
  BY DEF Uneventful, Runner, Arrive, Duplicate, Reuse, InProgress, Replay, Send,
         ClaimFails, PersistFails, Crash
<1>2. (OneRunner /\ Consistent /\ OneExecution)'
  BY <1>1, UneventfulKeeps
<1>3. \A k \in Key : FellThrough(k)' = FellThrough(k)
  BY <1>1 DEF Uneventful, FellThrough
<1>4. \/ reply'[r] = reply[r]
      \/ reply'[r].status \notin Final
      \/ Send(r) /\ pc[r] = "send" /\ reply'[r] = [status |-> StatusOf(outcome[r]), by |-> r]
      \/ Replay(r) /\ reply'[r] = [status |-> keyResponse[KeyOf[r]].status,
                                     by |-> keyResponse[KeyOf[r]].by]
  BY DEF Final, Arrive, Duplicate, Reuse, InProgress, Replay, Send, ClaimFails,
         PersistFails, Crash
<1>5. Truthful'
  <2>1. \A s \in Request : ~FellThrough(KeyOf[s]) =>
           Names(reply'[s], KeyOf[s], BodyOf[s])
    <3>1. CASE Send(r) /\ pc[r] = "send" /\ reply'[r] = [status |-> StatusOf(outcome[r]), by |-> r]
      BY <1>1, <3>1 DEF Uneventful, Truthful, Names, Consistent, StatusOf
    <3>2. CASE Replay(r) /\ reply'[r] = [status |-> keyResponse[KeyOf[r]].status,
                                     by |-> keyResponse[KeyOf[r]].by]
      BY <1>1, <3>2 DEF Uneventful, Truthful, Names, Replay
    <3> QED
      BY <1>1, <1>4, <3>1, <3>2 DEF Uneventful, Truthful, Names, Final
  <2> QED
    BY <1>1, <1>3, <2>1 DEF Uneventful, Truthful, Names
<1>6. Saved'
  <2> SUFFICES ASSUME NEW s \in Request, ~saveFailed'[s], ~FellThrough(KeyOf[s])'
               PROVE  /\ pc'[s] = "send" /\ outcome'[s] \in Final
                            => SavedAs(KeyOf[s], outcome[s])
                      /\ reply'[s].status \in Final => SavedAs(KeyOf[s], reply'[s].status)
    BY <1>1 DEF Saved, SavedAs, Uneventful
  <2>1. ~saveFailed[s] /\ ~FellThrough(KeyOf[s])
    BY <1>1, <1>3 DEF Uneventful
  <2>2. CASE s # r
    BY <1>1, <2>1, <2>2 DEF Uneventful, Saved
  <2>3. CASE s = r
    <3>1. pc'[r] = "send" => saveFailed'[r]
      BY DEF Arrive, Duplicate, Reuse, InProgress, Replay, Send, ClaimFails, PersistFails, Crash
    <3>2. CASE Send(r) /\ pc[r] = "send" /\ reply'[r] = [status |-> StatusOf(outcome[r]), by |-> r]
      BY <2>1, <2>3, <3>1, <3>2 DEF Saved, StatusOf, Final
    <3>3. CASE Replay(r) /\ reply'[r] = [status |-> keyResponse[KeyOf[r]].status,
                                     by |-> keyResponse[KeyOf[r]].by]
      BY <2>3, <3>1, <3>3 DEF Replay, SavedAs
    <3> QED
      BY <1>4, <2>1, <2>3, <3>1, <3>2, <3>3 DEF Saved
  <2> QED
    BY <2>2, <2>3
<1> QED
  BY <1>2, <1>5, <1>6
(* Whoever falls through excuses its key, and touches nothing of others.   *)
LEMMA FallThroughNext ==
    ASSUME IInv, NEW r \in Request, FallThrough(r)
    PROVE  (OneRunner /\ Consistent /\ OneExecution /\ Truthful /\ Saved)'
<1> USE IdempotencyAssumption
<1> USE DEF IInv, TypeInv, TypeOK, Goto, tableVars, FallThrough
<1>1. FellThrough(KeyOf[r])'
  BY DEF FellThrough
<1>2. \A k \in Key : /\ FellThrough(k) => FellThrough(k)'
                     /\ Excused(k) => Excused(k)'
  BY DEF FellThrough, AckWasLost, Excused
<1>3. Excused(KeyOf[r])'
  BY <1>1 DEF Excused
<1>4. \A s \in Request \ {r} : Runner(s)' = Runner(s)
  BY DEF Runner
<1>5. OneRunner'
  <2>1. UNCHANGED <<keyStatus, keyHash>> /\ OneRunner
    OBVIOUS
  <2> HIDE DEF IInv, FallThrough
  <2> QED
    BY <1>1, <1>2, <1>4, <2>1 DEF OneRunner
<1>6. Consistent'
  BY DEF Consistent
<1>7. OneExecution'
  BY <1>2, <1>3, <1>4 DEF OneExecution
<1>8. Truthful'
  <2>1. UNCHANGED <<keyStatus, keyHash, keyResponse, executed, reply>> /\ Truthful
    OBVIOUS
  <2> HIDE DEF IInv, FallThrough
  <2> QED
    BY <1>2, <2>1 DEF Truthful, Names
<1>9. Saved'
  BY <1>2 DEF Saved, SavedAs
<1> QED
  BY <1>5, <1>6, <1>7, <1>8, <1>9

(* A new row: nobody was past the guard of the key.                        *)
LEMMA InsertNext ==
    ASSUME IInv, NEW r \in Request, Claim(r) \/ ClaimAckLost(r)
    PROVE  (OneRunner /\ Consistent /\ OneExecution /\ Truthful /\ Saved)'
<1> USE IdempotencyAssumption
<1> USE DEF IInv, TypeInv, TypeOK, Goto, Answer
<1> DEFINE k == KeyOf[r]
<1>1. /\ pc[r] = "insert" /\ keyStatus[k] = "absent"
      /\ keyStatus' = [keyStatus EXCEPT ![k] = "in_progress"]
      /\ keyHash' = [keyHash EXCEPT ![k] = BodyOf[r]]
      /\ keyResponse' = [keyResponse EXCEPT ![k] = NoResponse]
      /\ UNCHANGED <<outcome, executed, unclaimed, saveFailed>>
  BY DEF Claim, ClaimAckLost, InsertRow
<1>2. /\ \A s \in Request \ {r} : pc'[s] = pc[s] /\ reply'[s] = reply[s]
      /\ pc'[r] \in {"handle", "done"}
      /\ reply'[r] = reply[r] \/ reply'[r].status = "500"
  BY DEF Claim, ClaimAckLost
<1>3. \A j \in Key : FellThrough(j)' = FellThrough(j) /\ Excused(j)' = Excused(j)
  BY <1>1 DEF FellThrough, AckWasLost, Excused
<1>4. \A s \in Request : KeyOf[s] = k /\ ~FellThrough(k) => ~Runner(s)
  BY <1>1 DEF OneRunner
<1>5. \A s \in Request : KeyOf[s] = k /\ ~Excused(k) => ~executed[s]
  BY <1>1 DEF OneExecution
<1>6. \A s \in Request \ {r} : Runner(s)' = Runner(s)
  BY <1>2 DEF Runner
<1>7. OneRunner'
  BY <1>1, <1>3, <1>4, <1>6 DEF OneRunner
<1>8. Consistent'
  BY <1>1, <1>2 DEF Consistent
<1>9. OneExecution'
  BY <1>1, <1>3, <1>5, <1>6 DEF OneExecution
<1>10. Truthful'
  BY <1>1, <1>2, <1>3 DEF Truthful, Names, NoResponse
<1>11. Saved'
  <2>1. \A s \in Request : pc'[s] = "send" => pc[s] = "send" /\ s # r
    BY <1>1, <1>2
  <2>2. \A s \in Request : reply'[s].status \in Final => reply'[s] = reply[s]
    BY <1>2 DEF Final
  <2>3. \A j \in Key, st \in Final : SavedAs(j, st) => SavedAs(j, st)'
    BY <1>1 DEF SavedAs
  <2> QED
    BY <1>1, <1>3, <2>1, <2>2, <2>3 DEF Saved
<1> QED
  BY <1>7, <1>8, <1>9, <1>10, <1>11

(* A handler that executes is alone on its key, or excused.                *)
LEMMA HandleNext ==
    ASSUME IInv, NEW r \in Request, Handle(r)
    PROVE  (OneRunner /\ Consistent /\ OneExecution /\ Truthful /\ Saved)'
<1> USE IdempotencyAssumption
<1> USE DEF IInv, TypeInv, TypeOK, Goto, tableVars
<1>1. PICK o \in Outcome :
          /\ outcome' = [outcome EXCEPT ![r] = o]
          /\ executed' = [executed EXCEPT ![r] = o \in {"201", "lost"}]
  BY DEF Handle
<1>2. /\ pc[r] = "handle" /\ pc' = [pc EXCEPT ![r] = "persist"]
      /\ UNCHANGED <<keyStatus, keyHash, keyResponse, unclaimed, saveFailed, reply>>
  BY DEF Handle
<1>3. ~executed[r] /\ outcome[r] = "none"
  BY <1>2 DEF Consistent
<1>4. \A k \in Key : FellThrough(k)' = FellThrough(k)
  BY <1>2 DEF FellThrough
<1>5. \A k \in Key : Excused(k) => Excused(k)'
  BY <1>1, <1>2, <1>3 DEF FellThrough, AckWasLost, Excused
<1>6. \A s \in Request : Runner(s)' = Runner(s)
  BY <1>2 DEF Runner
<1>7. OneRunner'
  BY <1>2, <1>4, <1>6 DEF OneRunner
<1>8. Consistent'
  BY <1>1, <1>2 DEF Consistent
<1>9. OneExecution'
  <2>1. \A s \in Request : executed'[s] => executed[s] \/ s = r
    BY <1>1
  <2>2. Runner(r)
    BY <1>2 DEF Runner
  <2>3. ~FellThrough(KeyOf[r]) => /\ keyStatus[KeyOf[r]] # "absent"
                                  /\ \A s \in Request :
                                       KeyOf[s] = KeyOf[r] /\ Runner(s) => s = r
    BY <2>2 DEF OneRunner
  <2>4. ~Excused(KeyOf[r]) => /\ ~FellThrough(KeyOf[r])
                              /\ \A s \in Request : KeyOf[s] = KeyOf[r] => ~executed[s]
    BY <1>3, <2>2 DEF OneExecution, Excused
  <2> QED
    BY <1>2, <1>5, <1>6, <2>1, <2>3, <2>4 DEF OneExecution
<1>10. Truthful'
  <2>1. \A s \in Request : executed[s] => executed'[s]
    BY <1>1, <1>3
  <2>2. ASSUME NEW j \in Key, NEW b \in Body, NEW m \in Answered \cup {NoResponse},
               Names(m, j, b)
        PROVE  Names(m, j, b)'
    BY <2>1, <2>2 DEF Names, Answered, NoResponse
  <2> QED
    BY <1>2, <1>4, <2>2 DEF Truthful
<1>11. Saved'
  BY <1>1, <1>2, <1>4 DEF Saved, SavedAs
<1> QED
  BY <1>7, <1>8, <1>9, <1>10, <1>11

(* release() frees the row of a request that executed nothing, or whose    *)
(* answer was lost; nothing was saved in it.                               *)
LEMMA ReleaseNext ==
    ASSUME IInv, NEW r \in Request, Release(r)
    PROVE  (OneRunner /\ Consistent /\ OneExecution /\ Truthful /\ Saved)'
<1> USE IdempotencyAssumption
<1> USE DEF IInv, TypeInv, TypeOK, Goto
<1> DEFINE k == KeyOf[r]
<1>1. /\ pc[r] = "persist" /\ pc' = [pc EXCEPT ![r] = "send"]
      /\ keyStatus' = [keyStatus EXCEPT ![k] = "absent"]
      /\ outcome[r] \in {"500", "lost"}
      /\ UNCHANGED <<keyHash, keyResponse, outcome, executed, unclaimed, saveFailed, reply>>
  BY DEF Release, StatusOf
<1>2. \A j \in Key : FellThrough(j)' = FellThrough(j) /\ Excused(j)' = Excused(j)
  BY <1>1 DEF FellThrough, AckWasLost, Excused
<1>3. Runner(r) /\ ~Runner(r)'
  BY <1>1 DEF Runner
<1>4. \A s \in Request \ {r} : Runner(s)' = Runner(s)
  BY <1>1 DEF Runner
<1>5. OneRunner'
  BY <1>1, <1>2, <1>3, <1>4 DEF OneRunner
<1>6. Consistent'
  BY <1>1 DEF Consistent
<1>7. ~Excused(k) => \A s \in Request : KeyOf[s] = k => ~executed[s]
  BY <1>1, <1>3 DEF OneExecution, Consistent, Excused, AckWasLost
<1>8. OneExecution'
  BY <1>1, <1>2, <1>3, <1>4, <1>7 DEF OneExecution
<1>9. Truthful'
  BY <1>1, <1>2 DEF Truthful, Names
<1>10. Saved'
  <2>1. ~FellThrough(k) => keyStatus[k] = "in_progress"
    BY <1>3 DEF OneRunner
  <2>2. ~FellThrough(k) => \A st \in Final : ~SavedAs(k, st)
    BY <2>1 DEF SavedAs
  <2>3. \A j \in Key \ {k}, st \in Final : SavedAs(j, st)' = SavedAs(j, st)
    BY <1>1 DEF SavedAs
  <2>4. \A s \in Request : pc'[s] = "send" /\ outcome[s] \in Final => pc[s] = "send"
    BY <1>1 DEF Final
  <2> QED
    BY <1>1, <1>2, <2>2, <2>3, <2>4 DEF Saved
<1> QED
  BY <1>5, <1>6, <1>8, <1>9, <1>10

(* complete() saves the outcome in the row of the request that ran.        *)
LEMMA CompleteNext ==
    ASSUME IInv, NEW r \in Request, Complete(r)
    PROVE  (OneRunner /\ Consistent /\ OneExecution /\ Truthful /\ Saved)'
<1> USE IdempotencyAssumption
<1> USE DEF IInv, TypeInv, TypeOK, Goto
<1> DEFINE k == KeyOf[r]
<1>1. /\ pc[r] = "persist" /\ pc' = [pc EXCEPT ![r] = "send"]
      /\ UNCHANGED <<keyHash, outcome, executed, unclaimed, saveFailed, reply>>
      /\ \A j \in Key \ {k} : keyStatus'[j] = keyStatus[j] /\ keyResponse'[j] = keyResponse[j]
      /\ keyStatus'[k] = "absent" <=> keyStatus[k] = "absent"
      /\ keyStatus[k] # "absent" => /\ keyStatus'[k] = "completed"
                                    /\ keyResponse'[k] = [status |-> outcome[r], by |-> r]
  BY DEF Complete, Save
<1>2. \A j \in Key : FellThrough(j)' = FellThrough(j) /\ Excused(j)' = Excused(j)
  BY <1>1 DEF FellThrough, AckWasLost, Excused
<1>3. Runner(r) /\ ~Runner(r)'
  BY <1>1 DEF Runner
<1>4. \A s \in Request \ {r} : Runner(s)' = Runner(s)
  BY <1>1 DEF Runner
<1>5. ~FellThrough(k) =>
          /\ keyStatus[k] = "in_progress" /\ keyHash[k] = BodyOf[r]
          /\ \A s \in Request : KeyOf[s] = k /\ Runner(s) => s = r
  BY <1>3 DEF OneRunner
<1>6. OneRunner'
  BY <1>1, <1>2, <1>3, <1>4, <1>5 DEF OneRunner
<1>7. Consistent'
  BY <1>1 DEF Consistent
<1>8. OneExecution'
  <2>1. \A j \in Key : keyStatus'[j] = "absent" <=> keyStatus[j] = "absent"
    BY <1>1
  <2>2. \A s \in Request : Runner(s)' => Runner(s)
    BY <1>3, <1>4
  <2> QED
    BY <1>1, <1>2, <2>1, <2>2 DEF OneExecution
<1>9. Truthful'
  <2>1. ~FellThrough(k) => Names(keyResponse'[k], k, keyHash[k])
    BY <1>1, <1>5 DEF Names, Consistent
  <2> QED
    BY <1>1, <1>2, <2>1 DEF Truthful, Names
<1>10. Saved'
  <2>1. ~FellThrough(k) => /\ \A st \in Final : ~SavedAs(k, st)
                           /\ SavedAs(k, outcome[r])'
    BY <1>1, <1>5 DEF SavedAs
  <2>2. \A j \in Key \ {k} : \A st \in Final : SavedAs(j, st)' = SavedAs(j, st)
    BY <1>1 DEF SavedAs
  <2>3. \A s \in Request \ {r} : pc'[s] = pc[s]
    BY <1>1
  <2>4. outcome'[r] = outcome[r]
    BY <1>1
  <2> QED
    BY <1>1, <1>2, <2>1, <2>2, <2>3, <2>4 DEF Saved
<1> QED
  BY <1>6, <1>7, <1>8, <1>9, <1>10

----------------------------------------------------------------------------
LEMMA Inductive == Spec => []IInv
<1>1. Init => IInv
  BY OnceInit
<1>2. ASSUME IInv, [Next]_vars PROVE IInv'
  <2>1. TypeInv'
    BY <1>2, TypeNext DEF IInv
  <2>2. CASE UNCHANGED vars
    BY <1>2, <2>2 DEF vars, tableVars, requestVars, IInv, TypeInv, TypeOK, OneRunner, Runner,
       Consistent, OneExecution, Excused, FellThrough, AckWasLost, Truthful, Names, Saved, SavedAs
  <2>3. ASSUME NEW r \in Request, Arrive(r) \/ Step(r) \/ Disturbance(r)
        PROVE  (OneRunner /\ Consistent /\ OneExecution /\ Truthful /\ Saved)'
    BY <1>2, <2>3, UneventfulNext, FallThroughNext, InsertNext, HandleNext, ReleaseNext,
       CompleteNext DEF Step, Disturbance, Lookup
  <2> QED
    BY <1>2, <2>1, <2>2, <2>3 DEF Next, Terminated, IInv
<1> QED
  BY <1>1, <1>2, PTL DEF Spec

(* A key executes at most once, whatever crashes, failures of the guard    *)
(* and lost answers there are, but for requests that fell through and      *)
(* commits whose answer was lost.                                          *)
THEOREM ExecutesOnce == Spec => []AtMostOnce
<1>1. IInv => AtMostOnce
  BY DEF IInv, OneExecution, Excused, AtMostOnce
<1> QED
  BY <1>1, Inductive, PTL

(* And every 201 under a key, replayed or not, names an execution under    *)
(* it, with the body the caller sent.                                      *)
THEOREM RepliesAreReal == Spec => []RepliesNameTheTransfer
<1>1. IInv => RepliesNameTheTransfer
  BY DEF IInv, Truthful, Names, RepliesNameTheTransfer
<1> QED
  BY <1>1, Inductive, PTL

(* The order of persist and send: what a client was told is what the row   *)
(* says from then on, and a repetition of the request is told the same.    *)
THEOREM AnswersStaySaved == Spec => []AnswersAreSaved
<1>1. IInv => AnswersAreSaved
  BY DEF IInv, Saved, SavedAs, Final, HandlerOutcome, AnswersAreSaved
<1> QED
  BY <1>1, Inductive, PTL
----------------------------------------------------------------------------
(* A row in progress has a runner or an orphan: what was answered, and     *)
(* what could not be saved, stays so.                                      *)
UnansweredUntilDone == \A r \in Request : pc[r] # "done" => reply[r] = NoResponse

PInv == IInv /\ UnansweredUntilDone /\ InProgressMeansRunning

(* An orphaned key stays orphaned.                                         *)
LEMMA OrphansStay ==
    ASSUME PInv, NEW r \in Request, Arrive(r) \/ Step(r) \/ Disturbance(r)
    PROVE  UnansweredUntilDone' /\ \A k \in Key : Orphaned(k) => Orphaned(k)'
<1> USE IdempotencyAssumption
<1> USE DEF PInv, IInv, TypeInv, TypeOK, Goto, Answer, tableVars, requestVars
<1>1. /\ pc[r] # "done"
      /\ \A s \in Request \ {r} : /\ pc'[s] = pc[s] /\ reply'[s] = reply[s]
                                 /\ outcome'[s] = outcome[s]
      /\ \A s \in Request : saveFailed[s] => saveFailed'[s]
  BY DEF Step, Disturbance, Lookup, Arrive, Claim, Duplicate, Reuse, InProgress, Replay,
         FallThrough, Handle, Release, Complete, Send, ClaimFails, ClaimAckLost,
         PersistFails, Crash
<1>2. pc'[r] # "done" => reply'[r] = reply[r]
  BY DEF Step, Disturbance, Lookup, Arrive, Claim, Duplicate, Reuse, InProgress, Replay,
         FallThrough, Handle, Release, Complete, Send, ClaimFails, ClaimAckLost,
         PersistFails, Crash
<1>3. UnansweredUntilDone'
  BY <1>1, <1>2 DEF UnansweredUntilDone
<1>4. reply[r] = NoResponse
  BY <1>1 DEF UnansweredUntilDone
<1>5. ASSUME NEW k \in Key, Orphaned(k) PROVE Orphaned(k)'
  <2>1. PICK s \in Request :
            /\ KeyOf[s] = k
            /\ \/ saveFailed[s]
               \/ reply[s].status = "noAnswer"
               \/ reply[s].status = "500" /\ outcome[s] = "none"
    BY <1>5 DEF Orphaned
  <2>2. s = r => saveFailed[s]
    BY <1>4, <2>1 DEF NoResponse
  <2> QED
    BY <1>1, <2>1, <2>2 DEF Orphaned
<1> QED
  BY <1>3, <1>5

(* Who stops running leaves its row settled, or its key orphaned.          *)
LEMMA InProgressNext ==
    ASSUME PInv, NEW r \in Request, Arrive(r) \/ Step(r) \/ Disturbance(r)
    PROVE  InProgressMeansRunning'
<1> USE IdempotencyAssumption
<1> USE DEF PInv, IInv, TypeInv, TypeOK, Goto, Answer, tableVars, requestVars
<1> DEFINE k == KeyOf[r]
<1>1. \A j \in Key : Orphaned(j) => Orphaned(j)'
  BY OrphansStay
<1>2. /\ \A s \in Request \ {r} : pc'[s] = pc[s]
      /\ \A j \in Key \ {k} : keyStatus'[j] = keyStatus[j]
  BY DEF Step, Disturbance, Lookup, Arrive, Claim, Duplicate, Reuse, InProgress, Replay,
         FallThrough, Handle, Release, Complete, Save, Send, ClaimFails, ClaimAckLost,
         InsertRow, PersistFails, Crash
<1>3. \A j \in Key \ {k} : keyStatus'[j] = "in_progress" =>
          \/ \E s \in Request : KeyOf[s] = j /\ Runner(s)'
          \/ Orphaned(j)'
  BY <1>1, <1>2 DEF InProgressMeansRunning, Runner
<1>4. keyStatus'[k] = "in_progress" =>
          \/ \E s \in Request : KeyOf[s] = k /\ Runner(s)'
          \/ Orphaned(k)'
  <2>1. CASE Claim(r) \/ FallThrough(r) \/ Handle(r)
    BY <2>1 DEF Claim, FallThrough, Handle, Runner
  <2>2. CASE Release(r) \/ Complete(r)
    BY <2>2 DEF Release, Complete, Save
  <2>3. CASE PersistFails(r)
    BY <2>3 DEF PersistFails, Orphaned
  <2>4. CASE Crash(r)
    BY <2>4 DEF Crash, Orphaned
  <2>5. CASE ClaimAckLost(r)
    BY <2>5 DEF ClaimAckLost, Orphaned, Consistent
  <2>6. CASE \/ Arrive(r) \/ Duplicate(r) \/ Reuse(r) \/ InProgress(r) \/ Replay(r)
             \/ Send(r) \/ ClaimFails(r)
    <3>1. keyStatus' = keyStatus /\ ~Runner(r)
      BY <2>6 DEF Runner, Arrive, Duplicate, Reuse, InProgress, Replay, Send, ClaimFails
    <3> QED
      BY <1>1, <1>2, <3>1 DEF InProgressMeansRunning, Runner
  <2> QED
    BY <2>1, <2>2, <2>3, <2>4, <2>5, <2>6 DEF Step, Disturbance, Lookup
<1> QED
  BY <1>3, <1>4 DEF InProgressMeansRunning, Runner

(* migrations/0004's 'in_progress' is true: somebody runs, unless a fault  *)
(* of the database or the process left the key to nobody.                  *)
THEOREM InProgressIsTrue == Spec => []InProgressMeansRunning
<1>1. Init => UnansweredUntilDone /\ InProgressMeansRunning
  BY IdempotencyAssumption DEF Init, UnansweredUntilDone, InProgressMeansRunning
<1>2. ASSUME IInv, IInv', UnansweredUntilDone, InProgressMeansRunning, [Next]_vars
      PROVE  (UnansweredUntilDone /\ InProgressMeansRunning)'
  <2>1. CASE UNCHANGED vars
    BY <1>2, <2>1 DEF vars, tableVars, requestVars, UnansweredUntilDone,
       InProgressMeansRunning, Orphaned
  <2>2. ASSUME NEW r \in Request, Arrive(r) \/ Step(r) \/ Disturbance(r)
        PROVE  (UnansweredUntilDone /\ InProgressMeansRunning)'
    <3>1. PInv
      BY <1>2 DEF PInv
    <3> QED
      BY <2>2, <3>1, OrphansStay, InProgressNext
  <2> QED
    BY <1>2, <2>1, <2>2 DEF Next, Terminated
<1> QED
  BY <1>1, <1>2, Inductive, PTL DEF Spec
----------------------------------------------------------------------------
(* A handler that ends with an answer to be saved is the last that runs    *)
(* under its key: the row stays, and keeps everybody else out.             *)
OneEnding ==
    /\ \A r \in Request : outcome[r] \in Final /\ ~FellThrough(KeyOf[r]) =>
          keyStatus[KeyOf[r]] # "absent"
    /\ \A r, s \in Request :
          /\ KeyOf[r] = KeyOf[s]
          /\ outcome[r] \in Final /\ (outcome[s] \in Final \/ Runner(s))
          /\ ~FellThrough(KeyOf[r])
          => r = s

EndsIn(response, k) ==
    response.status \in Final =>
        KeyOf[response.by] = k /\ outcome[response.by] = response.status

(* What is saved and what is answered is how a handler of the key ended.   *)
Sourced ==
    /\ \A k \in Key : keyStatus[k] # "absent" /\ ~FellThrough(k) => EndsIn(keyResponse[k], k)
    /\ \A r \in Request : ~FellThrough(KeyOf[r]) => EndsIn(reply[r], KeyOf[r])

(* No ending is forgotten, and nobody stops having fallen through.         *)
LEMMA EndingsStay ==
    ASSUME IInv, NEW r \in Request, Arrive(r) \/ Step(r) \/ Disturbance(r)
    PROVE  /\ \A s \in Request : outcome[s] # "none" => outcome'[s] = outcome[s]
           /\ \A s \in Request \ {r} : outcome'[s] = outcome[s] /\ Runner(s)' = Runner(s)
           /\ \A k \in Key : FellThrough(k) => FellThrough(k)'
<1> USE DEF IInv, TypeInv, TypeOK, Goto, Answer, tableVars, requestVars
<1>1. \/ outcome' = outcome
      \/ Handle(r) /\ outcome[r] = "none" /\ \A s \in Request \ {r} : outcome'[s] = outcome[s]
  BY DEF Step, Disturbance, Lookup, Arrive, Claim, Duplicate, Reuse, InProgress, Replay,
         FallThrough, Handle, Release, Complete, Send, ClaimFails, ClaimAckLost,
         PersistFails, Crash, Consistent
<1>2. /\ \A s \in Request : unclaimed[s] => unclaimed'[s]
      /\ \A s \in Request \ {r} : pc'[s] = pc[s]
  BY DEF Step, Disturbance, Lookup, Arrive, Claim, Duplicate, Reuse, InProgress, Replay,
         FallThrough, Handle, Release, Complete, Send, ClaimFails, ClaimAckLost,
         PersistFails, Crash
<1> QED
  BY <1>1, <1>2 DEF FellThrough, Runner

(* Whose key is free, or its row another's, does not get past the guard;   *)
(* and only a handler that ended with nothing to save frees a row.         *)
LEMMA OneEndingNext ==
    ASSUME IInv, OneEnding, NEW r \in Request, Arrive(r) \/ Step(r) \/ Disturbance(r)
    PROVE  OneEnding'
<1> USE IdempotencyAssumption
<1> USE DEF IInv, TypeInv, TypeOK
<1> DEFINE k == KeyOf[r]
<1>1. /\ \A s \in Request \ {r} : outcome'[s] = outcome[s] /\ Runner(s)' = Runner(s)
      /\ \A j \in Key : FellThrough(j) => FellThrough(j)'
  BY EndingsStay
<1>2. CASE Claim(r)
  <2>1. /\ keyStatus[k] = "absent" /\ outcome' = outcome
        /\ keyStatus' = [keyStatus EXCEPT ![k] = "in_progress"]
    BY <1>2 DEF Claim, InsertRow
  <2>2. ~FellThrough(k) => \A s \in Request : KeyOf[s] = k => outcome[s] \notin Final /\ ~Runner(s)
    BY <2>1 DEF OneEnding, OneRunner
  <2> QED
    BY <1>1, <2>1, <2>2 DEF OneEnding
<1>3. CASE FallThrough(r)
  <2>1. FellThrough(k)' /\ outcome' = outcome /\ keyStatus' = keyStatus
    BY <1>3 DEF FallThrough, FellThrough, tableVars
  <2> QED
    BY <1>1, <2>1 DEF OneEnding
<1>4. CASE Handle(r)
  <2>1. Runner(r) /\ keyStatus' = keyStatus
    BY <1>4 DEF Handle, Runner, tableVars
  <2>2. ~FellThrough(k) => /\ keyStatus[k] # "absent"
                           /\ \A s \in Request : KeyOf[s] = k /\ Runner(s) => s = r
    BY <2>1 DEF OneRunner
  <2> QED
    BY <1>1, <2>1, <2>2 DEF OneEnding
<1>5. CASE Release(r)
  <2>1. /\ Runner(r) /\ outcome[r] \notin Final /\ outcome' = outcome
        /\ \A j \in Key \ {k} : keyStatus'[j] = keyStatus[j]
    BY <1>5 DEF Release, Runner, StatusOf, Final
  <2>2. ~FellThrough(k) => \A s \in Request : KeyOf[s] = k => outcome[s] \notin Final
    BY <2>1 DEF OneEnding
  <2> QED
    BY <1>1, <2>1, <2>2 DEF OneEnding
<1>6. CASE \/ Arrive(r) \/ Duplicate(r) \/ Reuse(r) \/ InProgress(r) \/ Replay(r)
           \/ Complete(r) \/ Send(r) \/ Disturbance(r)
  <2>1. /\ outcome' = outcome /\ (Runner(r)' => Runner(r))
        /\ \A j \in Key : keyStatus[j] # "absent" => keyStatus'[j] # "absent"
    BY <1>6 DEF Arrive, Duplicate, Reuse, InProgress, Replay, Complete, Save, Send, Disturbance,
       ClaimFails, ClaimAckLost, InsertRow, PersistFails, Crash, Runner, Goto, Answer,
       tableVars, requestVars
  <2> QED
    BY <1>1, <2>1 DEF OneEnding
<1> QED
  BY <1>2, <1>3, <1>4, <1>5, <1>6 DEF Step, Lookup

(* A response is written by complete() and by res.json, from the outcome   *)
(* of the handler that ran, or copied from the row of the key.             *)
LEMMA SourcedNext ==
    ASSUME IInv, Sourced, NEW r \in Request, Arrive(r) \/ Step(r) \/ Disturbance(r)
    PROVE  Sourced'
<1> USE IdempotencyAssumption
<1> USE DEF IInv, TypeInv, TypeOK
<1> DEFINE k == KeyOf[r]
           Own == [status |-> outcome[r], by |-> r]
<1>1. /\ \A s \in Request : outcome[s] # "none" => outcome'[s] = outcome[s]
      /\ \A j \in Key : FellThrough(j) => FellThrough(j)'
  BY EndingsStay
<1>2. ASSUME NEW j \in Key, NEW m \in Answered \cup {NoResponse}, EndsIn(m, j)
      PROVE  EndsIn(m, j)'
  BY <1>1, <1>2 DEF EndsIn, Answered, NoResponse, Final
<1>3. ASSUME NEW j \in Key, keyStatus'[j] # "absent", ~FellThrough(j)'
      PROVE  EndsIn(keyResponse[j], j)'
  <2>1. \/ keyStatus[j] # "absent" /\ keyResponse'[j] = keyResponse[j]
        \/ keyResponse'[j] = NoResponse
        \/ j = k /\ keyResponse'[j] = Own /\ outcome'[r] = outcome[r]
    BY <1>3 DEF Step, Disturbance, Lookup, Arrive, Claim, Duplicate, Reuse, InProgress, Replay,
       FallThrough, Handle, Release, Complete, Save, Send, ClaimFails, ClaimAckLost, InsertRow,
       PersistFails, Crash, tableVars, requestVars
  <2>2. CASE keyStatus[j] # "absent" /\ keyResponse'[j] = keyResponse[j]
    BY <1>1, <1>2, <1>3, <2>2 DEF Sourced
  <2>3. CASE keyResponse'[j] = NoResponse
    BY <2>3 DEF EndsIn, NoResponse, Final
  <2>4. CASE j = k /\ keyResponse'[j] = Own /\ outcome'[r] = outcome[r]
    BY <2>4 DEF EndsIn
  <2> QED
    BY <2>1, <2>2, <2>3, <2>4
<1>4. ASSUME NEW s \in Request, ~FellThrough(KeyOf[s])'
      PROVE  EndsIn(reply[s], KeyOf[s])'
  <2>1. \/ reply'[s] = reply[s]
        \/ reply'[s].status \notin Final
        \/ /\ s = r /\ reply'[r] = [status |-> StatusOf(outcome[r]), by |-> r]
           /\ outcome'[r] = outcome[r]
        \/ /\ s = r /\ keyStatus[k] # "absent"
           /\ reply'[r] = [status |-> keyResponse[k].status, by |-> keyResponse[k].by]
    BY DEF Step, Disturbance, Lookup, Arrive, Claim, Duplicate, Reuse, InProgress, Replay,
       FallThrough, Handle, Release, Complete, Send, ClaimFails, ClaimAckLost,
       PersistFails, Crash, Goto, Answer, requestVars, Final
  <2>2. CASE reply'[s] = reply[s]
    BY <1>1, <1>2, <1>4, <2>2 DEF Sourced
  <2>3. CASE reply'[s].status \notin Final
    BY <2>3 DEF EndsIn
  <2>4. CASE /\ s = r /\ reply'[r] = [status |-> StatusOf(outcome[r]), by |-> r]
             /\ outcome'[r] = outcome[r]
    BY <2>4 DEF EndsIn, StatusOf, Final
  <2>5. CASE /\ s = r /\ keyStatus[k] # "absent"
             /\ reply'[r] = [status |-> keyResponse[k].status, by |-> keyResponse[k].by]
    <3>1. EndsIn(keyResponse[k], k) /\ keyResponse[k] \in Answered \cup {NoResponse}
      BY <1>1, <1>4, <2>5 DEF Sourced
    <3>2. keyResponse[k].status \in Final => outcome'[keyResponse[k].by] = keyResponse[k].status
      BY <1>1, <3>1 DEF EndsIn, Answered, NoResponse, Final
    <3> QED
      BY <2>5, <3>1, <3>2 DEF EndsIn
  <2> QED
    BY <2>1, <2>2, <2>3, <2>4, <2>5
<1> QED
  BY <1>3, <1>4 DEF Sourced

(* The guard's half of a final refusal: under a key one of whose callers   *)
(* was told a 4xx of the handler, no handler has executed or will, but for *)
(* the two gaps AtMostOnce has.                                            *)
RefusedIsNotExecuted ==
    \A r, s \in Request :
        KeyOf[r] = KeyOf[s] /\ reply[r].status \in Final \ {"201"} /\ executed[s] =>
            FellThrough(KeyOf[r]) \/ AckWasLost(KeyOf[r])

(* A client that was refused under a key is not charged under it: not by a *)
(* request that was waiting, nor by a repetition, whatever crashes, fails  *)
(* to be saved, or is answered late.                                       *)
THEOREM RefusalsStayFinal == Spec => []RefusedIsNotExecuted
<1>1. Init => OneEnding /\ Sourced
  BY IdempotencyAssumption DEF Init, OneEnding, Sourced, EndsIn, NoResponse, Final
<1>2. ASSUME IInv, OneEnding, Sourced, [Next]_vars PROVE (OneEnding /\ Sourced)'
  <2>1. CASE UNCHANGED vars
    BY <1>2, <2>1 DEF vars, tableVars, requestVars, OneEnding, Sourced, EndsIn, FellThrough,
       Runner
  <2>2. ASSUME NEW r \in Request, Arrive(r) \/ Step(r) \/ Disturbance(r)
        PROVE  (OneEnding /\ Sourced)'
    BY <1>2, <2>2, OneEndingNext, SourcedNext
  <2> QED
    BY <1>2, <2>1, <2>2 DEF Next, Terminated
<1>3. IInv /\ OneEnding /\ Sourced => RefusedIsNotExecuted
  <2> SUFFICES ASSUME IInv, OneEnding, Sourced, NEW r \in Request, NEW s \in Request,
                      KeyOf[r] = KeyOf[s], reply[r].status \in Final \ {"201"}, executed[s],
                      ~FellThrough(KeyOf[r]), ~AckWasLost(KeyOf[r])
               PROVE  FALSE
    BY DEF RefusedIsNotExecuted
  <2> DEFINE b == reply[r].by
  <2>1. b \in Request
    BY DEF IInv, TypeInv, TypeOK, Answered, NoResponse, Final
  <2>2. KeyOf[b] = KeyOf[r] /\ outcome[b] \in Final \ {"201"}
    BY DEF Sourced, EndsIn
  <2>3. outcome[s] = "201"
    BY DEF IInv, Consistent, AckWasLost
  <2> QED
    BY <2>1, <2>2, <2>3 DEF OneEnding, Final
<1> QED
  BY <1>1, <1>2, <1>3, Inductive, PTL DEF Spec
=============================================================================
