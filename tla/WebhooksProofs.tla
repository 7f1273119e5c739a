--------------------------- MODULE WebhooksProofs ---------------------------
(***************************************************************************)
(* Theorems about Webhooks, for any events, any finite number of workers   *)
(* and any limits and faults.                                              *)
(***************************************************************************)
EXTENDS Webhooks, FiniteSetTheorems, TLAPS

Place == {"none", "lookup", "post", "record", "caught"}

(* What may still come of an event: of each task that has not been         *)
(* accepted one POST, and of a row that may be claimed, or that says that  *)
(* nothing was accepted, one more.                                         *)
Trying == {"lookup", "post", "caught"}

Chances(e) == {w \in Worker : task[w][e] \in Trying}

RowChance(e) ==
    IF \/ status[e] = "failed"
       \/ status[e] = "pending" /\ (e \in due \/ ~Held(e))
    THEN 1 ELSE 0

(* Every answer the endpoint gave, and every one it may still be asked     *)
(* for, has a reason.                                                      *)
Counted(e) == received[e] + Cardinality(Chances(e)) + RowChance(e) <= 1 + again[e]

(* No row and no copy of it counts a POST that was not made.               *)
Tried(e) ==
    /\ attempts[e] <= tried[e]
    /\ status[e] \in {"absent", "pending"} => attempts[e] < MaxAttempts
    /\ status[e] = "failed" => tried[e] >= MaxAttempts
    /\ \A w \in Worker :
          /\ known[w][e] <= tried[e]
          /\ task[w][e] \in {"post", "record", "caught"} => known[w][e] < tried[e]

(* What is recorded as accepted was accepted.                              *)
Heard(e) ==
    /\ status[e] = "delivered" => received[e] > 0
    /\ \A w \in Worker : task[w][e] = "record" => received[e] > 0

(* Until its lease runs out a task is alone with its row; and a row that   *)
(* is done with has no task.                                               *)
Leased(e) ==
    /\ e \notin lapsed =>
          \A w \in Worker : task[w][e] # "none" =>
              e \notin due /\ \A v \in Worker \ {w} : task[v][e] = "none"
    /\ e \notin lapsed \cup doubted /\ status[e] \in {"delivered", "failed"} => ~Held(e)
    /\ status[e] = "absent" => ~Held(e) /\ received[e] = 0

EventInv(e) == Counted(e) /\ Tried(e) /\ Heard(e) /\ Leased(e)

IInv == TypeOK /\ \A e \in Event : EventInv(e)

----------------------------------------------------------------------------
(* The types, of the rows and of what the workers keep.                    *)
RowTypeOK ==
    /\ status \in [Event -> {"absent", "pending", "delivered", "failed", "gone"}]
    /\ attempts \in [Event -> 0..MaxAttempts]
    /\ due \subseteq Event
    /\ received \in [Event -> Nat] /\ tried \in [Event -> Nat]
    /\ again \in [Event -> Nat]
    /\ lapsed \subseteq Event /\ doubted \subseteq Event
    /\ faults \in 0..MaxFaults

TaskTypeOK ==
    /\ batch \in [Worker -> SUBSET Event]
    /\ task \in [Worker -> [Event -> Place]]
    /\ \A w \in Worker : \A e \in batch[w] : task[w][e] # "none"
    /\ known \in [Worker -> [Event -> 0..(MaxAttempts - 1)]]

LEMMA Types == TypeOK <=> RowTypeOK /\ TaskTypeOK
  BY DEF TypeOK, RowTypeOK, TaskTypeOK, Place

(* What the invariant gives for one event.                                 *)
LEMMA Facts ==
    ASSUME IInv, NEW e \in Event
    PROVE  /\ RowTypeOK /\ TaskTypeOK
           /\ EventInv(e)
           /\ status[e] \in {"absent", "pending", "delivered", "failed", "gone"}
           /\ attempts[e] \in Nat /\ received[e] \in Nat /\ tried[e] \in Nat
           /\ again[e] \in Nat
           /\ \A w \in Worker : task[w][e] \in Place /\ known[w][e] \in 0..(MaxAttempts - 1)
           /\ MaxAttempts \in Nat \ {0}
<1>1. RowTypeOK /\ TaskTypeOK /\ EventInv(e) /\ MaxAttempts \in Nat \ {0}
  BY Types, WebhookAssumption DEF IInv
<1> QED
  BY <1>1 DEF RowTypeOK, TaskTypeOK

----------------------------------------------------------------------------
(* What a step does to the tasks.                                          *)

(* Of event e, only the task of worker w may change. *)
Others(w, e) == \A v \in Worker \ {w} : /\ task'[v][e] = task[v][e]
                                         /\ known'[v][e] = known[v][e]

SameEvent(e) ==
    /\ status'[e] = status[e] /\ attempts'[e] = attempts[e]
    /\ e \in due' <=> e \in due
    /\ \A w \in Worker : task'[w][e] = task[w][e] /\ known'[w][e] = known[w][e]
    /\ received'[e] = received[e] /\ tried'[e] = tried[e] /\ again'[e] = again[e]
    /\ e \in lapsed' <=> e \in lapsed
    /\ e \in doubted' <=> e \in doubted

(* Of all tasks, only the one of worker w and event e changes. *)
OneTask(w, e, place, copy) ==
    /\ TaskTypeOK'
    /\ Others(w, e)
    /\ task'[w][e] = place /\ known'[w][e] = copy
    /\ \A f \in Event \ {e}, v \in Worker : /\ task'[v][f] = task[v][f]
                                            /\ known'[v][f] = known[v][f]

One(place) == IF place \in Trying THEN 1 ELSE 0

(* One task more or less that may be accepted.                             *)
LEMMA Counting ==
    ASSUME NEW w \in Worker, NEW e \in Event, Others(w, e)
    PROVE  /\ Cardinality(Chances(e)) \in Nat
           /\ Cardinality(Chances(e))' =
                 Cardinality(Chances(e)) - One(task[w][e]) + One(task'[w][e])
           /\ Cardinality(Chances(e)) >= One(task[w][e])
<1> DEFINE C == Chances(e)
           D == {v \in Worker : task'[v][e] \in Trying}
<1>1. IsFiniteSet(C) /\ IsFiniteSet(D) /\ C \ {w} = D \ {w} /\ D = Chances(e)'
      /\ (w \in C <=> task[w][e] \in Trying) /\ (w \in D <=> task'[w][e] \in Trying)
  <2>1. IsFiniteSet(C) /\ IsFiniteSet(D)
    <3>1. C \in SUBSET Worker /\ D \in SUBSET Worker /\ IsFiniteSet(Worker)
      BY WebhookAssumption DEF Chances
    <3> HIDE DEF C, D
    <3> QED
      BY <3>1, FS_Subset
  <2> QED
    BY <2>1 DEF Chances, Others
<1> HIDE DEF C, D
<1>2. /\ Cardinality(C \ {w}) = IF w \in C THEN Cardinality(C) - 1 ELSE Cardinality(C)
      /\ Cardinality(D \ {w}) = IF w \in D THEN Cardinality(D) - 1 ELSE Cardinality(D)
  BY <1>1, FS_RemoveElement
<1>3. Cardinality(C) \in Nat /\ Cardinality(D) \in Nat /\ Cardinality(C \ {w}) \in Nat
  BY <1>1, FS_RemoveElement, FS_CardinalityType
<1>4. /\ Cardinality(D) = Cardinality(C) - One(task[w][e]) + One(task'[w][e])
      /\ Cardinality(C) >= One(task[w][e])
  <2>1. /\ w \in C => One(task[w][e]) = 1
        /\ w \notin C => One(task[w][e]) = 0
        /\ w \in D => One(task'[w][e]) = 1
        /\ w \notin D => One(task'[w][e]) = 0
    BY <1>1 DEF One
  <2>2. /\ w \in C => Cardinality(C) = Cardinality(C \ {w}) + 1
        /\ w \notin C => Cardinality(C) = Cardinality(C \ {w})
        /\ w \in D => Cardinality(D) = Cardinality(C \ {w}) + 1
        /\ w \notin D => Cardinality(D) = Cardinality(C \ {w})
    BY <1>1, <1>2, <1>3
  <2> QED
    BY <1>3, <2>1, <2>2
<1> QED
  BY <1>1, <1>3, <1>4 DEF C

LEMMA SameEventKeeps ==
    ASSUME NEW e \in Event, EventInv(e), SameEvent(e)
    PROVE  EventInv(e)'
<1>1. Chances(e)' = Chances(e) /\ (Held(e)' <=> Held(e))
  BY DEF Chances, SameEvent, Held
<1>2. RowChance(e)' = RowChance(e)
  BY <1>1 DEF RowChance, SameEvent
<1>3. Counted(e)'
  BY <1>1, <1>2 DEF EventInv, Counted, SameEvent
<1>4. Tried(e)' /\ Heard(e)'
  BY DEF EventInv, Tried, Heard, SameEvent
<1>5. Leased(e)'
  BY <1>1 DEF EventInv, Leased, SameEvent
<1> QED
  BY <1>3, <1>4, <1>5 DEF EventInv

(* A task goes on.                                                         *)
LEMMA GotoFrame ==
    ASSUME TaskTypeOK, NEW w \in Worker, NEW e \in Event, NEW place \in Place \ {"none"},
           Goto(w, e, place), UNCHANGED <<batch, known>>
    PROVE  OneTask(w, e, place, known[w][e])
  BY DEF Goto, TaskTypeOK, OneTask, Others

(* A task ends, with its tick or not.                                      *)
LEMMA LeaveFrame ==
    ASSUME TaskTypeOK, NEW w \in Worker, NEW e \in Event,
           Resolve(w, e) \/ Reject(w, e)
    PROVE  OneTask(w, e, "none", 0)
<1>1. /\ task' = [task EXCEPT ![w][e] = "none"] /\ known' = [known EXCEPT ![w][e] = 0]
      /\ 0 \in 0..(MaxAttempts - 1) /\ "none" \in Place
  BY WebhookAssumption DEF Resolve, Reject, Goto, Place
<1>2. /\ batch' \in [Worker -> SUBSET Event]
      /\ \A v \in Worker : batch'[v] \subseteq batch[v]
      /\ e \notin batch'[w]
  <2>1. CASE batch' = [batch EXCEPT ![w] = @ \ {e}]
    BY <2>1 DEF TaskTypeOK
  <2>2. CASE batch' = [batch EXCEPT ![w] = IF e \in @ THEN {} ELSE @]
    BY <2>2 DEF TaskTypeOK
  <2> QED
    BY <2>1, <2>2 DEF Resolve, Reject
<1>3. /\ task' \in [Worker -> [Event -> Place]]
      /\ task'[w][e] = "none"
      /\ \A v \in Worker, f \in Event : v # w \/ f # e => task'[v][f] = task[v][f]
  BY <1>1 DEF TaskTypeOK
<1>4. /\ known' \in [Worker -> [Event -> 0..(MaxAttempts - 1)]]
      /\ known'[w][e] = 0
      /\ \A v \in Worker, f \in Event : v # w \/ f # e => known'[v][f] = known[v][f]
  BY <1>1 DEF TaskTypeOK
<1>5. \A v \in Worker : \A f \in batch'[v] : task'[v][f] # "none"
  BY <1>2, <1>3 DEF TaskTypeOK
<1> QED
  BY <1>2, <1>3, <1>4, <1>5 DEF TaskTypeOK, OneTask, Others

(* A step of one task, and perhaps of the row of its event.                *)
RowsOfOthers(e) ==
    \A f \in Event \ {e} :
        /\ status'[f] = status[f] /\ attempts'[f] = attempts[f]
        /\ f \in due' <=> f \in due
        /\ received'[f] = received[f] /\ tried'[f] = tried[f] /\ again'[f] = again[f]
        /\ f \in lapsed' <=> f \in lapsed
        /\ f \in doubted' <=> f \in doubted

(* A step of one event's task concerns no other event.                     *)
LEMMA TaskStep ==
    ASSUME IInv, NEW e \in Event, RowTypeOK', TaskTypeOK', RowsOfOthers(e),
           \A f \in Event \ {e}, v \in Worker : /\ task'[v][f] = task[v][f]
                                               /\ known'[v][f] = known[v][f],
           EventInv(e)'
    PROVE  IInv'
<1>1. \A f \in Event \ {e} : SameEvent(f) /\ EventInv(f)
  BY DEF RowsOfOthers, SameEvent, IInv
<1>2. \A f \in Event : EventInv(f)'
  BY <1>1, SameEventKeeps
<1>3. TypeOK'
  BY Types DEF TypeOK, RowTypeOK, TaskTypeOK, Place
<1> QED
  BY <1>2, <1>3 DEF IInv

(* A task that goes on: an answer of the endpoint takes the chance the     *)
(* task had, or comes with a reason.                                       *)
LEMMA GoOn ==
    ASSUME IInv, NEW w \in Worker, NEW e \in Event, NEW place \in Place \ {"none"},
           task[w][e] # "none", OneTask(w, e, place, known[w][e]),
           RowTypeOK', RowsOfOthers(e),
           attempts'[e] = attempts[e], e \in due' <=> e \in due, e \in lapsed' <=> e \in lapsed,
           e \in doubted => e \in doubted',
           \/ status'[e] = status[e]
           \/ status'[e] = "delivered" /\ e \in doubted' /\ received[e] > 0,
           received'[e] >= received[e], tried'[e] >= tried[e],
           received'[e] + One(place) - again'[e] <= received[e] + One(task[w][e]) - again[e],
           place \in {"post", "record", "caught"} => known[w][e] < tried'[e],
           place = "record" => received'[e] > 0
    PROVE  IInv'
<1>1. EventInv(e) /\ Others(w, e) /\ task'[w][e] = place /\ known'[w][e] = known[w][e]
  BY Facts DEF OneTask
<1>2. Held(e) /\ Held(e)'
  BY <1>1 DEF Held
<1>3. /\ received[e] \in Nat /\ again[e] \in Nat /\ tried[e] \in Nat /\ attempts[e] \in Nat
      /\ received'[e] \in Nat /\ again'[e] \in Nat /\ tried'[e] \in Nat
      /\ \A v \in Worker : known[v][e] \in Nat
      /\ MaxAttempts \in Nat
  BY Facts DEF RowTypeOK
<1>4. Counted(e)'
  <2>1. /\ Cardinality(Chances(e)) \in Nat
        /\ Cardinality(Chances(e))' =
              Cardinality(Chances(e)) - One(task[w][e]) + One(place)
    BY <1>1, Counting
  <2>2. RowChance(e)' <= RowChance(e) /\ RowChance(e) \in Nat /\ RowChance(e)' \in Nat
    BY <1>2 DEF RowChance
  <2>3. One(place) \in Nat /\ One(task[w][e]) \in Nat
    BY DEF One
  <2>4. received[e] + Cardinality(Chances(e)) + RowChance(e) <= 1 + again[e]
    BY <1>1 DEF EventInv, Counted
  <2>5. received'[e] + Cardinality(Chances(e))' + RowChance(e)' <= 1 + again'[e]
    BY <1>3, <2>1, <2>2, <2>3, <2>4
  <2> QED
    BY <2>5 DEF Counted
<1>5. Tried(e)'
  BY <1>1, <1>3 DEF EventInv, Tried, Others
<1>6. Heard(e)'
  BY <1>1, <1>3 DEF EventInv, Heard, Others
<1>7. Leased(e)'
  BY <1>1, <1>2 DEF EventInv, Leased, Others
<1> QED
  BY <1>1, <1>4, <1>5, <1>6, <1>7, TaskStep DEF OneTask, EventInv

(* A task that ends leaves its chance to the row, or has used it.          *)
LEMMA Leave ==
    ASSUME IInv, NEW w \in Worker, NEW e \in Event,
           task[w][e] # "none", OneTask(w, e, "none", 0),
           RowTypeOK', RowsOfOthers(e),
           e \in due' => e \in due, UNCHANGED <<lapsed, doubted, received, tried>>,
           again'[e] = again[e],
           status'[e] # "absent",
           task[w][e] = "record" => status'[e] \in {"delivered", "gone"},
           attempts'[e] <= tried[e],
           status'[e] = "pending" => attempts'[e] < MaxAttempts,
           status'[e] = "failed" => tried[e] >= MaxAttempts,
           status'[e] = "delivered" => received[e] > 0
    PROVE  IInv'
<1>1. EventInv(e) /\ Others(w, e) /\ task'[w][e] = "none" /\ known'[w][e] = 0
  BY Facts DEF OneTask
<1>2. Held(e)
  BY DEF Held
<1>3. /\ received[e] \in Nat /\ again[e] \in Nat /\ tried[e] \in Nat /\ attempts'[e] \in Nat
      /\ again'[e] \in Nat
      /\ \A v \in Worker : known[v][e] \in Nat /\ task[v][e] \in Place
      /\ MaxAttempts \in Nat
  BY Facts DEF RowTypeOK
<1>4. Counted(e)'
  <2>1. One("none") = 0
    BY DEF One, Trying
  <2>2. /\ Cardinality(Chances(e)) \in Nat
        /\ Cardinality(Chances(e))' = Cardinality(Chances(e)) - One(task[w][e]) + 0
        /\ Cardinality(Chances(e)) >= One(task[w][e])
    BY <1>1, <2>1, Counting
  <2>3. /\ RowChance(e)' <= RowChance(e) + One(task[w][e])
        /\ RowChance(e) \in Nat /\ RowChance(e)' \in Nat /\ One(task[w][e]) \in Nat
    <3>1. CASE task[w][e] = "record"
      BY <3>1 DEF RowChance, One, Trying
    <3>2. CASE task[w][e] # "record"
      <4>1. One(task[w][e]) = 1
        BY <1>3, <3>2 DEF One, Trying, Place
      <4>2. RowChance(e) \in {0, 1} /\ RowChance(e)' \in {0, 1}
        BY DEF RowChance
      <4> QED
        BY <4>1, <4>2
    <3> QED
      BY <3>1, <3>2
  <2>4. received[e] + Cardinality(Chances(e)) + RowChance(e) <= 1 + again[e]
    BY <1>1 DEF EventInv, Counted
  <2>5. received'[e] + Cardinality(Chances(e))' + RowChance(e)' <= 1 + again'[e]
    BY <1>3, <2>2, <2>3, <2>4
  <2> QED
    BY <2>5 DEF Counted
<1>5. Tried(e)'
  BY <1>1, <1>3 DEF EventInv, Tried, Others
<1>6. Heard(e)'
  BY <1>1 DEF EventInv, Heard, Others
<1>7. Leased(e)'
  BY <1>1, <1>2 DEF EventInv, Leased, Others, Held
<1> QED
  BY <1>1, <1>4, <1>5, <1>6, <1>7, TaskStep DEF OneTask, EventInv

(* Steps after which the task goes on.                                     *)
LEMMA GoOnSteps ==
    ASSUME IInv, NEW w \in Worker, NEW e \in Event,
           \/ Post(w, e) \/ Refused(w, e) \/ Accepted(w, e)
           \/ Unheard(w, e) \/ MarkDeliveredFails(w, e)
    PROVE  IInv'
<1> DEFINE place == task'[w][e]
<1>1. /\ task[w][e] \in {"lookup", "post", "record"} /\ place \in Place \ {"none"}
      /\ OneTask(w, e, place, known[w][e])
  <2>1. PICK p \in {"post", "record", "caught"} :
           Goto(w, e, p) /\ UNCHANGED <<batch, known>> /\ task[w][e] \in {"lookup", "post", "record"}
    BY DEF Post, Refused, Accepted, Unheard, MarkDeliveredFails
  <2>2. OneTask(w, e, p, known[w][e]) /\ p \in Place \ {"none"}
    BY <2>1, GotoFrame, Facts DEF Place
  <2> QED
    BY <2>1, <2>2 DEF OneTask
<1>2. /\ UNCHANGED <<attempts, due, lapsed>>
      /\ RowTypeOK /\ TaskTypeOK /\ EventInv(e)
  BY Facts DEF Post, Refused, Accepted, Unheard, MarkDeliveredFails, rowVars, history
<1>3. /\ received[e] \in Nat /\ again[e] \in Nat /\ tried[e] \in Nat
      /\ known[w][e] \in Nat /\ faults \in 0..MaxFaults /\ MaxFaults \in Nat
  BY Facts, WebhookAssumption DEF RowTypeOK
<1>4. One("lookup") = 1 /\ One("post") = 1 /\ One("caught") = 1 /\ One("record") = 0
  BY DEF One, Trying
<1>5. known[w][e] <= tried[e] /\ (task[w][e] # "lookup" => known[w][e] < tried[e])
  BY <1>1, <1>2 DEF EventInv, Tried
<1>6. \A p \in Place : Goto(w, e, p) => place = p
  BY <1>2 DEF Goto, TaskTypeOK
<1>7. CASE Post(w, e)
  <2>1. /\ UNCHANGED <<status, received, again, doubted, faults>> /\ tried' = Once(tried, e)
        /\ task[w][e] = "lookup" /\ place = "post"
    BY <1>6, <1>7 DEF Post, rowVars, Place
  <2>2. tried'[e] = tried[e] + 1 /\ RowTypeOK' /\ RowsOfOthers(e)
    BY <1>2, <1>3, <2>1 DEF RowTypeOK, RowsOfOthers, Once
  <2> QED
    BY <1>1, <1>2, <1>3, <1>4, <1>5, <2>1, <2>2, GoOn
<1>8. CASE Refused(w, e)
  <2>1. /\ UNCHANGED <<status, tried, received, again, doubted, faults>>
        /\ task[w][e] = "post" /\ place = "caught"
    BY <1>6, <1>8 DEF Refused, rowVars, history, Place
  <2>2. RowTypeOK' /\ RowsOfOthers(e)
    BY <1>2, <1>3, <2>1 DEF RowTypeOK, RowsOfOthers
  <2> QED
    BY <1>1, <1>2, <1>3, <1>4, <1>5, <2>1, <2>2, GoOn
<1>9. CASE Accepted(w, e)
  <2>1. /\ UNCHANGED <<status, tried, again, doubted, faults>>
        /\ task[w][e] = "post" /\ place = "record" /\ received' = Once(received, e)
    BY <1>6, <1>9 DEF Accepted, rowVars, Place
  <2>2. received'[e] = received[e] + 1 /\ RowTypeOK' /\ RowsOfOthers(e)
    BY <1>2, <1>3, <2>1 DEF RowTypeOK, RowsOfOthers, Once
  <2> QED
    BY <1>1, <1>2, <1>3, <1>4, <1>5, <2>1, <2>2, GoOn
<1>10. CASE Unheard(w, e)
  <2>1. /\ UNCHANGED <<status, tried, doubted>> /\ faults' = faults + 1 /\ faults < MaxFaults
        /\ task[w][e] = "post" /\ place = "caught"
        /\ received' = Once(received, e) /\ again' = Once(again, e)
    BY <1>6, <1>10 DEF Unheard, rowVars, Place, Budget
  <2>2. /\ received'[e] = received[e] + 1 /\ again'[e] = again[e] + 1
        /\ RowTypeOK' /\ RowsOfOthers(e)
    BY <1>2, <1>3, <2>1 DEF RowTypeOK, RowsOfOthers, Once
  <2> QED
    BY <1>1, <1>2, <1>3, <1>4, <1>5, <2>1, <2>2, GoOn
<1>11. CASE MarkDeliveredFails(w, e)
  <2>1. /\ UNCHANGED <<tried, received>> /\ faults' = faults + 1 /\ faults < MaxFaults
        /\ task[w][e] = "record" /\ place = "caught" /\ again' = Once(again, e)
        /\ \/ UNCHANGED <<status, doubted>>
           \/ status' = Write(e, "delivered") /\ doubted' = doubted \cup {e}
    BY <1>6, <1>11 DEF MarkDeliveredFails, Place, Budget
  <2>2. /\ again'[e] = again[e] + 1 /\ RowTypeOK' /\ RowsOfOthers(e)
        /\ e \in doubted => e \in doubted'
        /\ \/ status'[e] = status[e]
           \/ status'[e] = "delivered" /\ e \in doubted'
    BY <1>2, <1>3, <2>1 DEF RowTypeOK, RowsOfOthers, Once, Write
  <2>3. received[e] > 0
    BY <1>2, <2>1 DEF EventInv, Heard
  <2> QED
    BY <1>1, <1>2, <1>3, <1>4, <1>5, <2>1, <2>2, <2>3, GoOn
<1> QED
  BY <1>7, <1>8, <1>9, <1>10, <1>11

(* Steps with which the task ends.                                         *)
LEMMA LeaveSteps ==
    ASSUME IInv, NEW w \in Worker, NEW e \in Event,
           \/ NoEndpoint(w, e) \/ MarkDelivered(w, e) \/ MarkRetry(w, e)
           \/ MarkFailed(w, e) \/ TaskFails(w, e)
    PROVE  IInv'
<1>1. /\ task[w][e] \in {"lookup", "record", "caught"}
      /\ OneTask(w, e, "none", 0)
      /\ UNCHANGED <<received, tried, lapsed, doubted>>
  <2>1. TaskTypeOK
    BY Facts
  <2> QED
    BY <2>1, LeaveFrame DEF NoEndpoint, MarkDelivered, MarkRetry, MarkRetryAs, MarkFailed,
       TaskFails, history
<1>2. /\ RowTypeOK /\ EventInv(e) /\ again[e] \in Nat /\ tried[e] \in Nat
      /\ known[w][e] \in 0..(MaxAttempts - 1) /\ MaxAttempts \in Nat \ {0}
      /\ faults \in 0..MaxFaults /\ MaxFaults \in Nat
  BY Facts, WebhookAssumption DEF RowTypeOK
<1>3. /\ status[e] # "absent"
      /\ attempts[e] <= tried[e]
      /\ status[e] = "pending" => attempts[e] < MaxAttempts
      /\ status[e] = "failed" => tried[e] >= MaxAttempts
      /\ status[e] = "delivered" => received[e] > 0
      /\ task[w][e] = "record" => received[e] > 0
      /\ task[w][e] = "caught" => known[w][e] + 1 <= tried[e]
  BY <1>1, <1>2 DEF EventInv, Tried, Heard, Leased, Held
<1>4. CASE NoEndpoint(w, e)
  <2>1. UNCHANGED <<status, attempts, due, again, faults>> /\ task[w][e] = "lookup"
    BY <1>4 DEF NoEndpoint, rowVars, history
  <2>2. RowTypeOK' /\ RowsOfOthers(e)
    BY <1>1, <1>2, <2>1 DEF RowTypeOK, RowsOfOthers
  <2> QED
    BY <1>1, <1>2, <1>3, <2>1, <2>2, Leave
<1>5. CASE MarkDelivered(w, e)
  <2>1. /\ UNCHANGED <<attempts, due, again, faults>> /\ task[w][e] = "record"
        /\ status' = Write(e, "delivered")
    BY <1>5 DEF MarkDelivered, history
  <2>2. RowTypeOK' /\ RowsOfOthers(e) /\ status'[e] \in {"delivered", "gone"}
    BY <1>1, <1>2, <2>1 DEF RowTypeOK, RowsOfOthers, Write
  <2> QED
    BY <1>1, <1>2, <1>3, <2>1, <2>2, Leave
<1>6. CASE MarkRetry(w, e)
  <2> DEFINE n == known[w][e] + 1
  <2>1. /\ UNCHANGED <<status, again, faults>> /\ task[w][e] = "caught"
        /\ n < MaxAttempts
        /\ attempts' = [attempts EXCEPT ![e] = n] /\ due' = due \ {e}
    BY <1>6 DEF MarkRetry, MarkRetryAs, Attempt, history
  <2>2. n \in 0..MaxAttempts
    BY <1>2, <2>1
  <2> HIDE DEF n
  <2>3. RowTypeOK' /\ RowsOfOthers(e) /\ attempts'[e] = n
    BY <1>1, <1>2, <2>1, <2>2 DEF RowTypeOK, RowsOfOthers
  <2>4. n <= tried[e]
    BY <1>3, <2>1 DEF n
  <2> QED
    BY <1>1, <1>2, <1>3, <2>1, <2>3, <2>4, Leave
<1>7. CASE MarkFailed(w, e)
  <2> DEFINE n == known[w][e] + 1
  <2>1. /\ UNCHANGED <<due, again, faults>> /\ task[w][e] = "caught"
        /\ n >= MaxAttempts /\ status' = Write(e, "failed")
        /\ attempts' = [attempts EXCEPT ![e] = n]
    BY <1>7 DEF MarkFailed, Attempt, history
  <2>2. n \in 0..MaxAttempts /\ n <= tried[e] /\ n \in Nat
    BY <1>2, <1>3, <2>1
  <2> HIDE DEF n
  <2>3. /\ RowTypeOK' /\ RowsOfOthers(e) /\ attempts'[e] = n
        /\ status'[e] \in {"failed", "gone"}
    BY <1>1, <1>2, <2>1, <2>2 DEF RowTypeOK, RowsOfOthers, Write
  <2> QED
    BY <1>1, <1>2, <1>3, <2>1, <2>2, <2>3, Leave
<1>8. CASE TaskFails(w, e)
  <2>1. /\ UNCHANGED <<status, attempts, due>> /\ task[w][e] \in {"lookup", "caught"}
        /\ again' = again /\ faults < MaxFaults /\ faults' = faults + 1
    BY <1>8 DEF TaskFails, rowVars, history, Budget
  <2>2. RowTypeOK' /\ RowsOfOthers(e)
    BY <1>1, <1>2, <2>1 DEF RowTypeOK, RowsOfOthers
  <2> QED
    BY <1>1, <1>2, <1>3, <2>1, <2>2, Leave
<1> QED
  BY <1>4, <1>5, <1>6, <1>7, <1>8

(* The steps of nobody's task.                                             *)
LEMMA RowSteps ==
    ASSUME IInv, NEW e \in Event, Emit(e) \/ BecomesDue(e) \/ EndpointDeleted(e)
    PROVE  IInv'
<1>1. UNCHANGED <<workerVars, attempts, received, tried, doubted>>
  BY DEF Emit, BecomesDue, EndpointDeleted, history
<1>2. /\ RowTypeOK /\ TaskTypeOK /\ EventInv(e)
      /\ faults \in 0..MaxFaults /\ MaxFaults \in Nat
      /\ received[e] \in Nat /\ again[e] \in Nat /\ attempts[e] \in Nat
      /\ MaxAttempts \in Nat \ {0}
  BY Facts, WebhookAssumption DEF RowTypeOK
<1>3. TaskTypeOK' /\ Chances(e)' = Chances(e) /\ (Held(e)' <=> Held(e))
      /\ \A v \in Worker, f \in Event : /\ task'[v][f] = task[v][f]
                                         /\ known'[v][f] = known[v][f]
  BY <1>1, <1>2 DEF workerVars, TaskTypeOK, Chances, Held
<1>4. /\ RowTypeOK' /\ RowsOfOthers(e) /\ again'[e] \in Nat /\ again'[e] >= again[e]
      /\ e \in lapsed => e \in lapsed'
  <2>1. CASE Emit(e)
    BY <1>2, <2>1 DEF Emit, RowTypeOK, RowsOfOthers, history
  <2>2. CASE EndpointDeleted(e)
    BY <1>2, <2>2 DEF EndpointDeleted, RowTypeOK, RowsOfOthers, history, Budget
  <2>3. CASE BecomesDue(e)
    <3>1. /\ UNCHANGED <<status, attempts, received, tried, doubted>> /\ due' = due \cup {e}
          /\ \/ UNCHANGED <<lapsed, again, faults>>
             \/ /\ faults < MaxFaults /\ faults' = faults + 1
                /\ lapsed' = lapsed \cup {e}
                /\ again' = again \/ again' = Once(again, e)
      BY <2>3 DEF BecomesDue, Budget
    <3> QED
      BY <1>2, <3>1 DEF RowTypeOK, RowsOfOthers, Once
  <2> QED
    BY <2>1, <2>2, <2>3
<1>5. Counted(e)'
  <2>1. Cardinality(Chances(e)) \in Nat
    <3>1. Chances(e) \in SUBSET Worker
      BY DEF Chances
    <3> QED
      BY <3>1, FS_Subset, FS_CardinalityType, WebhookAssumption
  <2>2. RowChance(e) \in {0, 1} /\ RowChance(e)' \in {0, 1}
    BY DEF RowChance
  <2>3. received[e] + Cardinality(Chances(e)) + RowChance(e) <= 1 + again[e]
    BY <1>2 DEF EventInv, Counted
  <2>4. CASE Emit(e)
    <3>1. received[e] = 0 /\ ~Held(e)
      BY <1>2, <2>4 DEF Emit, EventInv, Leased
    <3>2. Chances(e) = {}
      BY <3>1 DEF Chances, Held, Trying
    <3>3. Cardinality(Chances(e)) = 0
      BY <3>2, FS_EmptySet
    <3> QED
      BY <1>1, <1>2, <1>3, <1>4, <2>2, <3>1, <3>3 DEF Counted
  <2>5. CASE EndpointDeleted(e)
    <3>1. RowChance(e)' = 0
      BY <1>2, <2>5 DEF EndpointDeleted, RowChance, RowTypeOK
    <3> QED
      BY <1>1, <1>2, <1>3, <1>4, <2>1, <2>2, <2>3, <3>1 DEF Counted
  <2>6. CASE BecomesDue(e)
    <3>1. RowChance(e)' - again'[e] <= RowChance(e) - again[e]
      <4>1. CASE Held(e)
        <5>1. /\ status' = status
              /\ status[e] = "pending" => again'[e] = again[e] + 1
              /\ status[e] # "pending" => again'[e] = again[e]
          BY <1>2, <2>6, <4>1 DEF BecomesDue, Once, RowTypeOK
        <5>2. status[e] # "pending" => RowChance(e)' = RowChance(e)
          BY <5>1 DEF RowChance
        <5> QED
          BY <1>2, <2>2, <5>1, <5>2
      <4>2. CASE ~Held(e)
        <5>1. status' = status /\ again' = again
          BY <2>6, <4>2 DEF BecomesDue
        <5>2. RowChance(e)' = RowChance(e)
          BY <1>3, <4>2, <5>1 DEF RowChance
        <5> QED
          BY <1>2, <2>2, <5>1, <5>2
      <4> QED
        BY <4>1, <4>2
    <3>2. received[e] + Cardinality(Chances(e)) + RowChance(e)' <= 1 + again'[e]
      BY <1>2, <1>4, <2>1, <2>2, <2>3, <3>1
    <3> QED
      BY <1>1, <1>3, <3>2 DEF Counted
  <2> QED
    BY <2>4, <2>5, <2>6
<1>6. Tried(e)' /\ Heard(e)'
  <2>1. \/ status'[e] = status[e] \/ status'[e] = "gone"
        \/ status[e] = "absent" /\ status'[e] = "pending"
    BY <1>2 DEF Emit, BecomesDue, EndpointDeleted, RowTypeOK
  <2> QED
    BY <1>1, <1>2, <1>3, <2>1 DEF EventInv, Tried, Heard
<1>7. Leased(e)'
  <2>1. CASE Emit(e)
    BY <1>1, <1>2, <1>3, <2>1 DEF Emit, EventInv, Leased, RowTypeOK, Held
  <2>2. CASE EndpointDeleted(e)
    BY <1>1, <1>2, <1>3, <2>2 DEF EndpointDeleted, EventInv, Leased, RowTypeOK, history
  <2>3. CASE BecomesDue(e)
    BY <1>1, <1>2, <1>3, <2>3 DEF BecomesDue, EventInv, Leased, Held
  <2> QED
    BY <2>1, <2>2, <2>3
<1> QED
  BY <1>3, <1>4, <1>5, <1>6, <1>7, TaskStep DEF EventInv

(* A claim turns the chance of a due row into that of a task.              *)
LEMMA ClaimKeeps == ASSUME IInv, NEW w \in Worker, ClaimDue(w) PROVE IInv'
<1>1. PICK S \in SUBSET {e \in Event : /\ e \in due /\ status[e] = "pending"
                                       /\ task[w][e] = "none"} :
         /\ batch' = [batch EXCEPT ![w] = S]
         /\ task' = [task EXCEPT ![w] = [e \in Event |-> IF e \in S THEN "lookup" ELSE @[e]]]
         /\ known' = [known EXCEPT ![w] = [e \in Event |-> IF e \in S THEN attempts[e]
                                                                     ELSE @[e]]]
         /\ due' = due \ S
  <2>1. TypeOK
    BY DEF IInv
  <2>2. due \subseteq Event
    BY <2>1 DEF TypeOK
  <2> QED
    BY <2>2 DEF ClaimDue, ClaimRows
<1>2. UNCHANGED <<status, attempts, received, tried, again, lapsed, doubted, faults>>
  BY DEF ClaimDue, ClaimRows, history
<1>3. RowTypeOK /\ TaskTypeOK /\ RowTypeOK'
  BY <1>1, <1>2, Types DEF IInv, RowTypeOK
<1>4. \A v \in Worker, e \in Event :
         /\ task'[v][e] = IF v = w /\ e \in S THEN "lookup" ELSE task[v][e]
         /\ known'[v][e] = IF v = w /\ e \in S THEN attempts[e] ELSE known[v][e]
  BY <1>1, <1>3 DEF TaskTypeOK
<1>5. TaskTypeOK'
  <2>1. batch' \in [Worker -> SUBSET Event]
    BY <1>1, <1>3 DEF TaskTypeOK
  <2>2. task' \in [Worker -> [Event -> Place]]
    BY <1>1, <1>3 DEF TaskTypeOK, Place
  <2>3. known' \in [Worker -> [Event -> 0..(MaxAttempts - 1)]]
    <3>1. \A e \in S : attempts[e] \in 0..(MaxAttempts - 1)
      BY <1>1, Facts DEF EventInv, Tried
    <3> QED
      BY <1>1, <1>3, <3>1 DEF TaskTypeOK
  <2>4. \A v \in Worker : \A e \in batch'[v] : task'[v][e] # "none"
    <3>1. \A e \in batch'[w] : task'[w][e] # "none"
      BY <1>1, <1>3, <1>4 DEF TaskTypeOK
    <3>2. \A v \in Worker \ {w} : batch'[v] = batch[v] /\ task'[v] = task[v]
      BY <1>1, <1>3 DEF TaskTypeOK
    <3> QED
      BY <1>3, <3>1, <3>2 DEF TaskTypeOK
  <2> QED
    BY <2>1, <2>2, <2>3, <2>4 DEF TaskTypeOK
<1>6. ASSUME NEW e \in S PROVE EventInv(e)'
  <2>1. /\ e \in Event /\ e \in due /\ e \notin due' /\ status'[e] = status[e]
        /\ status[e] = "pending" /\ task[w][e] = "none" /\ task'[w][e] = "lookup"
        /\ known'[w][e] = attempts[e] /\ Others(w, e)
    BY <1>1, <1>2, <1>4 DEF Others
  <2>2. /\ EventInv(e) /\ received[e] \in Nat /\ again[e] \in Nat
        /\ attempts[e] \in Nat /\ tried[e] \in Nat
    BY <2>1, Facts
  <2>3. One("none") = 0 /\ One("lookup") = 1
    BY DEF One, Trying
  <2>4. RowChance(e) = 1 /\ RowChance(e)' = 0
    BY <2>1 DEF RowChance, Held
  <2>5. /\ Cardinality(Chances(e)) \in Nat
        /\ Cardinality(Chances(e))' = Cardinality(Chances(e)) - 0 + 1
    BY <2>1, <2>3, Counting
  <2>6. received[e] + Cardinality(Chances(e)) + 1 <= 1 + again[e]
    BY <2>2, <2>4 DEF EventInv, Counted
  <2>7. Counted(e)'
    BY <1>2, <2>2, <2>4, <2>5, <2>6 DEF Counted
  <2>8. Tried(e)'
    BY <1>2, <2>1, <2>2 DEF EventInv, Tried, Others
  <2>9. Heard(e)'
    BY <1>2, <2>1, <2>2 DEF EventInv, Heard, Others
  <2>10. Leased(e)'
    BY <1>2, <2>1, <2>2 DEF EventInv, Leased, Others
  <2> QED
    BY <2>7, <2>8, <2>9, <2>10 DEF EventInv
<1>7. ASSUME NEW e \in Event \ S PROVE EventInv(e)'
  <2>1. SameEvent(e)
    BY <1>1, <1>2, <1>4 DEF SameEvent
  <2> QED
    BY <2>1, SameEventKeeps DEF IInv
<1>8. TypeOK'
  BY <1>3, <1>5 DEF TypeOK, RowTypeOK, TaskTypeOK, Place
<1> QED
  BY <1>6, <1>7, <1>8 DEF IInv

(* A process that dies gives its chances back to the rows; what the        *)
(* endpoint accepted and no row says comes with a reason.                  *)
LEMMA CrashKeeps == ASSUME IInv, NEW w \in Worker, Crash(w) PROVE IInv'
<1> DEFINE at(place) == {e \in Event : task[w][e] = place}
<1>1. PICK accepted \in SUBSET at("post"), recorded \in SUBSET at("record") :
        /\ \E e \in Event : task[w][e] # "none"
        /\ Budget("crash")
        /\ received' = [e \in Event |-> IF e \in accepted THEN received[e] + 1
                                                        ELSE received[e]]
        /\ again' = [e \in Event |->
              IF e \in accepted \cup (at("record") \ recorded)
              THEN again[e] + 1 ELSE again[e]]
        /\ status' = [e \in Event |-> IF e \in recorded /\ status[e] # "gone"
                                      THEN "delivered" ELSE status[e]]
        /\ batch' = [batch EXCEPT ![w] = {}]
        /\ task' = [task EXCEPT ![w] = [e \in Event |-> "none"]]
        /\ known' = [known EXCEPT ![w] = [e \in Event |-> 0]]
        /\ UNCHANGED <<attempts, due, tried, lapsed, doubted>>
  BY Zenon DEF Crash
<1>2. RowTypeOK /\ TaskTypeOK
  BY Types DEF IInv
<1>3. RowTypeOK'
  BY <1>1, <1>2, WebhookAssumption DEF RowTypeOK, Budget
<1>4. TaskTypeOK'
  <2>1. 0 \in 0..(MaxAttempts - 1)
    BY WebhookAssumption
  <2> QED
    BY <1>1, <1>2, <2>1 DEF TaskTypeOK, Place
<1>5. ASSUME NEW e \in Event PROVE EventInv(e)'
  <2>1. Others(w, e) /\ task'[w][e] = "none" /\ known'[w][e] = 0
    BY <1>1, <1>2 DEF Others, TaskTypeOK
  <2>2. /\ EventInv(e) /\ received[e] \in Nat /\ again[e] \in Nat
        /\ attempts[e] \in Nat /\ tried[e] \in Nat /\ task[w][e] \in Place
    BY Facts
  <2>3. /\ status'[e] = status[e] \/ (status'[e] = "delivered" /\ task[w][e] = "record")
        /\ received'[e] \in {received[e], received[e] + 1}
        /\ received'[e] # received[e] => task[w][e] = "post"
        /\ again'[e] \in {again[e], again[e] + 1}
        /\ task[w][e] # "record" => again'[e] - again[e] = received'[e] - received[e]
        /\ \/ again'[e] = again[e] + 1
           \/ task[w][e] # "record"
           \/ status'[e] \in {"delivered", "gone"}
    BY <1>1, <2>2
  <2>4. Counted(e)'
    <3>1. One("none") = 0
      BY DEF One, Trying
    <3>2. /\ Cardinality(Chances(e)) \in Nat
          /\ Cardinality(Chances(e))' = Cardinality(Chances(e)) - One(task[w][e]) + 0
          /\ Cardinality(Chances(e)) >= One(task[w][e])
      BY <2>1, <3>1, Counting
    <3>3. RowChance(e) \in {0, 1} /\ RowChance(e)' \in {0, 1}
      BY DEF RowChance
    <3>4. received[e] + Cardinality(Chances(e)) + RowChance(e) <= 1 + again[e]
      BY <2>2 DEF EventInv, Counted
    <3>5. CASE task[w][e] = "none"
      <4>1. Held(e)' <=> Held(e)
        BY <2>1, <3>5 DEF Held, Others
      <4>2. RowChance(e)' = RowChance(e)
        BY <1>1, <2>3, <3>5, <4>1 DEF RowChance
      <4>3. One(task[w][e]) = 0 /\ received'[e] = received[e] /\ again'[e] = again[e]
        BY <2>2, <2>3, <3>1, <3>5
      <4> QED
        BY <2>2, <3>2, <3>3, <3>4, <4>2, <4>3 DEF Counted
    <3>6. CASE task[w][e] \in Trying
      <4>1. /\ One(task[w][e]) = 1
            /\ again'[e] - again[e] = received'[e] - received[e]
            /\ received'[e] \in Nat /\ again'[e] \in Nat
        BY <2>2, <2>3, <3>6 DEF One, Trying
      <4> QED
        BY <2>2, <3>2, <3>3, <3>4, <4>1 DEF Counted
    <3>7. CASE task[w][e] = "record"
      <4>1. One(task[w][e]) = 0 /\ received'[e] = received[e]
        BY <2>2, <2>3, <3>7 DEF One, Trying
      <4>2. CASE again'[e] = again[e] + 1
        BY <2>2, <3>2, <3>3, <3>4, <4>1, <4>2 DEF Counted
      <4>3. CASE again'[e] = again[e]
        <5>1. status'[e] \in {"delivered", "gone"}
          BY <2>2, <2>3, <3>7, <4>3
        <5>2. RowChance(e)' = 0
          BY <5>1 DEF RowChance
        <5> QED
          BY <2>2, <3>2, <3>3, <3>4, <4>1, <4>3, <5>2 DEF Counted
      <4> QED
        BY <2>3, <4>2, <4>3
    <3> QED
      BY <2>2, <3>5, <3>6, <3>7 DEF Place, Trying
  <2>5. Tried(e)'
    BY <1>1, <2>1, <2>2, <2>3 DEF EventInv, Tried, Others
  <2>6. Heard(e)'
    BY <2>1, <2>2, <2>3 DEF EventInv, Heard, Others
  <2>7. Leased(e)'
    BY <1>1, <2>1, <2>2, <2>3 DEF EventInv, Leased, Others, Held
  <2> QED
    BY <2>4, <2>5, <2>6, <2>7 DEF EventInv
<1>6. TypeOK'
  BY <1>3, <1>4 DEF TypeOK, RowTypeOK, TaskTypeOK, Place
<1> QED
  BY <1>5, <1>6 DEF IInv

LEMMA InitKeeps == Init => IInv
<1> SUFFICES ASSUME Init PROVE IInv
  OBVIOUS
<1>1. RowTypeOK /\ TaskTypeOK
  <2>1. 0 \in 0..(MaxAttempts - 1) /\ 0 \in 0..MaxAttempts /\ 0 \in 0..MaxFaults
    BY WebhookAssumption
  <2> QED
    BY <2>1 DEF Init, RowTypeOK, TaskTypeOK, Place
<1>2. ASSUME NEW e \in Event PROVE EventInv(e)
  <2>1. \A w \in Worker : task[w][e] = "none" /\ known[w][e] = 0
    BY DEF Init
  <2>2. Chances(e) = {} /\ ~Held(e)
    BY <2>1 DEF Chances, Trying, Held
  <2>3. Cardinality(Chances(e)) = 0
    BY <2>2, FS_EmptySet
  <2>4. status[e] = "absent" /\ received[e] = 0 /\ again[e] = 0 /\ attempts[e] = 0 /\ tried[e] = 0
    BY DEF Init
  <2>5. Counted(e)
    BY <2>3, <2>4 DEF Counted, RowChance
  <2> QED
    BY <2>1, <2>2, <2>4, <2>5, WebhookAssumption DEF EventInv, Tried, Heard, Leased
<1> QED
  BY <1>1, <1>2, Types DEF IInv

LEMMA NextKeeps == IInv /\ [Next]_vars => IInv'
<1> SUFFICES ASSUME IInv, [Next]_vars PROVE IInv'
  OBVIOUS
<1>1. ASSUME NEW w \in Worker, WorkerStep(w) PROVE IInv'
  BY <1>1, ClaimKeeps, GoOnSteps, LeaveSteps DEF WorkerStep, DeliverOne
<1>2. CASE Disturbance
  BY <1>2, GoOnSteps, LeaveSteps, CrashKeeps, RowSteps DEF Disturbance
<1>3. CASE UNCHANGED vars
  <2>1. \A e \in Event : SameEvent(e) /\ EventInv(e)
    BY <1>3 DEF vars, rowVars, workerVars, history, SameEvent, IInv
  <2>2. TypeOK'
    BY <1>3 DEF IInv, TypeOK, vars, rowVars, workerVars, history
  <2> QED
    BY <2>1, <2>2, SameEventKeeps DEF IInv
<1> QED
  BY <1>1, <1>2, <1>3, RowSteps DEF Next

(* Whatever faults occur, every reachable state of the polling workers     *)
(* satisfies the invariant.                                                *)
THEOREM Inductive == Spec => []IInv
  BY InitKeeps, NextKeeps, PTL DEF Spec

(* Rows, copies and tasks have the types their columns and variables have; *)
(* no more attempts are counted than MAX_ATTEMPTS, and a task is begun     *)
(* only for a row that has one left.                                       *)
THEOREM TypeCorrect == Spec => []TypeOK
<1>1. IInv => TypeOK
  BY DEF IInv
<1> QED
  BY <1>1, Inductive, PTL

(* 'delivered' says that the endpoint accepted the event, 'failed' that    *)
(* MAX_ATTEMPTS POSTs were made and none accepted, but for acceptances the *)
(* worker was kept from knowing of.                                        *)
THEOREM StatusIsAlwaysTrue == Spec => []StatusIsTrue
<1>1. IInv => StatusIsTrue
  <2> SUFFICES ASSUME IInv, NEW e \in Event
               PROVE  /\ status[e] = "delivered" => received[e] > 0
                      /\ status[e] = "failed" => tried[e] >= MaxAttempts /\ received[e] <= again[e]
    BY DEF StatusIsTrue
  <2>1. EventInv(e) /\ received[e] \in Nat /\ again[e] \in Nat
    BY Facts
  <2>2. Cardinality(Chances(e)) \in Nat
    <3>1. Chances(e) \in SUBSET Worker
      BY DEF Chances
    <3> QED
      BY <3>1, FS_Subset, FS_CardinalityType, WebhookAssumption
  <2>3. status[e] = "failed" => RowChance(e) = 1
    BY DEF RowChance
  <2>4. status[e] = "failed" => received[e] <= again[e]
    BY <2>1, <2>2, <2>3 DEF EventInv, Counted
  <2> QED
    BY <2>1, <2>4 DEF EventInv, Tried, Heard
<1> QED
  BY <1>1, Inductive, PTL

(* The endpoint accepts an event more than once only for a reason, once    *)
(* for each: a lease, a lost answer, a failed update or a crash.           *)
THEOREM ReceivedAtMostOnce == Spec => []ReceivedOnce
<1>1. IInv => ReceivedOnce
  <2> SUFFICES ASSUME IInv, NEW e \in Event PROVE received[e] <= 1 + again[e]
    BY DEF ReceivedOnce
  <2>1. EventInv(e) /\ received[e] \in Nat /\ again[e] \in Nat
    BY Facts
  <2>2. Cardinality(Chances(e)) \in Nat /\ RowChance(e) \in Nat
    <3>1. Chances(e) \in SUBSET Worker
      BY DEF Chances
    <3> QED
      BY <3>1, FS_Subset, FS_CardinalityType, WebhookAssumption DEF RowChance
  <2> QED
    BY <2>1, <2>2 DEF EventInv, Counted
<1> QED
  BY <1>1, Inductive, PTL

(* An event that is done with is never pending again, whatever a worker    *)
(* that outlived its lease writes over it; and nothing is written to it    *)
(* but by such a worker, or one that was told that the update failed which *)
(* ended the event.                                                        *)
THEOREM TerminalStaysFinal == Spec => TerminalIsFinal
<1> DEFINE Settled(e) == status[e] \in {"delivered", "failed"}
           Kept(e) == status'[e] \in {status[e], "gone"} /\ attempts'[e] = attempts[e]
           Final == \A e \in Event : Settled(e) =>
                       /\ status'[e] \in {"delivered", "failed", "gone"}
                       /\ e \notin lapsed \cup doubted \/ ~Held(e) => Kept(e)
           Stays(e) == status'[e] \in {"delivered", "failed", "gone"}
                       /\ (~Held(e) => Kept(e))
<1>1. ASSUME IInv, [Next]_vars, NEW e \in Event, Settled(e) PROVE Stays(e)
  <2>1. RowTypeOK
    BY <1>1, Facts
  <2>2. ASSUME NEW w \in Worker, NEW f \in Event,
               DeliverOne(w, f) \/ Unheard(w, f) \/ MarkDeliveredFails(w, f) \/ TaskFails(w, f)
        PROVE  Stays(e)
    <3>1. task[w][f] # "none"
      BY <2>2 DEF DeliverOne, Unheard, MarkDeliveredFails, TaskFails, Post, NoEndpoint,
         Refused, Accepted, MarkDelivered, MarkRetry, MarkRetryAs, MarkFailed
    <3>2. /\ status' = status \/ \E s \in {"delivered", "failed"} : status' = Write(f, s)
          /\ attempts' = attempts \/ \E n \in {Attempt(w, f)} : attempts' = [attempts EXCEPT ![f] = n]
      BY <2>2 DEF DeliverOne, Unheard, MarkDeliveredFails, TaskFails, Post, NoEndpoint,
         Refused, Accepted, MarkDelivered, MarkRetry, MarkRetryAs, MarkFailed, rowVars
    <3>3. status'[e] \in {"delivered", "failed", "gone"}
      BY <1>1, <2>1, <3>2 DEF Write, RowTypeOK
    <3>4. ASSUME ~Held(e) PROVE Kept(e)
      <4>1. f # e
        BY <3>1, <3>4 DEF Held
      <4> QED
        BY <2>1, <3>2, <4>1 DEF Write, RowTypeOK
    <3> QED
      BY <3>3, <3>4
  <2>3. ASSUME NEW w \in Worker, ClaimDue(w) PROVE Stays(e)
    BY <1>1, <2>3 DEF ClaimDue, ClaimRows
  <2>4. ASSUME NEW w \in Worker, Crash(w) PROVE Stays(e)
    <3>1. /\ attempts' = attempts
          /\ status'[e] = status[e] \/ (task[w][e] = "record" /\ status'[e] = "delivered")
      BY <2>4 DEF Crash
    <3> QED
      BY <1>1, <3>1 DEF Held
  <2>5. ASSUME NEW f \in Event, Emit(f) \/ BecomesDue(f) \/ EndpointDeleted(f)
        PROVE  Stays(e)
    BY <1>1, <2>1, <2>5 DEF Emit, BecomesDue, EndpointDeleted, RowTypeOK
  <2>6. CASE UNCHANGED vars
    BY <1>1, <2>6 DEF vars, rowVars
  <2> HIDE DEF Settled, Stays
  <2> QED
    BY <1>1, <2>2, <2>3, <2>4, <2>5, <2>6 DEF Next, WorkerStep, Disturbance
<1>2. IInv /\ [Next]_vars => Final
  <2> SUFFICES ASSUME IInv, [Next]_vars, NEW e \in Event, Settled(e)
               PROVE  /\ status'[e] \in {"delivered", "failed", "gone"}
                      /\ e \notin lapsed \cup doubted \/ ~Held(e) => Kept(e)
    OBVIOUS
  <2>1. Stays(e)
    BY <1>1
  <2>2. e \notin lapsed \cup doubted => ~Held(e)
    BY Facts DEF EventInv, Leased
  <2> QED
    BY <2>1, <2>2
<1>3. TerminalIsFinal <=> [][Final]_vars
  BY PTL DEF TerminalIsFinal
<1> QED
  BY <1>2, <1>3, Inductive, PTL DEF Spec
=============================================================================
