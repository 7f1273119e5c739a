------------------------- MODULE WebhookRelayProofs -------------------------
(***************************************************************************)
(* Theorems about WebhookRelay, for any events, any finite numbers of      *)
(* workers and of messages in the broker, and any limits and faults.       *)
(***************************************************************************)
EXTENDS WebhookRelay, FiniteSetTheorems, TLAPS

(* What a slot may hold: nothing, a message a handler works on, or one     *)
(* that waits in a queue.                                                  *)
Working == [event: Event, attempt: 1..MaxAttempts, at: Carried, by: Worker]
Queued == [event: Event, attempt: 1..MaxAttempts, at: Place \ Carried, by: {"none"}]
Message == Working \cup Queued
Content == Message \cup {Free}

(* Somebody knows of the event, or has known of it.                        *)
Handled(e) == InBroker(e) \/ received[e] > 0 \/ e \in dead \/ e \in discarded

(* What may still come of an event: of each message that was not accepted, *)
(* of each batch from which it is not stored yet, and of a row that may be *)
(* claimed, or that says that nothing was accepted, one 2xx answer more.   *)
Live(e) == {s \in Slot : EventOf(s) = e /\ message[s].at # "record"}
Unsent(e) == {w \in Worker : e \in unsent[w]}
RowChance(e) == IF status[e] \in {"pending", "failed"} THEN 1 ELSE 0

Counted(e) ==
    received[e] + Cardinality(Live(e)) + Cardinality(Unsent(e)) + RowChance(e) <= 1 + again[e]

(* The POSTs that may still be made of an event, on the attempts that each *)
(* message has left, and all of them on what may become a message.         *)
Bit(b) == IF b THEN 1 ELSE 0

Spent(m) == IF m.at \in {"deliver", "lookup", "retry"} THEN m.attempt - 1
            ELSE IF m.at = "post" THEN m.attempt ELSE MaxAttempts

Left(e) == {p \in Slot \X (1..MaxAttempts) :
               EventOf(p[1]) = e /\ p[2] > Spent(message[p[1]])}

Limited(e) ==
    tried[e] + Cardinality(Left(e))
        + MaxAttempts * (Cardinality(Unsent(e)) + Bit(status[e] = "pending"))
      <= MaxAttempts * (1 + again[e])

PerEvent(e) ==
    /\ status[e] \in {"published", "delivered", "failed"} => Handled(e)
    /\ status[e] = "delivered" => received[e] > 0
    /\ status[e] = "failed" => e \in dead /\ tried[e] >= MaxAttempts
    /\ status[e] = "absent" => received[e] = 0 /\ tried[e] = 0
    /\ Counted(e) /\ Limited(e)

(* What is known of an event that is in the broker with content m.         *)
Warranted(m) ==
    m # Free =>
        /\ status[m.event] # "absent"
        /\ m.attempt <= tried[m.event] + 1
        /\ m.at \in {"post", "record"} => m.attempt <= tried[m.event]
        /\ m.at = "record" => received[m.event] > 0
        /\ m.at = "bury" => /\ m.event \in dead
                            /\ status[m.event] = "gone" \/ tried[m.event] >= MaxAttempts

PerWorker(w) ==
    /\ relay[w] \in {"sleep", "claim"} => batch[w] = {}
    /\ relay[w] = "mark" => unsent[w] = {}
    /\ \A e \in batch[w] : status[e] # "absent" /\ (e \notin unsent[w] => Handled(e))

RowTypes ==
    /\ status \in [Event -> {"absent", "pending", "publishing", "published",
                             "delivered", "failed", "gone"}]
    /\ stale \subseteq {e \in Event : status[e] = "publishing"}
    /\ dead \subseteq Event /\ discarded \subseteq Event
    /\ received \in [Event -> Nat] /\ tried \in [Event -> Nat]
    /\ again \in [Event -> Nat]
    /\ faults \in 0..MaxFaults

RelayTypes ==
    /\ relay \in [Worker -> {"sleep", "claim", "publish", "mark", "reset"}]
    /\ batch \in [Worker -> SUBSET Event]
    /\ unsent \in [Worker -> SUBSET Event]
    /\ \A w \in Worker : unsent[w] \subseteq batch[w]

IInv == /\ RowTypes /\ RelayTypes
        /\ message \in [Slot -> Content]
        /\ \A e \in Event : PerEvent(e)
        /\ \A s \in Slot : Warranted(message[s])
        /\ \A w \in Worker : PerWorker(w)

----------------------------------------------------------------------------
(* Numbers and sets. *)

(* The slot the broker takes is a free one. *)
LEMMA LowestIsFree ==
    ASSUME NEW S \in SUBSET Nat, S # {}
    PROVE  Min(S) \in S
<1> DEFINE D == {0..x : x \in S}
<1>1. D \subseteq FiniteSubsetsOf(Nat) /\ D # {}
  <2>1. \A x \in S : 0..x \in SUBSET Nat /\ IsFiniteSet(0..x)
    BY FS_Interval
  <2> QED
    BY <2>1 DEF FiniteSubsetsOf
<1>2. PICK X \in D : \A Y \in D : ~(<<Y, X>> \in StrictSubsetOrdering(Nat))
  <2> HIDE DEF D
  <2> QED
    BY <1>1, FS_StrictSubsetOrderingWellFounded, WFMin
<1>3. PICK x \in S : X = 0..x
  OBVIOUS
<1>4. ASSUME NEW y \in S, y < x PROVE FALSE
  <2>1. 0..y \subseteq 0..x /\ 0..y # 0..x /\ 0..y \in D
    BY <1>4
  <2>2. <<0..y, X>> \in StrictSubsetOrdering(Nat)
    BY <1>3, <2>1 DEF StrictSubsetOrdering
  <2> QED
    BY <1>2, <2>1, <2>2
<1>5. \A y \in S : x <= y
  BY <1>4
<1> QED
  BY <1>5 DEF Min

(* Two finite sets that differ in one element at most.                     *)
LEMMA OneElement ==
    ASSUME NEW S, NEW T, NEW x, IsFiniteSet(S), IsFiniteSet(T), S \ {x} = T \ {x}
    PROVE  /\ Cardinality(S) \in Nat /\ Cardinality(T) \in Nat
           /\ Cardinality(T) = Cardinality(S) - Bit(x \in S) + Bit(x \in T)
           /\ Cardinality(S) >= Bit(x \in S)
<1>1. /\ Cardinality(S \ {x}) = IF x \in S THEN Cardinality(S) - 1 ELSE Cardinality(S)
      /\ Cardinality(T \ {x}) = IF x \in T THEN Cardinality(T) - 1 ELSE Cardinality(T)
  BY FS_RemoveElement
<1>2. Cardinality(S) \in Nat /\ Cardinality(T) \in Nat /\ Cardinality(S \ {x}) \in Nat
  BY FS_RemoveElement, FS_CardinalityType
<1> QED
  BY <1>1, <1>2 DEF Bit

(* Two finite sets that differ in a part of each.                          *)
LEMMA PartReplaced ==
    ASSUME NEW S, NEW T, NEW A \in SUBSET S, NEW B \in SUBSET T,
           IsFiniteSet(S), IsFiniteSet(T), S \ A = T \ B
    PROVE  /\ Cardinality(S) \in Nat /\ Cardinality(T) \in Nat
           /\ Cardinality(T) = Cardinality(S) - Cardinality(A) + Cardinality(B)
<1>1. /\ Cardinality(S \ A) = Cardinality(S) - Cardinality(S \cap A)
      /\ Cardinality(T \ B) = Cardinality(T) - Cardinality(T \cap B)
  BY FS_Difference
<1>2. S \cap A = A /\ T \cap B = B
  OBVIOUS
<1>3. /\ Cardinality(S) \in Nat /\ Cardinality(T) \in Nat
      /\ Cardinality(A) \in Nat /\ Cardinality(B) \in Nat
  BY FS_Subset, FS_CardinalityType
<1>4. /\ Cardinality(S \ A) = Cardinality(S) - Cardinality(A)
      /\ Cardinality(S \ A) = Cardinality(T) - Cardinality(B)
  BY <1>1, <1>2
<1> QED
  BY <1>3, <1>4

LEMMA Pairs == IsFiniteSet(Slot \X (1..MaxAttempts))
<1>1. 1 \in Int /\ MaxAttempts \in Int /\ IsFiniteSet(Slot)
  BY RelayAssumption
<1>2. IsFiniteSet(1..MaxAttempts)
  BY <1>1, FS_Interval
<1> QED
  BY <1>1, <1>2, FS_Product

LEMMA Scale ==
    ASSUME NEW n \in Nat, NEW x \in Nat, NEW y \in Nat
    PROVE  /\ n * x \in Nat /\ n * y \in Nat /\ n * (x + y) = n * x + n * y
           /\ x <= y => n * x <= n * y
  OBVIOUS

(* A limit of n POSTs for every reason: k reasons pay for n * k POSTs.     *)
LEMMA Paid ==
    ASSUME NEW n \in Nat, NEW k \in Nat,
           NEW t \in Nat, NEW l \in Nat, NEW u \in Nat, NEW a \in Nat,
           NEW t1 \in Nat, NEW l1 \in Nat, NEW u1 \in Nat, NEW a1 \in Nat,
           t + l + n * u <= n * (1 + a),
           t1 + l1 <= t + l + n * k,
           u1 + k + a <= u + a1
    PROVE  t1 + l1 + n * u1 <= n * (1 + a1)
<1>1. n * (u1 + (k + a)) <= n * (u + a1)
  <2>1. u1 + (k + a) \in Nat /\ u + a1 \in Nat /\ u1 + (k + a) <= u + a1
    OBVIOUS
  <2> QED
    BY <2>1, Scale
<1>2. /\ n * (u1 + (k + a)) = n * u1 + n * (k + a)
      /\ n * (k + a) = n * k + n * a
      /\ n * (u + a1) = n * u + n * a1
      /\ n * (1 + a) = n * 1 + n * a
      /\ n * (1 + a1) = n * 1 + n * a1
  <2>1. k + a \in Nat
    OBVIOUS
  <2> QED
    BY <2>1, Scale
<1>3. /\ n * u1 \in Nat /\ n * k \in Nat /\ n * a \in Nat /\ n * u \in Nat /\ n * a1 \in Nat
      /\ n * 1 \in Nat
  BY Scale
<1> DEFINE nu1 == n * u1   nk == n * k   na == n * a   nu == n * u   na1 == n * a1   n1 == n * 1
<1>4. /\ t + l + nu <= n1 + na /\ nu1 + nk + na <= nu + na1
      /\ nu1 \in Nat /\ nk \in Nat /\ na \in Nat /\ nu \in Nat /\ na1 \in Nat /\ n1 \in Nat
      /\ t1 + l1 <= t + l + nk
  BY <1>1, <1>2, <1>3
<1>5. t1 + l1 + nu1 <= n1 + na1
  <2> HIDE DEF nu1, nk, na, nu, na1, n1
  <2> QED
    BY <1>4
<1> QED
  BY <1>2, <1>5

----------------------------------------------------------------------------
(* What a step must respect, of the events, messages and workers that it   *)
(* is not about.                                                           *)
LEMMA Facts ==
    ASSUME IInv
    PROVE  /\ RowTypes /\ RelayTypes /\ message \in [Slot -> Content]
           /\ \A e \in Event :
                 /\ PerEvent(e)
                 /\ received[e] \in Nat /\ tried[e] \in Nat /\ again[e] \in Nat
           /\ \A s \in Slot : Warranted(message[s])
           /\ \A w \in Worker : PerWorker(w)
           /\ MaxAttempts \in Nat \ {0}
  BY RelayAssumption DEF IInv, RowTypes

(* What a slot holds is told by any one of its fields.                     *)
LEMMA Contents ==
    ASSUME NEW m \in Content
    PROVE  /\ m = Free \/ m \in Message
           /\ m.event \in Event <=> m # Free
           /\ m.event = "none" <=> m = Free
           /\ m.at \in Place <=> m # Free
           /\ m # Free => m.attempt \in 1..MaxAttempts /\ m.event # "none"
           /\ m.at \in Carried <=> m.by \in Worker
           /\ m.at \in Carried => m \in Working
           /\ m.at \in Place \ Carried => m \in Queued
<1>1. CASE m = Free
  BY <1>1, RelayAssumption DEF Free, Place, Carried
<1>2. CASE m \in Working
  BY <1>2, RelayAssumption DEF Working, Free, Place, Carried, Message
<1>3. CASE m \in Queued
  BY <1>3, RelayAssumption DEF Queued, Free, Place, Carried, Message
<1> QED
  BY <1>1, <1>2, <1>3 DEF Content, Message

Forward(e) ==
    /\ received'[e] >= received[e] /\ tried'[e] >= tried[e]
    /\ e \in dead => e \in dead'
    /\ status[e] # "absent" => status'[e] # "absent"
    /\ status[e] = "gone" => status'[e] = "gone"

SameRow(e) ==
    /\ status'[e] = status[e]
    /\ received'[e] = received[e] /\ tried'[e] = tried[e] /\ again'[e] = again[e]
    /\ e \in dead' <=> e \in dead
    /\ e \in discarded' <=> e \in discarded

SameMessages(e) == \A s \in Slot : EventOf(s) = e \/ EventOf(s)' = e => message'[s] = message[s]

LEMMA SameRowGoesForward ==
    ASSUME IInv, NEW e \in Event, SameRow(e)
    PROVE  Forward(e)
  BY Facts DEF SameRow, Forward

(* A message stays warranted while the row of its event goes forward.      *)
LEMMA WarrantedStays ==
    ASSUME IInv, RowTypes', NEW m \in Content, Warranted(m), m # Free => Forward(m.event)
    PROVE  Warranted(m)'
<1> SUFFICES ASSUME m # Free PROVE Warranted(m)'
  BY DEF Warranted
<1> DEFINE e == m.event
<1>1. e \in Event /\ Forward(e) /\ m.attempt \in Nat
  BY Contents
<1>2. /\ received[e] \in Nat /\ tried[e] \in Nat /\ received'[e] \in Nat /\ tried'[e] \in Nat
      /\ MaxAttempts \in Nat
  BY <1>1, Facts DEF RowTypes
<1> QED
  BY <1>1, <1>2 DEF Warranted, Forward

(* A relay that does not move keeps its batch handled.                     *)
LEMMA WorkerStays ==
    ASSUME IInv, NEW w \in Worker, PerWorker(w),
           relay'[w] = relay[w], batch'[w] = batch[w], unsent'[w] = unsent[w],
           \A e \in batch[w] : Forward(e) /\ (Handled(e) => Handled(e)')
    PROVE  PerWorker(w)'
  BY DEF PerWorker, Forward

LEMMA SameMessagesCount ==
    ASSUME NEW e \in Event, SameMessages(e)
    PROVE  Live(e)' = Live(e) /\ Left(e)' = Left(e) /\ (InBroker(e)' <=> InBroker(e))
<1>1. \A s \in Slot : EventOf(s) = e <=> EventOf(s)' = e
  BY DEF SameMessages, EventOf
<1> QED
  BY <1>1 DEF SameMessages, Live, Left, Spent, InBroker

(* What is known of an event stays while its row, its messages and the     *)
(* relays' unsent copies of it do.                                         *)
LEMMA EventStays ==
    ASSUME IInv, NEW e \in Event, SameRow(e), SameMessages(e), Unsent(e)' = Unsent(e)
    PROVE  PerEvent(e)' /\ (Handled(e) => Handled(e)')
<1>1. PerEvent(e) /\ Live(e)' = Live(e) /\ Left(e)' = Left(e) /\ (InBroker(e)' <=> InBroker(e))
  BY Facts, SameMessagesCount
<1>2. Handled(e)' <=> Handled(e)
  BY <1>1 DEF Handled, SameRow
<1>3. RowChance(e)' = RowChance(e)
  BY DEF RowChance, SameRow
<1>4. Counted(e)'
  BY <1>1, <1>3 DEF PerEvent, Counted, SameRow
<1>5. Limited(e)'
  BY <1>1 DEF PerEvent, Limited, SameRow, Bit
<1> QED
  BY <1>1, <1>2, <1>4, <1>5 DEF PerEvent, SameRow

(* The parts of the count are numbers. *)
LEMMA Numbers ==
    ASSUME IInv, NEW e \in Event
    PROVE  /\ IsFiniteSet(Live(e)) /\ Cardinality(Live(e)) \in Nat
           /\ IsFiniteSet(Unsent(e)) /\ Cardinality(Unsent(e)) \in Nat
           /\ RowChance(e) \in {0, 1}
           /\ IsFiniteSet(Left(e)) /\ Cardinality(Left(e)) \in Nat
<1>1. /\ Live(e) \in SUBSET Slot /\ Unsent(e) \in SUBSET Worker
      /\ Left(e) \in SUBSET (Slot \X (1..MaxAttempts))
  BY DEF Live, Unsent, Left
<1>2. RowChance(e) \in {0, 1}
  BY DEF RowChance
<1> QED
  BY <1>1, <1>2, Pairs, FS_Subset, FS_CardinalityType, RelayAssumption

(* What is to become of an event may cost k times MAX_ATTEMPTS more if it   *)
(* has k reasons more, or k batches and claims less.                       *)
LEMMA LimitedStays ==
    ASSUME IInv, RowTypes', NEW e \in Event, NEW k \in Nat,
           Cardinality(Left(e)') \in Nat, Cardinality(Unsent(e)') \in Nat,
           tried'[e] + Cardinality(Left(e)') <= tried[e] + Cardinality(Left(e)) + MaxAttempts * k,
           Cardinality(Unsent(e)') + Bit(status'[e] = "pending") + k + again[e]
              <= Cardinality(Unsent(e)) + Bit(status[e] = "pending") + again'[e]
    PROVE  Limited(e)'
<1> DEFINE u == Cardinality(Unsent(e)) + Bit(status[e] = "pending")
           v == Cardinality(Unsent(e)') + Bit(status'[e] = "pending")
           l == Cardinality(Left(e))
           l1 == Cardinality(Left(e)')
<1>1. /\ PerEvent(e) /\ tried[e] \in Nat /\ again[e] \in Nat /\ MaxAttempts \in Nat
      /\ tried'[e] \in Nat /\ again'[e] \in Nat
  BY Facts DEF RowTypes
<1>2. u \in Nat /\ v \in Nat /\ l \in Nat /\ l1 \in Nat
  BY Numbers DEF Bit
<1>3. /\ tried[e] + l + MaxAttempts * u <= MaxAttempts * (1 + again[e])
      /\ tried'[e] + l1 <= tried[e] + l + MaxAttempts * k
  BY <1>1 DEF PerEvent, Limited
<1>4. v + k + again[e] <= u + again'[e]
  <2>1. /\ Bit(status'[e] = "pending") \in Nat /\ Bit(status[e] = "pending") \in Nat
        /\ Cardinality(Unsent(e)) \in Nat
    BY Numbers DEF Bit
  <2> QED
    BY <1>1, <2>1
<1>5. tried'[e] + l1 + MaxAttempts * v <= MaxAttempts * (1 + again'[e])
  <2> HIDE DEF u, v, l, l1
  <2> QED
    BY <1>1, <1>2, <1>3, <1>4, Paid
<1> QED
  BY <1>5 DEF Limited, Bit

----------------------------------------------------------------------------
(* A step of the handler of one message, on that message and the row of    *)
(* its event.                                                              *)
Weight(m) == Bit(m # Free /\ m.at # "record")

(* One slot's content changes, and it is of event e before and after, if   *)
(* it is of any.                                                           *)
LEMMA LiveCount ==
    ASSUME message \in [Slot -> Content], NEW s \in Slot, NEW m \in Content, NEW e \in Event,
           message' = [message EXCEPT ![s] = m],
           message[s].event \in {e, "none"}, m.event \in {e, "none"}
    PROVE  /\ Cardinality(Live(e)') = Cardinality(Live(e)) - Weight(message[s]) + Weight(m)
           /\ Cardinality(Live(e)') \in Nat
           /\ \A f \in Event \ {e} : SameMessages(f)
<1>1. message'[s] = m /\ \A t \in Slot \ {s} : message'[t] = message[t]
  OBVIOUS
<1>2. /\ message[s].event = e <=> message[s] # Free
      /\ m.event = e <=> m # Free
  BY Contents, RelayAssumption
<1>3. \A f \in Event \ {e} : SameMessages(f)
  BY <1>1, RelayAssumption DEF SameMessages, EventOf
<1> DEFINE S == Live(e)
           T == Live(e)'
<1>4. /\ S \in SUBSET Slot /\ T \in SUBSET Slot /\ S \ {s} = T \ {s}
      /\ s \in S <=> message[s] # Free /\ message[s].at # "record"
      /\ s \in T <=> m # Free /\ m.at # "record"
  BY <1>1, <1>2 DEF Live, EventOf
<1>5. IsFiniteSet(S) /\ IsFiniteSet(T)
  <2> HIDE DEF S, T
  <2> QED
    BY <1>4, FS_Subset, RelayAssumption
<1>6. Cardinality(T) = Cardinality(S) - Bit(s \in S) + Bit(s \in T) /\ Cardinality(T) \in Nat
  <2> HIDE DEF S, T
  <2> QED
    BY <1>4, <1>5, OneElement
<1> QED
  BY <1>3, <1>4, <1>6 DEF Weight

(* The attempts a content has left. *)
Room(m) == IF m = Free THEN 0 ELSE MaxAttempts - Spent(m)

Rooms(s, m) == IF m = Free THEN {} ELSE {s} \X ((Spent(m) + 1)..MaxAttempts)

(* A message has the attempts left that its header has not counted.        *)
LEMMA RoomsCount ==
    ASSUME NEW s, NEW m \in Content
    PROVE  /\ m # Free => Spent(m) \in 0..MaxAttempts
           /\ Room(m) \in 0..MaxAttempts
           /\ IsFiniteSet(Rooms(s, m)) /\ Cardinality(Rooms(s, m)) = Room(m)
<1>1. m # Free => m.attempt \in 1..MaxAttempts
  BY Contents
<1>2. m # Free => Spent(m) \in 0..MaxAttempts
  BY <1>1, RelayAssumption DEF Spent
<1>3. CASE m = Free
  BY <1>3, FS_EmptySet, RelayAssumption DEF Room, Rooms
<1>4. CASE m # Free
  <2> DEFINE k == Spent(m)
             I == (k + 1)..MaxAttempts
  <2>1. k \in 0..MaxAttempts /\ MaxAttempts \in Nat
    BY <1>2, <1>4, RelayAssumption
  <2> HIDE DEF k
  <2>2. IsFiniteSet(I) /\ Cardinality(I) = MaxAttempts - k
    <3>1. /\ k + 1 \in Int /\ MaxAttempts \in Int
          /\ k + 1 > MaxAttempts => MaxAttempts - k = 0
          /\ MaxAttempts - (k + 1) + 1 = MaxAttempts - k
      BY <2>1
    <3> QED
      BY <3>1, FS_Interval
  <2> HIDE DEF I
  <2>3. IsFiniteSet({s} \X I) /\ Cardinality({s} \X I) = Cardinality({s}) * Cardinality(I)
    BY <2>2, FS_Singleton, FS_Product
  <2>4. Cardinality({s} \X I) = MaxAttempts - k
    <3>1. Cardinality({s}) = 1 /\ MaxAttempts - k \in Nat
      BY <2>1, FS_Singleton
    <3>2. 1 * (MaxAttempts - k) = MaxAttempts - k
      BY <3>1
    <3> QED
      BY <2>2, <2>3, <3>1, <3>2
  <2>5. Rooms(s, m) = {s} \X I /\ Room(m) = MaxAttempts - k
    BY <1>4 DEF Rooms, Room, I, k
  <2> QED
    BY <1>2, <2>1, <2>3, <2>4, <2>5
<1> QED
  BY <1>3, <1>4

(* Replacing one message changes the attempts left by its own.             *)
LEMMA LeftCount ==
    ASSUME message \in [Slot -> Content], NEW s \in Slot, NEW m \in Content, NEW e \in Event,
           message' = [message EXCEPT ![s] = m],
           message[s].event \in {e, "none"}, m.event \in {e, "none"}
    PROVE  /\ Cardinality(Left(e)') = Cardinality(Left(e)) - Room(message[s]) + Room(m)
           /\ Cardinality(Left(e)') \in Nat
<1>1. message'[s] = m /\ \A t \in Slot \ {s} : message'[t] = message[t]
  OBVIOUS
<1>2. /\ message[s] \in Content
      /\ message[s].event = e <=> message[s] # Free
      /\ m.event = e <=> m # Free
  BY Contents, RelayAssumption
<1> DEFINE S == Left(e)
           T == Left(e)'
           A == Rooms(s, message[s])
           B == Rooms(s, m)
<1>3. A \in SUBSET S /\ B \in SUBSET T /\ S \ A = T \ B
  <2>1. /\ message[s] # Free => Spent(message[s]) \in 0..MaxAttempts
        /\ m # Free => Spent(m) \in 0..MaxAttempts
        /\ MaxAttempts \in Nat
    BY <1>2, RoomsCount, RelayAssumption
  <2>2. \A n : n \in 1..MaxAttempts => n \in Int
    BY <2>1
  <2>3. \A x : x \in S <=> /\ x \in Slot \X (1..MaxAttempts)
                           /\ message[x[1]].event = e /\ x[2] > Spent(message[x[1]])
    BY DEF Left, EventOf
  <2>4. \A x : x \in T <=> /\ x \in Slot \X (1..MaxAttempts)
                           /\ message'[x[1]].event = e /\ x[2] > Spent(message'[x[1]])
    BY DEF Left, EventOf, Spent
  <2>5. \A x : x \in A <=> /\ x \in Slot \X (1..MaxAttempts) /\ x[1] = s
                           /\ message[s] # Free /\ x[2] > Spent(message[s])
    BY <2>1 DEF Rooms
  <2>6. \A x : x \in B <=> /\ x \in Slot \X (1..MaxAttempts) /\ x[1] = s
                           /\ m # Free /\ x[2] > Spent(m)
    BY <2>1 DEF Rooms
  <2> HIDE DEF S, T, A, B
  <2>7. A \subseteq S /\ B \subseteq T
    BY <1>1, <1>2, <2>3, <2>4, <2>5, <2>6
  <2>8. \A x : x \in S \ A <=> x \in T \ B
    BY <1>1, <1>2, <2>3, <2>4, <2>5, <2>6
  <2> QED
    BY <2>7, <2>8
<1>4. IsFiniteSet(S) /\ IsFiniteSet(T)
  <2>1. S \in SUBSET (Slot \X (1..MaxAttempts)) /\ T \in SUBSET (Slot \X (1..MaxAttempts))
    BY DEF Left
  <2> HIDE DEF S, T
  <2> QED
    BY <2>1, Pairs, FS_Subset
<1>5. Cardinality(T) = Cardinality(S) - Cardinality(A) + Cardinality(B) /\ Cardinality(T) \in Nat
  <2> HIDE DEF S, T, A, B
  <2> QED
    BY <1>3, <1>4, PartReplaced
<1> QED
  BY <1>2, <1>5, RoomsCount

(* A new content's attempts were left to the old one, but for those that a *)
(* reason pays for.                                                        *)
Affords(e, old, new) ==
    \E k \in {0, 1} : /\ tried'[e] + Room(new) <= tried[e] + Room(old) + MaxAttempts * k
                      /\ again[e] + k <= again'[e]

(* A step that posts no more than it uses up, or has a reason to, stays    *)
(* within the limit.                                                       *)
LEMMA Affordable ==
    ASSUME IInv, NEW e \in Event, NEW old \in Content, NEW new \in Content,
           again'[e] \in Nat, tried'[e] \in Nat,
           \/ tried'[e] + Room(new) <= tried[e] + Room(old) /\ again'[e] >= again[e]
           \/ tried'[e] = tried[e] /\ again'[e] >= again[e] + 1
    PROVE  Affords(e, old, new)
<1>1. /\ tried[e] \in Nat /\ again[e] \in Nat /\ MaxAttempts \in Nat
      /\ Room(old) \in Nat /\ Room(new) \in Nat /\ Room(new) <= MaxAttempts
  <2>1. Room(old) \in 0..MaxAttempts /\ Room(new) \in 0..MaxAttempts
    BY RoomsCount
  <2> QED
    BY <2>1, Facts
<1>2. MaxAttempts * 0 = 0 /\ MaxAttempts * 1 = MaxAttempts
  BY <1>1
<1>3. CASE tried'[e] + Room(new) <= tried[e] + Room(old) /\ again'[e] >= again[e]
  <2>1. /\ tried'[e] + Room(new) <= tried[e] + Room(old) + MaxAttempts * 0
        /\ again[e] + 0 <= again'[e]
    BY <1>1, <1>2, <1>3
  <2> QED
    BY <2>1 DEF Affords
<1>4. CASE tried'[e] = tried[e] /\ again'[e] >= again[e] + 1
  <2>1. /\ tried'[e] + Room(new) <= tried[e] + Room(old) + MaxAttempts * 1
        /\ again[e] + 1 <= again'[e]
    BY <1>1, <1>2, <1>4
  <2> QED
    BY <2>1 DEF Affords
<1> QED
  BY <1>3, <1>4

(* A step of one message keeps the invariant if its event stays somewhere, *)
(* and its chances are no more than there were, or there is a reason.      *)
LEMMA SlotStep ==
    ASSUME IInv, NEW s \in Slot, NEW m \in Content, NEW e \in Event,
           message[s].event = e, m.event \in {e, "none"},
           message' = [message EXCEPT ![s] = m],
           RowTypes', UNCHANGED relayVars,
           \A f \in Event \ {e} : SameRow(f),
           Forward(e), status'[e] # "absent",
           m # Free \/ received'[e] > 0 \/ e \in dead' \/ e \in discarded',
           received'[e] + Weight(m) + RowChance(e)' + again[e]
              <= received[e] + Weight(message[s]) + RowChance(e) + again'[e],
           Affords(e, message[s], m), status'[e] = "pending" => status[e] = "pending",
           status'[e] = "delivered" => received'[e] > 0,
           status'[e] = "failed" => e \in dead' /\ tried'[e] >= MaxAttempts,
           Warranted(m)'
    PROVE  IInv'
<1>1. /\ RowTypes /\ message \in [Slot -> Content] /\ PerEvent(e)
      /\ message' \in [Slot -> Content]
      /\ message'[s] = m /\ \A t \in Slot \ {s} : message'[t] = message[t]
  BY Facts
<1>2. Handled(e)'
  BY <1>1, Contents DEF Handled, InBroker, EventOf
<1>10. m \in Content /\ message[s].event \in {e, "none"} /\ message \in [Slot -> Content]
  BY <1>1
<1>3. /\ \A f \in Event \ {e} : SameMessages(f)
      /\ Cardinality(Live(e)') = Cardinality(Live(e)) - Weight(message[s]) + Weight(m)
      /\ Cardinality(Live(e)') \in Nat
  BY <1>10, LiveCount
<1>4. \A f \in Event : Unsent(f)' = Unsent(f)
  BY DEF Unsent, relayVars
<1>5. \A f \in Event \ {e} : PerEvent(f)' /\ (Handled(f) => Handled(f)') /\ Forward(f)
  BY <1>3, <1>4, EventStays, SameRowGoesForward
<1>6. PerEvent(e)'
  <2>1. /\ received[e] \in Nat /\ again[e] \in Nat
        /\ received'[e] \in Nat /\ again'[e] \in Nat
    BY <1>1 DEF RowTypes
  <2>2. /\ Cardinality(Live(e)) \in Nat /\ Cardinality(Unsent(e)) \in Nat
        /\ RowChance(e) \in {0, 1} /\ RowChance(e)' \in {0, 1}
    BY Numbers DEF RowChance
  <2>3. Weight(m) \in {0, 1} /\ Weight(message[s]) \in {0, 1}
    BY DEF Weight, Bit
  <2>4. received[e] + Cardinality(Live(e)) + Cardinality(Unsent(e)) + RowChance(e) <= 1 + again[e]
    BY <1>1 DEF PerEvent, Counted
  <2>5. received'[e] + Cardinality(Live(e)') + Cardinality(Unsent(e)) + RowChance(e)'
           <= 1 + again'[e]
    BY <1>3, <2>1, <2>2, <2>3, <2>4
  <2>6. Counted(e)'
    BY <1>4, <2>5 DEF Counted
  <2>7. Limited(e)'
    <3>1. PICK k \in {0, 1} : /\ tried'[e] + Room(m) <= tried[e] + Room(message[s]) + MaxAttempts * k
                              /\ again[e] + k <= again'[e]
      BY DEF Affords
    <3>2. /\ Cardinality(Left(e)') = Cardinality(Left(e)) - Room(message[s]) + Room(m)
          /\ Cardinality(Left(e)') \in Nat /\ Cardinality(Left(e)) \in Nat
      BY <1>10, LeftCount, Numbers
    <3>3. /\ Room(m) \in Nat /\ Room(message[s]) \in Nat /\ tried[e] \in Nat /\ tried'[e] \in Nat
          /\ MaxAttempts \in Nat /\ MaxAttempts * k \in Nat
      <4>1. MaxAttempts \in Nat /\ k \in Nat /\ message[s] \in Content
        BY <1>1, RelayAssumption
      <4>2. Room(m) \in 0..MaxAttempts /\ Room(message[s]) \in 0..MaxAttempts
        BY <4>1, RoomsCount
      <4>3. tried[e] \in Nat /\ tried'[e] \in Nat
        BY <1>1 DEF RowTypes
      <4> QED
        BY <4>1, <4>2, <4>3, Scale
    <3>4. tried'[e] + Cardinality(Left(e)') <= tried[e] + Cardinality(Left(e)) + MaxAttempts * k
      BY <3>1, <3>2, <3>3
    <3>5. Cardinality(Unsent(e)) + Bit(status'[e] = "pending") + k + again[e]
             <= Cardinality(Unsent(e)) + Bit(status[e] = "pending") + again'[e]
      <4>1. /\ Bit(status'[e] = "pending") <= Bit(status[e] = "pending")
            /\ Bit(status'[e] = "pending") \in {0, 1} /\ Bit(status[e] = "pending") \in {0, 1}
        BY DEF Bit
      <4> QED
        BY <2>1, <2>2, <3>1, <4>1
    <3> QED
      BY <1>4, <2>2, <3>2, <3>4, <3>5, LimitedStays
  <2> QED
    BY <1>2, <2>6, <2>7 DEF PerEvent
<1>7. ASSUME NEW t \in Slot PROVE Warranted(message[t])'
  <2>1. CASE t = s
    BY <1>1, <2>1 DEF Warranted
  <2>2. CASE t # s
    <3>1. PICK n \in Content : n = message[t] /\ n = message'[t]
      BY <1>1, <2>2
    <3>2. Warranted(n) /\ (n # Free => Forward(n.event))
      BY <1>5, <3>1, Facts, Contents
    <3>3. Warranted(n)'
      BY <3>2, WarrantedStays
    <3> QED
      BY <3>1, <3>3 DEF Warranted
  <2> QED
    BY <2>1, <2>2
<1>8. \A w \in Worker : PerWorker(w)'
  <2>1. \A f \in Event : Forward(f) /\ (Handled(f) => Handled(f)')
    BY <1>2, <1>5
  <2>2. \A w \in Worker : batch[w] \subseteq Event
    BY Facts DEF RelayTypes
  <2> QED
    BY <2>1, <2>2, Facts, WorkerStays DEF relayVars
<1>9. RelayTypes'
  BY Facts DEF RelayTypes, relayVars
<1> QED
  BY <1>1, <1>5, <1>6, <1>7, <1>8, <1>9 DEF IInv

Status == {"absent", "pending", "publishing", "published", "delivered", "failed", "gone"}

(* An UPDATE of the rows of S. *)
LEMMA Updated ==
    ASSUME RowTypes, NEW S, NEW new \in Status, Update(S, new)
    PROVE  /\ status' \in [Event -> Status]
           /\ stale' \subseteq {e \in Event : status'[e] = "publishing"}
           /\ \A e \in Event : /\ e \in S /\ status[e] # "gone" => status'[e] = new
                               /\ e \notin S \/ status[e] = "gone" => status'[e] = status[e]
  BY DEF RowTypes, Update, Status

LEMMA Moved ==
    ASSUME NEW s \in Slot, message \in [Slot -> Content], message[s].at \in Carried,
           NEW place \in Carried, Move(s, place)
    PROVE  \E m \in Message : /\ message' = [message EXCEPT ![s] = m]
                              /\ m.event = message[s].event
                              /\ m.attempt = message[s].attempt /\ m.at = place
<1>1. message[s] \in Working
  BY Contents
<1> DEFINE m == [message[s] EXCEPT !.at = place]
<1>2. m \in Message /\ m.event = message[s].event /\ m.attempt = message[s].attempt /\ m.at = place
  BY <1>1 DEF Working, Message
<1> QED
  BY <1>2 DEF Move

(* A caught message: at its last attempt it goes to the dead queue too.    *)
LEMMA CaughtTo ==
    ASSUME NEW s \in Slot, message \in [Slot -> Content], message[s].at \in {"post", "record"},
           Caught(s)
    PROVE  \E m \in Message :
              /\ message' = [message EXCEPT ![s] = m]
              /\ m.event = message[s].event
              /\ \/ /\ m.at = "bury" /\ dead' = dead \cup {EventOf(s)}
                    /\ m.attempt = message[s].attempt /\ m.attempt >= MaxAttempts
                 \/ /\ m.at = "retry" /\ dead' = dead
                    /\ m.attempt = message[s].attempt + 1
<1>1. message[s] \in Working /\ message[s].attempt \in 1..MaxAttempts
  BY Contents DEF Carried, Place
<1>2. CASE message[s].attempt >= MaxAttempts
  <2>1. Move(s, "bury") /\ dead' = dead \cup {EventOf(s)}
    BY <1>2 DEF Caught
  <2> QED
    BY <1>2, <2>1, Moved DEF Carried
<1>3. CASE ~(message[s].attempt >= MaxAttempts)
  <2> DEFINE m == [event |-> message[s].event, attempt |-> message[s].attempt + 1,
                   at |-> "retry", by |-> "none"]
  <2>1. /\ message'[s] = [[[message[s] EXCEPT !.attempt = message[s].attempt + 1]
                              EXCEPT !.at = "retry"] EXCEPT !.by = "none"]
        /\ \A t \in Slot \ {s} : message'[t] = message[t]
        /\ DOMAIN message' = Slot /\ message' = [t \in Slot |-> message'[t]]
        /\ dead' = dead
    BY <1>3 DEF Caught
  <2>2. message[s].attempt + 1 \in 1..MaxAttempts
    BY <1>1, <1>3, RelayAssumption
  <2>3. message' = [message EXCEPT ![s] = m]
    <3>1. message'[s] = m
      BY <1>1, <2>1 DEF Working
    <3> QED
      BY <2>1, <3>1
  <2>4. m \in Queued /\ m.event = message[s].event /\ m.at = "retry"
        /\ m.attempt = message[s].attempt + 1
    BY <1>1, <2>2 DEF Queued, Working, Place, Carried
  <2> QED
    BY <2>1, <2>3, <2>4 DEF Message
<1> QED
  BY <1>2, <1>3

(* The broker's part. *)
LEMMA DeliveryKeeps ==
    ASSUME IInv, NEW s \in Slot, Delivery(s)
    PROVE  IInv'
<1>1. /\ message[s] \in Content /\ message[s].at \in Place \ Carried
      /\ UNCHANGED <<rowVars, relayVars, dead, discarded, history, faults>>
  BY Facts DEF Delivery, Expire, Consume, Place, Carried
<1>2. PICK e \in Event : message[s] \in Queued /\ message[s].event = e
  BY <1>1, Contents DEF Queued
<1>3. PICK m \in Message : /\ message' = [message EXCEPT ![s] = m]
                           /\ m.event = e /\ m.attempt = message[s].attempt
                           /\ m.at \in {"deliver", "lookup"}
  <2>1. CASE Expire(s)
    <3> DEFINE m == [message[s] EXCEPT !.at = "deliver"]
    <3>1. m \in Queued /\ m.event = e /\ m.attempt = message[s].attempt /\ m.at = "deliver"
      BY <1>2 DEF Queued, Place, Carried
    <3> QED
      BY <2>1, <3>1 DEF Expire, Move, Message
  <2>2. ASSUME NEW w \in Worker, Consume(w, s)
        PROVE  \E m \in Message : /\ message' = [message EXCEPT ![s] = m]
                                  /\ m.event = e /\ m.attempt = message[s].attempt
                                  /\ m.at \in {"deliver", "lookup"}
    <3> DEFINE m == [event |-> e, attempt |-> message[s].attempt, at |-> "lookup", by |-> w]
    <3>1. m \in Working
      BY <1>2 DEF Queued, Working, Carried
    <3>2. /\ message'[s] = [[message[s] EXCEPT !.at = "lookup"] EXCEPT !.by = w]
          /\ \A t \in Slot \ {s} : message'[t] = message[t]
          /\ DOMAIN message' = Slot /\ message' = [t \in Slot |-> message'[t]]
      BY <2>2, Facts DEF Consume
    <3>3. message' = [message EXCEPT ![s] = m]
      <4>1. message'[s] = m
        BY <1>2, <3>2 DEF Queued
      <4> QED
        BY <3>2, <4>1, Facts
    <3>4. m.event = e /\ m.attempt = message[s].attempt /\ m.at = "lookup" /\ m \in Message
      BY <3>1 DEF Message
    <3> HIDE DEF m
    <3> QED
      BY <3>3, <3>4
  <2> QED
    BY <2>1, <2>2 DEF Delivery
<1>4. m \in Content /\ m # Free
  <2>1. m \in Content
    BY DEF Content
  <2> QED
    BY <1>2, <1>3, <2>1, Contents
<1>5. \A f \in Event : SameRow(f)
  BY <1>1 DEF SameRow, rowVars, history
<1>6. Forward(e) /\ RowTypes'
  BY <1>1, <1>2, <1>5, Facts, SameRowGoesForward DEF RowTypes, rowVars, history
<1>7. RowChance(e)' = RowChance(e) /\ Weight(m) = Weight(message[s])
  <2>1. message[s] # Free /\ message[s].at # "record"
    BY <1>1, <1>2, Contents DEF Place, Carried
  <2> QED
    <3>1. m # Free /\ m.at # "record" /\ status' = status
      BY <1>1, <1>3, <1>4 DEF rowVars
    <3>2. Weight(m) = Weight(message[s])
      BY <2>1, <3>1 DEF Weight
    <3> QED
      BY <3>1, <3>2 DEF RowChance
<1>8. Warranted(m) /\ PerEvent(e)
  BY <1>1, <1>2, <1>3, Facts, Contents DEF Warranted
<1>9. Warranted(m)'
  BY <1>3, <1>4, <1>6, <1>8, WarrantedStays
<1>10. /\ received'[e] = received[e] /\ again'[e] = again[e] /\ status'[e] = status[e]
       /\ tried'[e] = tried[e] /\ dead' = dead
       /\ received[e] \in Nat /\ again[e] \in Nat /\ Weight(m) \in {0, 1} /\ RowChance(e) \in {0, 1}
  BY <1>1, <1>2, Facts DEF rowVars, history, Weight, Bit, RowChance
<1>11. received'[e] + Weight(m) + RowChance(e)' + again[e]
              <= received[e] + Weight(message[s]) + RowChance(e) + again'[e]
  BY <1>7, <1>10
<1>12. status'[e] # "absent"
  BY <1>1, <1>2, <1>10, Facts, Contents DEF Warranted
<1> QED
  <2>1. /\ m.event \in {e, "none"} /\ UNCHANGED relayVars
        /\ status'[e] = "delivered" => received'[e] > 0
        /\ status'[e] = "failed" => e \in dead' /\ tried'[e] >= MaxAttempts
    BY <1>1, <1>3, <1>8, <1>10 DEF PerEvent
  <2>2. Affords(e, message[s], m)
    <3>1. /\ m.attempt = message[s].attempt /\ message[s].at \in {"deliver", "retry"}
          /\ m # Free /\ message[s] # Free /\ tried'[e] \in Nat
      BY <1>1, <1>2, <1>3, <1>4, <1>6, Contents DEF Place, Carried, RowTypes
    <3>2. Room(m) = Room(message[s]) /\ Room(m) \in Nat
      <4>1. Room(m) \in 0..MaxAttempts
        BY <1>4, RoomsCount
      <4> QED
        BY <1>3, <3>1, <4>1 DEF Room, Spent
    <3> QED
      BY <1>1, <1>4, <1>10, <3>1, <3>2, Affordable
  <2> QED
    BY <1>2, <1>3, <1>4, <1>5, <1>6, <1>9, <1>10, <1>11, <1>12, <2>1, <2>2, SlotStep

(* The message a handler works on. *)
LEMMA InHand ==
    ASSUME IInv, NEW s \in Slot, message[s].at \in Carried
    PROVE  \E e \in Event :
              /\ message[s].event = e /\ EventOf(s) = e
              /\ message[s] \in Content /\ message[s] # Free
              /\ message[s].attempt \in 1..MaxAttempts
              /\ status[e] # "absent" /\ PerEvent(e)
              /\ message[s].attempt <= tried[e] + 1
              /\ message[s].at \in {"post", "record"} => message[s].attempt <= tried[e]
              /\ message[s].at = "record" => received[e] > 0
              /\ message[s].at = "bury" =>
                    e \in dead /\ (status[e] = "gone" \/ tried[e] >= MaxAttempts)
<1>1. /\ message[s] \in Content /\ message[s] # Free
      /\ message[s].event \in Event /\ message[s].attempt \in 1..MaxAttempts
  BY Facts, Contents DEF Carried, Place
<1> QED
  BY <1>1, Facts DEF Warranted, EventOf

LEMMA PostKeeps == ASSUME IInv, NEW s \in Slot, Post(s) PROVE IInv'
<1>1. /\ message[s].at = "lookup" /\ message[s].at \in Carried
      /\ Move(s, "post") /\ tried' = OneMore(tried, {EventOf(s)})
      /\ UNCHANGED <<rowVars, relayVars, dead, discarded, received, again, faults>>
  BY DEF Post, Carried
<1>2. PICK e \in Event :
         /\ message[s].event = e /\ EventOf(s) = e /\ message[s] # Free
         /\ message[s].attempt \in 1..MaxAttempts
         /\ status[e] # "absent" /\ PerEvent(e) /\ message[s].attempt <= tried[e] + 1
  BY <1>1, InHand
<1>3. PICK m \in Message : /\ message' = [message EXCEPT ![s] = m]
                           /\ m.event = message[s].event
                           /\ m.attempt = message[s].attempt /\ m.at = "post"
  BY <1>1, Facts, Moved DEF Carried
<1>4. /\ tried'[e] = tried[e] + 1 /\ RowTypes' /\ tried[e] \in Nat
      /\ \A f \in Event \ {e} : SameRow(f)
  <2>1. RowTypes /\ tried \in [Event -> Nat]
    BY Facts DEF RowTypes
  <2>2. /\ tried' \in [Event -> Nat] /\ tried'[e] = tried[e] + 1
        /\ \A f \in Event \ {e} : tried'[f] = tried[f]
    BY <1>1, <1>2, <2>1 DEF OneMore
  <2> QED
    BY <1>1, <2>1, <2>2 DEF RowTypes, rowVars, SameRow
<1>5. m \in Content /\ m # Free /\ m.event = e
  BY <1>2, <1>3, Contents DEF Content
<1>6. /\ status'[e] = status[e] /\ received'[e] = received[e] /\ again'[e] = again[e]
      /\ dead' = dead /\ received[e] \in Nat
  BY <1>1, Facts DEF rowVars
<1>7. Forward(e)
  BY <1>4, <1>6 DEF Forward
<1>8. RowChance(e)' = RowChance(e) /\ Weight(m) = 1 /\ Weight(message[s]) = 1
  BY <1>1, <1>2, <1>3, <1>5, <1>6 DEF RowChance, Weight, Bit
<1>9. /\ received'[e] + Weight(m) + RowChance(e)' + again[e]
            <= received[e] + Weight(message[s]) + RowChance(e) + again'[e]
      /\ Warranted(m)'
  <2>1. RowChance(e) \in {0, 1} /\ again[e] \in Nat /\ message[s].attempt \in Nat
    BY <1>2, Facts DEF RowChance
  <2> QED
    BY <1>2, <1>3, <1>4, <1>5, <1>6, <1>8, <2>1 DEF Warranted
<1>10. /\ status'[e] = "delivered" => received'[e] > 0
       /\ status'[e] = "failed" => e \in dead' /\ tried'[e] >= MaxAttempts
  BY <1>2, <1>4, <1>6, Facts DEF PerEvent
<1>11. Affords(e, message[s], m) /\ (status'[e] = "pending" => status[e] = "pending")
  <2>1. /\ message[s] \in Content /\ message[s].attempt \in Nat /\ MaxAttempts \in Nat
        /\ message[s].attempt <= MaxAttempts
        /\ tried'[e] \in Nat /\ again'[e] \in Nat /\ tried[e] \in Nat /\ again[e] \in Nat
    BY <1>2, <1>4, Facts DEF RowTypes
  <2>2. Room(message[s]) = MaxAttempts - message[s].attempt + 1
    BY <1>1, <1>2, <2>1 DEF Room, Spent
  <2>3. Room(m) = MaxAttempts - message[s].attempt
    BY <1>3, <1>5, <2>1 DEF Room, Spent
  <2> QED
    BY <1>4, <1>5, <1>6, <2>1, <2>2, <2>3, Affordable
<1> QED
  BY <1>1, <1>2, <1>3, <1>4, <1>5, <1>6, <1>7, <1>9, <1>10, <1>11, SlotStep

LEMMA NoEndpointKeeps == ASSUME IInv, NEW s \in Slot, NoEndpoint(s) PROVE IInv'
<1>1. /\ message[s].at = "lookup" /\ message[s].at \in Carried
      /\ Move(s, "bury") /\ status[EventOf(s)] = "gone" /\ dead' = dead \cup {EventOf(s)}
      /\ UNCHANGED <<rowVars, relayVars, discarded, history, faults>>
  BY DEF NoEndpoint, Carried
<1>2. PICK e \in Event :
         /\ message[s].event = e /\ EventOf(s) = e /\ message[s] # Free
         /\ message[s].attempt \in 1..MaxAttempts
         /\ PerEvent(e) /\ message[s].attempt <= tried[e] + 1
  BY <1>1, InHand
<1>3. PICK m \in Message : /\ message' = [message EXCEPT ![s] = m]
                           /\ m.event = message[s].event
                           /\ m.attempt = message[s].attempt /\ m.at = "bury"
  BY <1>1, Facts, Moved DEF Carried
<1>4. /\ RowTypes' /\ e \in dead' /\ status'[e] = "gone" /\ status[e] = "gone"
      /\ \A f \in Event \ {e} : SameRow(f)
  BY <1>1, <1>2, Facts DEF RowTypes, rowVars, history, SameRow
<1>5. m \in Content /\ m # Free /\ m.event = e
  BY <1>2, <1>3, Contents DEF Content
<1>6. /\ received'[e] = received[e] /\ again'[e] = again[e] /\ tried'[e] = tried[e]
      /\ received[e] \in Nat /\ again[e] \in Nat /\ tried[e] \in Nat
  BY <1>1, Facts DEF history
<1>7. Forward(e)
  BY <1>4, <1>6 DEF Forward
<1>8. RowChance(e)' = RowChance(e) /\ Weight(m) = 1 /\ Weight(message[s]) = 1
  BY <1>1, <1>2, <1>3, <1>4, <1>5, <1>6 DEF RowChance, Weight, Bit
<1>9. /\ received'[e] + Weight(m) + RowChance(e)' + again[e]
            <= received[e] + Weight(message[s]) + RowChance(e) + again'[e]
      /\ Warranted(m)'
  <2>1. RowChance(e) \in {0, 1}
    BY DEF RowChance
  <2> QED
    BY <1>2, <1>3, <1>4, <1>5, <1>6, <1>8, <2>1 DEF Warranted
<1>10. Affords(e, message[s], m) /\ (status'[e] = "pending" => status[e] = "pending")
  <2>1. /\ message[s] \in Content /\ message[s].attempt \in Nat /\ MaxAttempts \in Nat
        /\ message[s].attempt <= MaxAttempts
        /\ tried'[e] \in Nat /\ again'[e] \in Nat /\ tried[e] \in Nat /\ again[e] \in Nat
    BY <1>2, <1>4, Facts DEF RowTypes
  <2>2. Room(message[s]) = MaxAttempts - message[s].attempt + 1
    BY <1>1, <1>2, <2>1 DEF Room, Spent
  <2>3. Room(m) = 0
    BY <1>3, <1>5, <2>1 DEF Room, Spent
  <2> QED
    BY <1>4, <1>5, <1>6, <2>1, <2>2, <2>3, Affordable
<1> QED
  BY <1>1, <1>2, <1>3, <1>4, <1>5, <1>7, <1>9, <1>10, SlotStep

LEMMA AcceptedKeeps == ASSUME IInv, NEW s \in Slot, Accepted(s) PROVE IInv'
<1>1. /\ message[s].at = "post" /\ message[s].at \in Carried
      /\ Move(s, "record") /\ received' = OneMore(received, {EventOf(s)})
      /\ UNCHANGED <<rowVars, relayVars, dead, discarded, tried, again, faults>>
  BY DEF Accepted, Carried
<1>2. PICK e \in Event :
         /\ message[s].event = e /\ EventOf(s) = e /\ message[s] # Free
         /\ message[s].attempt \in 1..MaxAttempts
         /\ status[e] # "absent" /\ PerEvent(e) /\ message[s].attempt <= tried[e]
  BY <1>1, InHand
<1>3. PICK m \in Message : /\ message' = [message EXCEPT ![s] = m]
                           /\ m.event = message[s].event
                           /\ m.attempt = message[s].attempt /\ m.at = "record"
  BY <1>1, Facts, Moved DEF Carried
<1>4. /\ received'[e] = received[e] + 1 /\ RowTypes' /\ received[e] \in Nat
      /\ \A f \in Event \ {e} : SameRow(f)
  <2>1. RowTypes /\ received \in [Event -> Nat]
    BY Facts DEF RowTypes
  <2>2. /\ received' \in [Event -> Nat] /\ received'[e] = received[e] + 1
        /\ \A f \in Event \ {e} : received'[f] = received[f]
    BY <1>1, <1>2, <2>1 DEF OneMore
  <2> QED
    BY <1>1, <2>1, <2>2 DEF RowTypes, rowVars, SameRow
<1>5. m \in Content /\ m # Free /\ m.event = e
  BY <1>2, <1>3, Contents DEF Content
<1>6. /\ status'[e] = status[e] /\ again'[e] = again[e] /\ tried'[e] = tried[e]
      /\ dead' = dead /\ again[e] \in Nat /\ tried[e] \in Nat
  BY <1>1, Facts DEF rowVars
<1>7. Forward(e)
  BY <1>4, <1>6 DEF Forward
<1>8. RowChance(e)' = RowChance(e) /\ Weight(m) = 0 /\ Weight(message[s]) = 1
  BY <1>1, <1>2, <1>3, <1>5, <1>6 DEF RowChance, Weight, Bit
<1>9. /\ received'[e] + Weight(m) + RowChance(e)' + again[e]
            <= received[e] + Weight(message[s]) + RowChance(e) + again'[e]
      /\ Warranted(m)'
  <2>1. RowChance(e) \in {0, 1} /\ message[s].attempt \in Nat
    BY <1>2 DEF RowChance
  <2> QED
    BY <1>2, <1>3, <1>4, <1>5, <1>6, <1>8, <2>1 DEF Warranted
<1>10. /\ status'[e] = "delivered" => received'[e] > 0
       /\ status'[e] = "failed" => e \in dead' /\ tried'[e] >= MaxAttempts
  BY <1>2, <1>4, <1>6, Facts DEF PerEvent
<1>11. Affords(e, message[s], m) /\ (status'[e] = "pending" => status[e] = "pending")
  <2>1. /\ message[s] \in Content /\ message[s].attempt \in Nat /\ MaxAttempts \in Nat
        /\ message[s].attempt <= MaxAttempts
        /\ tried'[e] \in Nat /\ again'[e] \in Nat /\ tried[e] \in Nat /\ again[e] \in Nat
    BY <1>2, <1>4, Facts DEF RowTypes
  <2>2. Room(message[s]) = MaxAttempts - message[s].attempt
    BY <1>1, <1>2, <2>1 DEF Room, Spent
  <2>3. Room(m) = 0
    BY <1>3, <1>5, <2>1 DEF Room, Spent
  <2> QED
    BY <1>4, <1>5, <1>6, <2>1, <2>2, <2>3, Affordable
<1> QED
  BY <1>1, <1>2, <1>3, <1>4, <1>5, <1>6, <1>7, <1>9, <1>10, <1>11, SlotStep

(* A refusal, an answer that is not heard, and an acceptance that is not   *)
(* recorded: the last two are a reason to send the event again.            *)
LEMMA CaughtKeeps ==
    ASSUME IInv, NEW s \in Slot, Refused(s) \/ Unheard(s) \/ MarkDeliveredFails(s)
    PROVE  IInv'
<1>1. /\ message[s].at \in {"post", "record"} /\ message[s].at \in Carried
      /\ Caught(s) /\ UNCHANGED <<relayVars, discarded, tried>> /\ faults' \in 0..MaxFaults
  <2>1. faults' = faults \/ (faults < MaxFaults /\ faults' = faults + 1)
    BY DEF Refused, Unheard, MarkDeliveredFails, Budget
  <2>2. faults \in 0..MaxFaults /\ MaxFaults \in Nat
    BY Facts, RelayAssumption DEF RowTypes
  <2> QED
    BY <2>1, <2>2 DEF Refused, Unheard, MarkDeliveredFails, Carried, history
<1>2. PICK e \in Event :
         /\ message[s].event = e /\ EventOf(s) = e /\ message[s] # Free
         /\ message[s].attempt \in 1..MaxAttempts
         /\ status[e] # "absent" /\ PerEvent(e) /\ message[s].attempt <= tried[e]
         /\ message[s].at = "record" => received[e] > 0
  BY <1>1, InHand
<1>3. PICK m \in Message :
         /\ message' = [message EXCEPT ![s] = m]
         /\ m.event = message[s].event
         /\ \/ /\ m.at = "bury" /\ dead' = dead \cup {EventOf(s)}
               /\ m.attempt = message[s].attempt /\ m.attempt >= MaxAttempts
            \/ /\ m.at = "retry" /\ dead' = dead
               /\ m.attempt = message[s].attempt + 1
  BY <1>1, Facts, CaughtTo
<1>4. RowTypes /\ received[e] \in Nat /\ again[e] \in Nat /\ tried[e] \in Nat
      /\ MaxAttempts \in Nat
  BY Facts
<1>5. /\ received' \in [Event -> Nat] /\ again' \in [Event -> Nat]
      /\ \A f \in Event \ {e} : received'[f] = received[f] /\ again'[f] = again[f]
      /\ \/ message[s].at = "post" /\ received'[e] = received[e] /\ again'[e] = again[e]
         \/ message[s].at = "post" /\ received'[e] = received[e] + 1 /\ again'[e] = again[e] + 1
         \/ message[s].at = "record" /\ received'[e] = received[e] /\ again'[e] = again[e] + 1
  BY <1>2, <1>4 DEF Refused, Unheard, MarkDeliveredFails, OneMore, RowTypes, history
<1>6. /\ status' \in [Event -> Status]
      /\ stale' \subseteq {f \in Event : status'[f] = "publishing"}
      /\ \A f \in Event \ {e} : status'[f] = status[f]
      /\ \/ status'[e] = status[e]
         \/ status'[e] = "delivered" /\ status[e] # "gone" /\ message[s].at = "record"
  <2>1. CASE UNCHANGED rowVars
    BY <1>4, <2>1 DEF RowTypes, rowVars, Status
  <2>2. CASE Update({EventOf(s)}, "delivered") /\ message[s].at = "record"
    <3>1. Update({e}, "delivered") /\ "delivered" \in Status
      BY <1>2, <2>2 DEF Status
    <3>2. /\ status' \in [Event -> Status]
          /\ stale' \subseteq {f \in Event : status'[f] = "publishing"}
          /\ \A f \in Event : /\ f \in {e} /\ status[f] # "gone" => status'[f] = "delivered"
                              /\ f \notin {e} \/ status[f] = "gone" => status'[f] = status[f]
      BY <1>4, <3>1, Updated
    <3> QED
      BY <2>2, <3>2
  <2> QED
    BY <2>1, <2>2 DEF Refused, Unheard, MarkDeliveredFails
<1>7. m \in Content /\ m # Free /\ m.event = e
  BY <1>2, <1>3, Contents DEF Content
<1>8. /\ RowTypes' /\ tried'[e] = tried[e]
      /\ e \in dead => e \in dead'
      /\ \A f \in Event \ {e} : SameRow(f)
  <2>1. dead' \subseteq Event /\ \A f \in Event \ {e} : f \in dead' <=> f \in dead
    BY <1>2, <1>3, <1>4 DEF RowTypes
  <2> QED
    BY <1>1, <1>3, <1>4, <1>5, <1>6, <2>1 DEF RowTypes, SameRow, Status
<1>9. Forward(e)
  BY <1>4, <1>5, <1>6, <1>8 DEF Forward
<1>10. received'[e] + Weight(m) + RowChance(e)' + again[e]
            <= received[e] + Weight(message[s]) + RowChance(e) + again'[e]
  <2>1. /\ RowChance(e) \in {0, 1} /\ RowChance(e)' \in {0, 1} /\ RowChance(e)' <= RowChance(e)
    BY <1>6 DEF RowChance
  <2>2. Weight(m) = 1
    BY <1>3, <1>7 DEF Weight, Bit
  <2>3. /\ message[s].at = "post" => Weight(message[s]) = 1
        /\ message[s].at = "record" => Weight(message[s]) = 0
    BY <1>2 DEF Weight, Bit
  <2>4. CASE message[s].at = "post"
    BY <1>4, <1>5, <2>1, <2>2, <2>3, <2>4
  <2>5. CASE message[s].at = "record"
    BY <1>4, <1>5, <2>1, <2>2, <2>3, <2>5
  <2> QED
    BY <1>1, <2>4, <2>5
<1>11. Warranted(m)'
  <2>1. status'[e] # "absent" /\ message[s].attempt \in Nat
    BY <1>2, <1>6
  <2>2. /\ m.attempt <= tried'[e] + 1
        /\ m.at = "bury" => e \in dead' /\ tried'[e] >= MaxAttempts
        /\ m.at \notin {"post", "record"}
    <3>1. CASE m.at = "bury"
      BY <1>2, <1>3, <1>4, <1>8, <2>1, <3>1
    <3>2. CASE m.at = "retry"
      BY <1>2, <1>3, <1>4, <1>8, <2>1, <3>2
    <3> QED
      BY <1>3, <3>1, <3>2
  <2> QED
    BY <1>7, <2>1, <2>2 DEF Warranted
<1>12. /\ status'[e] = "delivered" => received'[e] > 0
       /\ status'[e] = "failed" => e \in dead' /\ tried'[e] >= MaxAttempts
       /\ status'[e] # "absent"
  BY <1>2, <1>4, <1>5, <1>6, <1>8 DEF PerEvent
<1>13. Affords(e, message[s], m) /\ (status'[e] = "pending" => status[e] = "pending")
  <2>1. /\ message[s] \in Content /\ message[s].attempt \in Nat
        /\ message[s].attempt <= MaxAttempts
        /\ tried'[e] \in Nat /\ again'[e] \in Nat
    BY <1>2, <1>4, <1>8, Facts DEF RowTypes
  <2>2. CASE again'[e] = again[e] + 1
    BY <1>4, <1>6, <1>7, <1>8, <2>1, <2>2, Affordable
  <2>3. CASE message[s].at = "post" /\ again'[e] = again[e]
    <3>1. Room(message[s]) = MaxAttempts - message[s].attempt
      BY <1>2, <2>3 DEF Room, Spent
    <3>2. Room(m) <= MaxAttempts - message[s].attempt /\ Room(m) \in Nat
      <4>1. CASE m.at = "bury"
        <5>1. Room(m) = 0
          BY <1>4, <1>7, <4>1 DEF Room, Spent
        <5> QED
          BY <1>4, <2>1, <5>1
      <4>2. CASE m.at = "retry"
        <5>1. m.attempt = message[s].attempt + 1
          BY <1>3, <4>2
        <5>2. Room(m) = MaxAttempts - (m.attempt - 1)
          BY <1>7, <4>2 DEF Room, Spent
        <5> QED
          BY <1>4, <2>1, <5>1, <5>2
      <4> QED
        BY <1>3, <4>1, <4>2
    <3> QED
      BY <1>4, <1>6, <1>7, <1>8, <2>1, <2>3, <3>1, <3>2, Affordable
  <2> QED
    BY <1>5, <1>6, <2>2, <2>3
<1> QED
  BY <1>1, <1>2, <1>3, <1>7, <1>8, <1>9, <1>10, <1>11, <1>12, <1>13, SlotStep

(* A message that leaves the broker, because its row says what became of   *)
(* the event or because a statement failed.                                *)
LEMMA GoneKeeps ==
    ASSUME IInv, NEW s \in Slot, MarkDelivered(s) \/ MarkFailed(s) \/ Discard(s)
    PROVE  IInv'
<1>1. /\ message[s].at \in Carried /\ message' = [message EXCEPT ![s] = Free]
      /\ UNCHANGED <<relayVars, dead, received, tried, again>> /\ faults' \in 0..MaxFaults
  <2>1. faults' = faults \/ (faults < MaxFaults /\ faults' = faults + 1)
    BY DEF MarkDelivered, MarkFailed, Discard, Budget
  <2>2. faults \in 0..MaxFaults /\ MaxFaults \in Nat
    BY Facts, RelayAssumption DEF RowTypes
  <2> QED
    BY <2>1, <2>2 DEF MarkDelivered, MarkFailed, Discard, Carried, history, Ack
<1>2. PICK e \in Event :
         /\ message[s].event = e /\ EventOf(s) = e /\ message[s] # Free
         /\ status[e] # "absent" /\ PerEvent(e)
         /\ message[s].at = "record" => received[e] > 0
         /\ message[s].at = "bury" => e \in dead /\ (status[e] = "gone" \/ tried[e] >= MaxAttempts)
  BY <1>1, InHand
<1>3. RowTypes /\ received[e] \in Nat /\ again[e] \in Nat /\ tried[e] \in Nat
      /\ MaxAttempts \in Nat
  BY Facts
<1>4. /\ status' \in [Event -> Status]
      /\ stale' \subseteq {f \in Event : status'[f] = "publishing"}
      /\ \A f \in Event \ {e} : status'[f] = status[f] /\ (f \in discarded' <=> f \in discarded)
      /\ discarded' \subseteq Event
      /\ \/ /\ status'[e] = status[e] /\ e \in discarded' /\ message[s].at # "record"
         \/ /\ status'[e] = status[e] /\ status[e] = "gone"
            /\ \/ message[s].at = "record" /\ received[e] > 0
               \/ message[s].at = "bury" /\ e \in dead
         \/ /\ status'[e] = "delivered" /\ message[s].at = "record" /\ status[e] # "gone"
         \/ /\ status'[e] = "failed" /\ message[s].at = "bury" /\ status[e] # "gone"
  <2>1. CASE Discard(s)
    BY <1>2, <1>3, <2>1 DEF Discard, RowTypes, rowVars, Status
  <2>2. ASSUME NEW new \in {"delivered", "failed"}, Update({e}, new)
        PROVE  /\ status' \in [Event -> Status]
               /\ stale' \subseteq {f \in Event : status'[f] = "publishing"}
               /\ \A f \in Event \ {e} : status'[f] = status[f]
               /\ \/ status'[e] = status[e] /\ status[e] = "gone"
                  \/ status'[e] = new /\ status[e] # "gone"
    <3>1. new \in Status
      BY DEF Status
    <3>2. /\ status' \in [Event -> Status]
          /\ stale' \subseteq {f \in Event : status'[f] = "publishing"}
          /\ \A f \in Event : /\ f \in {e} /\ status[f] # "gone" => status'[f] = new
                              /\ f \notin {e} \/ status[f] = "gone" => status'[f] = status[f]
      BY <1>3, <2>2, <3>1, Updated
    <3> QED
      BY <3>2
  <2>3. CASE MarkDelivered(s)
    <3>1. Update({e}, "delivered") /\ message[s].at = "record" /\ discarded' = discarded
      BY <1>2, <2>3 DEF MarkDelivered
    <3> QED
      BY <1>2, <1>3, <2>2, <3>1 DEF RowTypes
  <2>4. CASE MarkFailed(s)
    <3>1. Update({e}, "failed") /\ message[s].at = "bury" /\ discarded' = discarded
      BY <1>2, <2>4 DEF MarkFailed
    <3> QED
      BY <1>2, <1>3, <2>2, <3>1 DEF RowTypes
  <2> QED
    BY <2>1, <2>3, <2>4
<1>5. /\ RowTypes' /\ tried'[e] = tried[e] /\ received'[e] = received[e] /\ again'[e] = again[e]
      /\ \A f \in Event \ {e} : SameRow(f)
  BY <1>1, <1>3, <1>4 DEF RowTypes, SameRow, Status
<1>6. Forward(e)
  BY <1>1, <1>3, <1>4, <1>5 DEF Forward
<1>7. Free \in Content /\ Free.event = "none" /\ Warranted(Free)'
  BY DEF Content, Free, Warranted
<1>8. received'[e] + Weight(Free) + RowChance(e)' + again[e]
            <= received[e] + Weight(message[s]) + RowChance(e) + again'[e]
  <2>1. RowChance(e) \in {0, 1} /\ RowChance(e)' \in {0, 1} /\ Weight(Free) = 0
    BY DEF RowChance, Weight, Bit
  <2>2. CASE message[s].at = "record"
    <3>1. Weight(message[s]) = 0 /\ RowChance(e)' = 0
      BY <1>2, <1>4, <2>2 DEF Weight, Bit, RowChance
    <3> QED
      BY <1>3, <1>5, <2>1, <3>1
  <2>3. CASE message[s].at # "record"
    <3>1. Weight(message[s]) = 1
      BY <1>2, <2>3 DEF Weight, Bit
    <3> QED
      BY <1>3, <1>5, <2>1, <3>1
  <2> QED
    BY <2>2, <2>3
<1>9. /\ status'[e] = "delivered" => received'[e] > 0
      /\ status'[e] = "failed" => e \in dead' /\ tried'[e] >= MaxAttempts
      /\ status'[e] # "absent"
      /\ received'[e] > 0 \/ e \in dead' \/ e \in discarded'
  BY <1>1, <1>2, <1>3, <1>4, <1>5 DEF PerEvent
<1>10. Affords(e, message[s], Free) /\ (status'[e] = "pending" => status[e] = "pending")
  <2>1. message[s] \in Content /\ Room(message[s]) \in 0..MaxAttempts
    BY Facts, RoomsCount
  <2>2. Room(Free) = 0 /\ tried'[e] + 0 <= tried[e] + Room(message[s]) /\ again'[e] >= again[e]
        /\ tried'[e] \in Nat /\ again'[e] \in Nat
    BY <1>3, <1>5, <2>1 DEF Room
  <2> QED
    BY <1>4, <1>7, <2>1, <2>2, Affordable
<1> QED
  BY <1>1, <1>2, <1>5, <1>6, <1>7, <1>8, <1>9, <1>10, SlotStep

LEMMA ConsumerKeeps == ASSUME IInv, NEW s \in Slot, ConsumerStep(s) PROVE IInv'
  BY PostKeeps, NoEndpointKeeps, CaughtKeeps, AcceptedKeeps, GoneKeeps DEF ConsumerStep

----------------------------------------------------------------------------
(* A step of one relay, on its own state and on rows: what it takes from   *)
(* an event's chances it gives to the row or to its batch, or it has a     *)
(* reason.                                                                 *)
OnlyRelay(w) ==
    /\ UNCHANGED <<message, dead, discarded, received, tried>>
    /\ \A v \in Worker \ {w} : /\ relay'[v] = relay[v]
                               /\ batch'[v] = batch[v] /\ unsent'[v] = unsent[v]

(* One relay's unsent copies change the count by its own.                  *)
LEMMA UnsentCount ==
    ASSUME NEW w \in Worker, NEW e \in Event, \A v \in Worker \ {w} : unsent'[v] = unsent[v]
    PROVE  /\ Cardinality(Unsent(e)') =
                 Cardinality(Unsent(e)) - Bit(e \in unsent[w]) + Bit(e \in unsent'[w])
           /\ Cardinality(Unsent(e)') \in Nat
<1> DEFINE S == Unsent(e)
           T == Unsent(e)'
<1>1. /\ S \in SUBSET Worker /\ T \in SUBSET Worker /\ S \ {w} = T \ {w}
      /\ w \in S <=> e \in unsent[w]
      /\ w \in T <=> e \in unsent'[w]
  BY DEF Unsent
<1>2. IsFiniteSet(S) /\ IsFiniteSet(T)
  <2> HIDE DEF S, T
  <2> QED
    BY <1>1, FS_Subset, RelayAssumption
<1>3. Cardinality(T) = Cardinality(S) - Bit(w \in S) + Bit(w \in T) /\ Cardinality(T) \in Nat
  <2> HIDE DEF S, T
  <2> QED
    BY <1>1, <1>2, OneElement
<1>4. Bit(w \in S) = Bit(e \in unsent[w]) /\ Bit(w \in T) = Bit(e \in unsent'[w])
  BY <1>1 DEF Bit
<1> QED
  BY <1>3, <1>4

(* A step of one relay's row statements keeps the invariant if no row is   *)
(* called published that is not in good hands, and no chance comes from    *)
(* nowhere.                                                                *)
LEMMA RelayFrame ==
    ASSUME IInv, NEW w \in Worker, RowTypes', RelayTypes', OnlyRelay(w), PerWorker(w)',
           \A e \in Event :
              /\ status[e] = "gone" => status'[e] = "gone"
              /\ \/ status'[e] = status[e]
                 \/ status'[e] \in {"pending", "publishing", "published"}
              /\ status'[e] = "published" => Handled(e)
              /\ Bit(e \in unsent'[w]) + RowChance(e)' + again[e]
                    <= Bit(e \in unsent[w]) + RowChance(e) + again'[e]
              /\ Bit(e \in unsent'[w]) + Bit(status'[e] = "pending") + again[e]
                    <= Bit(e \in unsent[w]) + Bit(status[e] = "pending") + again'[e]
    PROVE  IInv'
<1>1. \A e \in Event : /\ SameMessages(e) /\ Live(e)' = Live(e) /\ Left(e)' = Left(e)
                       /\ InBroker(e)' <=> InBroker(e)
  BY SameMessagesCount DEF SameMessages, OnlyRelay
<1>2. \A e \in Event : Forward(e)
  BY Facts DEF Forward, OnlyRelay
<1>3. \A e \in Event : Handled(e)' <=> Handled(e)
  BY <1>1 DEF Handled, OnlyRelay
<1>4. ASSUME NEW e \in Event PROVE PerEvent(e)'
  <2>1. PerEvent(e) /\ received[e] \in Nat /\ again[e] \in Nat /\ again'[e] \in Nat
    BY <1>4, Facts DEF RowTypes
  <2>2. /\ Cardinality(Unsent(e)') =
              Cardinality(Unsent(e)) - Bit(e \in unsent[w]) + Bit(e \in unsent'[w])
        /\ Cardinality(Unsent(e)') \in Nat
    BY UnsentCount DEF OnlyRelay
  <2>3. /\ Cardinality(Live(e)) \in Nat /\ Cardinality(Unsent(e)) \in Nat
        /\ RowChance(e) \in {0, 1} /\ RowChance(e)' \in {0, 1}
        /\ Bit(e \in unsent[w]) \in {0, 1} /\ Bit(e \in unsent'[w]) \in {0, 1}
    BY Numbers DEF RowChance, Bit
  <2>4. received[e] + Cardinality(Live(e)) + Cardinality(Unsent(e)) + RowChance(e) <= 1 + again[e]
    BY <2>1 DEF PerEvent, Counted
  <2>5. Bit(e \in unsent'[w]) + RowChance(e)' + again[e]
            <= Bit(e \in unsent[w]) + RowChance(e) + again'[e]
    OBVIOUS
  <2>6. received[e] + Cardinality(Live(e)) + Cardinality(Unsent(e)') + RowChance(e)'
            <= 1 + again'[e]
    <3> DEFINE c == Cardinality(Unsent(e)') 
               l == Cardinality(Live(e))
               u == Cardinality(Unsent(e))
               r == RowChance(e)
               q == RowChance(e)'
               b == Bit(e \in unsent[w])
               d == Bit(e \in unsent'[w])
    <3> HIDE DEF c, l, u, r, q, b, d
    <3>1. /\ c = u - b + d /\ c \in Nat /\ l \in Nat /\ u \in Nat
          /\ r \in {0, 1} /\ q \in {0, 1} /\ b \in {0, 1} /\ d \in {0, 1}
          /\ received[e] + l + u + r <= 1 + again[e]
          /\ d + q + again[e] <= b + r + again'[e]
      BY <2>2, <2>3, <2>4, <2>5 DEF c, l, u, r, q, b, d
    <3>2. received[e] + l + c + q <= 1 + again'[e]
      BY <2>1, <3>1
    <3> QED
      BY <3>2 DEF c, l, q
  <2>7. Counted(e)'
    BY <1>1, <2>6 DEF Counted, OnlyRelay
  <2>8. Limited(e)'
    <3>1. /\ tried'[e] = tried[e] /\ tried[e] \in Nat /\ Cardinality(Left(e)) \in Nat
          /\ MaxAttempts * 0 = 0
      BY <1>4, Facts, Numbers DEF OnlyRelay
    <3>2. /\ Bit(status'[e] = "pending") \in {0, 1} /\ Bit(status[e] = "pending") \in {0, 1}
          /\ Bit(e \in unsent'[w]) + Bit(status'[e] = "pending") + again[e]
               <= Bit(e \in unsent[w]) + Bit(status[e] = "pending") + again'[e]
      BY DEF Bit
    <3>3. Cardinality(Unsent(e)') + Bit(status'[e] = "pending") + 0 + again[e]
             <= Cardinality(Unsent(e)) + Bit(status[e] = "pending") + again'[e]
      BY <2>1, <2>2, <2>3, <3>2
    <3>4. tried'[e] + Cardinality(Left(e)') <= tried[e] + Cardinality(Left(e)) + MaxAttempts * 0
      BY <1>1, <3>1
    <3> QED
      BY <1>1, <2>2, <3>1, <3>3, <3>4, LimitedStays
  <2> QED
    BY <1>3, <2>1, <2>7, <2>8 DEF PerEvent, OnlyRelay
<1>5. \A t \in Slot : Warranted(message[t])'
  <2> SUFFICES ASSUME NEW t \in Slot PROVE Warranted(message[t])'
    OBVIOUS
  <2>1. PICK n \in Content : n = message[t] /\ n = message'[t]
    BY Facts DEF OnlyRelay
  <2>2. Warranted(n) /\ (n # Free => Forward(n.event))
    BY <1>2, <2>1, Facts, Contents
  <2>3. Warranted(n)'
    BY <2>2, WarrantedStays
  <2> QED
    BY <2>1, <2>3 DEF Warranted
<1>6. \A v \in Worker : PerWorker(v)'
  <2>1. \A v \in Worker : batch[v] \subseteq Event
    BY Facts DEF RelayTypes
  <2> QED
    BY <1>2, <1>3, <2>1, Facts, WorkerStays DEF OnlyRelay
<1>7. message' \in [Slot -> Content]
  BY Facts DEF OnlyRelay
<1> QED
  BY <1>4, <1>5, <1>6, <1>7 DEF IInv

LEMMA ReapKeeps == ASSUME IInv, NEW w \in Worker, Reap(w) PROVE IInv'
<1>1. PICK S \in SUBSET Event :
         /\ \A e \in S : status[e] = "publishing"
         /\ relay[w] = "sleep" /\ relay' = [relay EXCEPT ![w] = "claim"]
         /\ Update(S, "pending") /\ again' = OneMore(again, S)
         /\ UNCHANGED <<batch, unsent, brokerVars, received, tried, faults>>
  <2>1. {e \in stale : status[e] = "publishing"} \in SUBSET Event
    BY Facts DEF RowTypes
  <2> QED
    BY <2>1 DEF Reap, Goto
<1>2. RowTypes /\ RelayTypes /\ PerWorker(w)
  BY Facts
<1>3. /\ status' \in [Event -> Status]
      /\ stale' \subseteq {e \in Event : status'[e] = "publishing"}
      /\ \A e \in Event : /\ e \in S /\ status[e] # "gone" => status'[e] = "pending"
                          /\ e \notin S \/ status[e] = "gone" => status'[e] = status[e]
  <2>1. "pending" \in Status
    BY DEF Status
  <2> QED
    BY <1>1, <1>2, <2>1, Updated
<1>4. /\ again' \in [Event -> Nat]
      /\ \A e \in Event : again'[e] = IF e \in S THEN again[e] + 1 ELSE again[e]
  BY <1>1, <1>2 DEF OneMore, RowTypes
<1>5. RowTypes' /\ RelayTypes' /\ OnlyRelay(w)
  BY <1>1, <1>2, <1>3, <1>4 DEF RowTypes, RelayTypes, OnlyRelay, brokerVars, Status
<1>6. PerWorker(w)'
  BY <1>1, <1>2 DEF PerWorker, RelayTypes
<1>7. ASSUME NEW e \in Event
      PROVE  /\ status[e] = "gone" => status'[e] = "gone"
             /\ \/ status'[e] = status[e]
                \/ status'[e] \in {"pending", "publishing", "published"}
             /\ status'[e] = "published" => Handled(e)
             /\ Bit(e \in unsent'[w]) + RowChance(e)' + again[e]
                   <= Bit(e \in unsent[w]) + RowChance(e) + again'[e]
             /\ Bit(e \in unsent'[w]) + Bit(status'[e] = "pending") + again[e]
                   <= Bit(e \in unsent[w]) + Bit(status[e] = "pending") + again'[e]
  <2>1. /\ Bit(e \in unsent'[w]) = Bit(e \in unsent[w]) /\ Bit(e \in unsent[w]) \in {0, 1}
        /\ RowChance(e)' \in {0, 1} /\ RowChance(e) \in {0, 1} /\ again[e] \in Nat
    BY <1>1, Facts DEF Bit, RowChance
  <2>2. /\ e \in S => again'[e] = again[e] + 1 /\ status'[e] = "pending"
        /\ e \notin S => /\ again'[e] = again[e] /\ status'[e] = status[e]
                         /\ RowChance(e)' = RowChance(e)
    BY <1>1, <1>3, <1>4 DEF RowChance
  <2>3. PerEvent(e)
    BY Facts
  <2>4. Bit(e \in unsent'[w]) + RowChance(e)' + again[e]
                   <= Bit(e \in unsent[w]) + RowChance(e) + again'[e]
    BY <2>1, <2>2
  <2>5. Bit(e \in unsent'[w]) + Bit(status'[e] = "pending") + again[e]
                   <= Bit(e \in unsent[w]) + Bit(status[e] = "pending") + again'[e]
    BY <2>1, <2>2 DEF Bit
  <2> QED
    BY <1>1, <2>2, <2>3, <2>4, <2>5 DEF PerEvent
<1> QED
  BY <1>5, <1>6, <1>7, RelayFrame

LEMMA ClaimKeeps == ASSUME IInv, NEW w \in Worker, Claim(w) PROVE IInv'
<1>1. PICK S \in SUBSET {e \in Event : status[e] \in {"pending"}} :
         /\ relay[w] = "claim"
         /\ batch' = [batch EXCEPT ![w] = S]
         /\ unsent' = [unsent EXCEPT ![w] = S]
         /\ Update(S, "publishing")
         /\ relay' = [relay EXCEPT ![w] = IF S = {} THEN "sleep" ELSE "publish"]
         /\ UNCHANGED <<brokerVars, history, faults>>
  BY DEF Claim, ClaimFrom, Goto
<1>2. RowTypes /\ RelayTypes /\ PerWorker(w) /\ unsent[w] = {}
  BY <1>1, Facts DEF PerWorker, RelayTypes
<1>3. /\ status' \in [Event -> Status]
      /\ stale' \subseteq {e \in Event : status'[e] = "publishing"}
      /\ \A e \in Event : /\ e \in S /\ status[e] # "gone" => status'[e] = "publishing"
                          /\ e \notin S \/ status[e] = "gone" => status'[e] = status[e]
  <2>1. "publishing" \in Status
    BY DEF Status
  <2> QED
    BY <1>1, <1>2, <2>1, Updated
<1>4. /\ relay'[w] = (IF S = {} THEN "sleep" ELSE "publish")
      /\ batch'[w] = S /\ unsent'[w] = S
  BY <1>1, <1>2 DEF RelayTypes
<1>5. RowTypes' /\ OnlyRelay(w)
  BY <1>1, <1>2, <1>3 DEF RowTypes, OnlyRelay, brokerVars, history, Status
<1>6. RelayTypes'
  BY <1>1, <1>2 DEF RelayTypes
<1>7. PerWorker(w)'
  BY <1>1, <1>3, <1>4 DEF PerWorker
<1>8. ASSUME NEW e \in Event
      PROVE  /\ status[e] = "gone" => status'[e] = "gone"
             /\ \/ status'[e] = status[e]
                \/ status'[e] \in {"pending", "publishing", "published"}
             /\ status'[e] = "published" => Handled(e)
             /\ Bit(e \in unsent'[w]) + RowChance(e)' + again[e]
                   <= Bit(e \in unsent[w]) + RowChance(e) + again'[e]
             /\ Bit(e \in unsent'[w]) + Bit(status'[e] = "pending") + again[e]
                   <= Bit(e \in unsent[w]) + Bit(status[e] = "pending") + again'[e]
  <2>1. PerEvent(e) /\ again'[e] = again[e] /\ again[e] \in Nat /\ e \notin unsent[w]
    BY <1>1, <1>2, Facts DEF history
  <2>2. CASE e \in S
    <3>1. /\ status[e] = "pending" /\ status'[e] = "publishing" /\ e \in unsent'[w]
          /\ Bit(e \in unsent'[w]) = 1 /\ Bit(e \in unsent[w]) = 0
          /\ RowChance(e) = 1 /\ RowChance(e)' = 0
          /\ Bit(status[e] = "pending") = 1 /\ Bit(status'[e] = "pending") = 0
      BY <1>1, <1>3, <1>4, <2>1, <2>2 DEF Bit, RowChance
    <3> QED
      BY <2>1, <3>1
  <2>3. CASE e \notin S
    <3>1. status'[e] = status[e] /\ Bit(e \in unsent'[w]) = 0 /\ Bit(e \in unsent[w]) = 0
      BY <1>3, <1>4, <2>1, <2>3 DEF Bit
    <3>2. /\ RowChance(e)' = RowChance(e) /\ RowChance(e) \in {0, 1}
          /\ Bit(status'[e] = "pending") = Bit(status[e] = "pending")
          /\ Bit(status[e] = "pending") \in {0, 1}
      BY <3>1 DEF RowChance, Bit
    <3> QED
      BY <2>1, <3>1, <3>2 DEF PerEvent
  <2> QED
    BY <2>2, <2>3
<1> QED
  BY <1>5, <1>6, <1>7, <1>8, RelayFrame

LEMMA Rested ==
    ASSUME RelayTypes, NEW w \in Worker, Rest(w)
    PROVE  /\ RelayTypes' /\ relay'[w] = "sleep" /\ batch'[w] = {} /\ unsent'[w] = {}
           /\ \A v \in Worker \ {w} : /\ relay'[v] = relay[v]
                                      /\ batch'[v] = batch[v] /\ unsent'[v] = unsent[v]
<1>1. /\ relay' = [relay EXCEPT ![w] = "sleep"]
      /\ batch' = [batch EXCEPT ![w] = {}] /\ unsent' = [unsent EXCEPT ![w] = {}]
  BY DEF Rest, Goto
<1>2. /\ relay' \in [Worker -> {"sleep", "claim", "publish", "mark", "reset"}]
      /\ relay'[w] = "sleep" /\ \A v \in Worker \ {w} : relay'[v] = relay[v]
  BY <1>1 DEF RelayTypes
<1>3. /\ batch' \in [Worker -> SUBSET Event] /\ batch'[w] = {}
      /\ \A v \in Worker \ {w} : batch'[v] = batch[v]
  BY <1>1 DEF RelayTypes
<1>4. /\ unsent' \in [Worker -> SUBSET Event] /\ unsent'[w] = {}
      /\ \A v \in Worker \ {w} : unsent'[v] = unsent[v]
  BY <1>1 DEF RelayTypes
<1>5. \A v \in Worker : unsent'[v] \subseteq batch'[v]
  BY <1>3, <1>4 DEF RelayTypes
<1> QED
  BY <1>2, <1>3, <1>4, <1>5 DEF RelayTypes

(* A relay that only goes on, or gives up its batch. *)
LEMMA TurnKeeps ==
    ASSUME IInv, NEW w \in Worker, Confirm(w) \/ ConfirmLost(w) \/ RelayDbError(w)
    PROVE  IInv'
<1>1. UNCHANGED <<rowVars, brokerVars, history>> /\ faults' \in 0..MaxFaults
  <2>1. faults' = faults \/ (faults < MaxFaults /\ faults' = faults + 1)
    BY DEF Confirm, ConfirmLost, RelayDbError, Budget
  <2>2. faults \in 0..MaxFaults /\ MaxFaults \in Nat
    BY Facts, RelayAssumption DEF RowTypes
  <2> QED
    BY <2>1, <2>2 DEF Confirm, ConfirmLost, RelayDbError
<1>2. RowTypes /\ RelayTypes /\ PerWorker(w)
  BY Facts
<1>3. RowTypes'
  BY <1>1, <1>2 DEF RowTypes, rowVars, brokerVars, history
<1>4. /\ RelayTypes' /\ unsent'[w] \subseteq unsent[w]
      /\ \A v \in Worker \ {w} : /\ relay'[v] = relay[v]
                                 /\ batch'[v] = batch[v] /\ unsent'[v] = unsent[v]
      /\ \/ relay'[w] = "sleep" /\ batch'[w] = {} /\ unsent'[w] = {}
         \/ /\ relay'[w] \in {"mark", "reset"} /\ batch'[w] = batch[w] /\ unsent'[w] = unsent[w]
            /\ relay'[w] = "mark" => unsent[w] = {}
  <2>1. CASE Rest(w)
    BY <1>2, <2>1, Rested
  <2>2. CASE \E label \in {"mark", "reset"} :
               /\ Goto(w, label) /\ UNCHANGED <<batch, unsent>>
               /\ label = "mark" => unsent[w] = {}
    BY <1>2, <2>2 DEF Goto, RelayTypes
  <2> QED
    BY <2>1, <2>2 DEF Confirm, ConfirmLost, RelayDbError
<1>5. OnlyRelay(w)
  BY <1>1, <1>4 DEF OnlyRelay, brokerVars, history
<1>6. PerWorker(w)'
  <2>1. \A e \in Event : Handled(e)' <=> Handled(e)
    BY <1>1 DEF Handled, InBroker, EventOf, brokerVars, history
  <2>2. batch[w] \subseteq Event /\ status' = status
    BY <1>1, <1>2 DEF RelayTypes, rowVars
  <2> QED
    BY <1>2, <1>4, <2>1, <2>2 DEF PerWorker
<1>7. ASSUME NEW e \in Event
      PROVE  /\ status'[e] = status[e] /\ (status'[e] = "published" => Handled(e))
             /\ Bit(e \in unsent'[w]) + RowChance(e)' + again[e]
                   <= Bit(e \in unsent[w]) + RowChance(e) + again'[e]
             /\ Bit(e \in unsent'[w]) + Bit(status'[e] = "pending") + again[e]
                   <= Bit(e \in unsent[w]) + Bit(status[e] = "pending") + again'[e]
  <2>1. /\ status'[e] = status[e] /\ again'[e] = again[e] /\ again[e] \in Nat /\ PerEvent(e)
        /\ RowChance(e)' = RowChance(e) /\ RowChance(e) \in {0, 1}
        /\ Bit(status'[e] = "pending") = Bit(status[e] = "pending")
        /\ Bit(status[e] = "pending") \in {0, 1}
    BY <1>1, Facts DEF rowVars, history, RowChance, Bit
  <2>2. /\ Bit(e \in unsent'[w]) <= Bit(e \in unsent[w])
        /\ Bit(e \in unsent'[w]) \in {0, 1} /\ Bit(e \in unsent[w]) \in {0, 1}
    BY <1>4 DEF Bit
  <2> QED
    BY <2>1, <2>2 DEF PerEvent
<1> QED
  BY <1>3, <1>4, <1>5, <1>6, <1>7, RelayFrame

(* The end of a batch: its rows are handed over to the broker, or back to  *)
(* the claims.                                                             *)
LEMMA BatchEndKeeps ==
    ASSUME IInv, NEW w \in Worker, MarkPublished(w) \/ ResetToPending(w)
    PROVE  IInv'
<1>1. PICK S \in SUBSET Event, new \in {"published", "pending"} :
         /\ S = batch[w] /\ Update(S, new) /\ Rest(w)
         /\ UNCHANGED <<brokerVars, received, tried, faults>>
         /\ new = "published" => relay[w] = "mark" /\ again' = again
         /\ new = "pending" => again' = OneMore(again, S)
  <2>1. batch[w] \in SUBSET Event
    BY Facts DEF RelayTypes
  <2> QED
    BY <2>1 DEF MarkPublished, ResetToPending, history
<1>2. RowTypes /\ RelayTypes /\ PerWorker(w)
  BY Facts
<1>3. /\ status' \in [Event -> Status]
      /\ stale' \subseteq {e \in Event : status'[e] = "publishing"}
      /\ \A e \in Event : /\ e \in S /\ status[e] # "gone" => status'[e] = new
                          /\ e \notin S \/ status[e] = "gone" => status'[e] = status[e]
  <2>1. new \in Status
    BY DEF Status
  <2> QED
    BY <1>1, <1>2, <2>1, Updated
<1>4. /\ again' \in [Event -> Nat]
      /\ \A e \in Event : again'[e] = IF e \in S /\ new = "pending" THEN again[e] + 1 ELSE again[e]
  BY <1>1, <1>2 DEF OneMore, RowTypes
<1>5. /\ RelayTypes' /\ relay'[w] = "sleep" /\ batch'[w] = {} /\ unsent'[w] = {}
      /\ \A v \in Worker \ {w} : /\ relay'[v] = relay[v]
                                 /\ batch'[v] = batch[v] /\ unsent'[v] = unsent[v]
  BY <1>1, <1>2, Rested
<1>6. RowTypes' /\ OnlyRelay(w) /\ PerWorker(w)'
  BY <1>1, <1>2, <1>3, <1>4, <1>5 DEF RowTypes, OnlyRelay, PerWorker, brokerVars, Status
<1>7. ASSUME NEW e \in Event
      PROVE  /\ status[e] = "gone" => status'[e] = "gone"
             /\ \/ status'[e] = status[e]
                \/ status'[e] \in {"pending", "publishing", "published"}
             /\ status'[e] = "published" => Handled(e)
             /\ Bit(e \in unsent'[w]) + RowChance(e)' + again[e]
                   <= Bit(e \in unsent[w]) + RowChance(e) + again'[e]
             /\ Bit(e \in unsent'[w]) + Bit(status'[e] = "pending") + again[e]
                   <= Bit(e \in unsent[w]) + Bit(status[e] = "pending") + again'[e]
  <2>1. /\ Bit(e \in unsent'[w]) = 0 /\ Bit(e \in unsent[w]) \in {0, 1}
        /\ RowChance(e)' \in {0, 1} /\ RowChance(e) \in {0, 1} /\ again[e] \in Nat /\ PerEvent(e)
        /\ Bit(status[e] = "pending") \in {0, 1} /\ Bit(status'[e] = "pending") \in {0, 1}
    BY <1>5, Facts DEF Bit, RowChance
  <2>2. CASE e \notin S \/ status[e] = "gone"
    <3>1. status'[e] = status[e] /\ again'[e] >= again[e] /\ again'[e] \in Nat
      BY <1>3, <1>4, <2>1, <2>2
    <3>2. /\ RowChance(e)' = RowChance(e)
          /\ Bit(status'[e] = "pending") = Bit(status[e] = "pending")
      BY <3>1 DEF RowChance, Bit
    <3> QED
      BY <2>1, <3>1, <3>2 DEF PerEvent
  <2>3. CASE e \in S /\ status[e] # "gone" /\ new = "published"
    <3>1. /\ status'[e] = "published" /\ again'[e] = again[e] /\ RowChance(e)' = 0
          /\ Bit(status'[e] = "pending") = 0
      BY <1>3, <1>4, <2>3 DEF RowChance, Bit
    <3>2. Handled(e)
      BY <1>1, <1>2, <2>3 DEF PerWorker
    <3> QED
      BY <2>1, <2>3, <3>1, <3>2
  <2>4. CASE e \in S /\ status[e] # "gone" /\ new = "pending"
    <3>1. status'[e] = "pending" /\ again'[e] = again[e] + 1
      BY <1>3, <1>4, <2>4
    <3> QED
      BY <2>1, <2>4, <3>1
  <2> QED
    BY <2>2, <2>3, <2>4
<1> QED
  BY <1>5, <1>6, <1>7, RelayFrame

LEMMA FreeSlot ==
    ASSUME \E s \in Slot : message[s] = Free
    PROVE  Lowest \in Slot /\ message[Lowest] = Free
<1> DEFINE S == {s \in Slot : message[s] = Free}
<1>1. S \in SUBSET Nat /\ S # {}
  BY RelayAssumption
<1>2. Min(S) \in S
  <2> HIDE DEF S
  <2> QED
    BY <1>1, LowestIsFree
<1> QED
  BY <1>2 DEF Lowest

(* The broker stores a message: the batch's chance becomes the message's.  *)
LEMMA StoreKeeps == ASSUME IInv, NEW w \in Worker, NEW e \in Event, Store(w, e) PROVE IInv'
<1>1. /\ relay[w] = "publish" /\ e \in unsent[w] /\ unsent' = [unsent EXCEPT ![w] = @ \ {e}]
      /\ UNCHANGED <<rowVars, relay, batch, dead, discarded, history, faults>>
  BY DEF Store
<1> DEFINE new == [event |-> e, attempt |-> 1, at |-> "deliver", by |-> "none"]
<1>2. PICK s \in Slot, m \in Message :
         /\ message[s] = Free /\ message' = [message EXCEPT ![s] = m] /\ m = new
  <2>1. Lowest \in Slot /\ message[Lowest] = Free
    BY FreeSlot DEF Store
  <2>2. new \in Message
    BY RelayAssumption DEF Message, Queued, Place, Carried
  <2> QED
    BY <2>1, <2>2 DEF Store
<1>3. m \in Content /\ m # Free /\ m.event = e /\ m.at = "deliver" /\ m.attempt = 1
  BY <1>2, Contents DEF Content, Free
<1>4. RowTypes /\ RelayTypes /\ message \in [Slot -> Content] /\ PerWorker(w)
  BY Facts
<1>5. /\ Free.event = "none" /\ message'[s] = m
      /\ \A t \in Slot \ {s} : message'[t] = message[t]
      /\ message' \in [Slot -> Content]
  BY <1>2, <1>3, <1>4 DEF Free
<1>6. /\ Cardinality(Live(e)') = Cardinality(Live(e)) - Weight(message[s]) + Weight(m)
      /\ \A f \in Event \ {e} : SameMessages(f)
  BY <1>2, <1>3, <1>4, <1>5, LiveCount
<1>7. Weight(message[s]) = 0 /\ Weight(m) = 1
  BY <1>2, <1>3 DEF Weight, Bit
<1>8. /\ RelayTypes' /\ unsent'[w] = unsent[w] \ {e}
      /\ \A v \in Worker \ {w} : unsent'[v] = unsent[v]
  BY <1>1, <1>4 DEF RelayTypes
<1>9. RowTypes' /\ \A f \in Event : SameRow(f) /\ Forward(f)
  <2>1. \A f \in Event : SameRow(f)
    BY <1>1 DEF SameRow, rowVars, history
  <2>2. RowTypes'
    BY <1>1, <1>4 DEF RowTypes, rowVars, history
  <2> QED
    BY <2>1, <2>2, SameRowGoesForward
<1>10. InBroker(e)' /\ Handled(e)'
  BY <1>3, <1>5 DEF InBroker, Handled, EventOf
<1>11. ASSUME NEW f \in Event \ {e} PROVE PerEvent(f)' /\ (Handled(f) => Handled(f)')
  <2>1. Unsent(f)' = Unsent(f)
    BY <1>4, <1>8 DEF Unsent
  <2> QED
    BY <1>6, <1>9, <2>1, EventStays
<1>12. PerEvent(e)'
  <2>1. /\ PerEvent(e) /\ received[e] \in Nat /\ again[e] \in Nat
        /\ received'[e] = received[e] /\ again'[e] = again[e] /\ status'[e] = status[e]
        /\ tried'[e] = tried[e] /\ dead' = dead
    BY <1>1, Facts DEF history, rowVars
  <2>2. /\ Cardinality(Unsent(e)') = Cardinality(Unsent(e)) - 1
    <3>1. /\ Cardinality(Unsent(e)') =
                Cardinality(Unsent(e)) - Bit(e \in unsent[w]) + Bit(e \in unsent'[w])
      BY <1>8, UnsentCount
    <3>2. Bit(e \in unsent[w]) = 1 /\ Bit(e \in unsent'[w]) = 0
      BY <1>1, <1>8 DEF Bit
    <3> QED
      BY <3>1, <3>2, Numbers
  <2>3. RowChance(e)' = RowChance(e)
    BY <2>1 DEF RowChance
  <2>4. /\ Cardinality(Live(e)) \in Nat /\ Cardinality(Unsent(e)) \in Nat
        /\ RowChance(e) \in {0, 1}
    BY Numbers
  <2>5. received[e] + Cardinality(Live(e)) + Cardinality(Unsent(e)) + RowChance(e) <= 1 + again[e]
    BY <2>1 DEF PerEvent, Counted
  <2>6. received[e] + Cardinality(Live(e)') + Cardinality(Unsent(e)') + RowChance(e)
           <= 1 + again[e]
    BY <1>6, <1>7, <2>1, <2>2, <2>4, <2>5
  <2>7. Counted(e)'
    BY <2>1, <2>3, <2>6 DEF Counted
  <2>8. Limited(e)'
    <3>1. /\ Cardinality(Left(e)') = Cardinality(Left(e)) - Room(message[s]) + Room(m)
          /\ Cardinality(Left(e)') \in Nat /\ Cardinality(Left(e)) \in Nat
      BY <1>2, <1>3, <1>4, <1>5, LeftCount, Numbers
    <3>2. Room(message[s]) = 0 /\ Room(m) = MaxAttempts /\ MaxAttempts \in Nat
      BY <1>2, <1>3, RelayAssumption DEF Room, Spent
    <3>3. tried[e] \in Nat /\ MaxAttempts * 1 = MaxAttempts
      BY <3>2, Facts
    <3>4. tried'[e] + Cardinality(Left(e)') <= tried[e] + Cardinality(Left(e)) + MaxAttempts * 1
      BY <2>1, <3>1, <3>2, <3>3
    <3>5. /\ Cardinality(Unsent(e)') \in Nat
          /\ Cardinality(Unsent(e)') + Bit(status'[e] = "pending") + 1 + again[e]
               <= Cardinality(Unsent(e)) + Bit(status[e] = "pending") + again'[e]
      <4>1. Bit(status[e] = "pending") \in {0, 1} /\ Bit(status'[e] = "pending") = Bit(status[e] = "pending")
        BY <2>1 DEF Bit
      <4>2. Cardinality(Unsent(e)') \in Nat
        BY <1>8, UnsentCount
      <4> QED
        BY <2>1, <2>2, <2>4, <4>1, <4>2
    <3> QED
      BY <1>9, <3>1, <3>4, <3>5, LimitedStays
  <2> QED
    BY <1>10, <2>1, <2>7, <2>8 DEF PerEvent
<1>13. ASSUME NEW t \in Slot PROVE Warranted(message[t])'
  <2>1. CASE t = s
    <3>1. status[e] # "absent" /\ tried[e] \in Nat /\ tried'[e] = tried[e] /\ status'[e] = status[e]
      BY <1>1, <1>4, Facts DEF PerWorker, RelayTypes, history, rowVars
    <3> QED
      BY <1>3, <1>5, <2>1, <3>1 DEF Warranted
  <2>2. CASE t # s
    <3>1. PICK n \in Content : n = message[t] /\ n = message'[t]
      BY <1>4, <1>5, <2>2
    <3>2. Warranted(n) /\ (n # Free => Forward(n.event))
      BY <1>9, <3>1, Facts, Contents
    <3>3. Warranted(n)'
      BY <1>9, <3>2, WarrantedStays
    <3> QED
      BY <3>1, <3>3 DEF Warranted
  <2> QED
    BY <2>1, <2>2
<1>14. \A v \in Worker : PerWorker(v)'
  <2>1. \A f \in Event : Forward(f) /\ (Handled(f) => Handled(f)')
    BY <1>9, <1>10, <1>11
  <2>2. \A v \in Worker : batch[v] \subseteq Event
    BY <1>4 DEF RelayTypes
  <2>3. \A v \in Worker \ {w} : PerWorker(v)'
    BY <1>1, <1>8, <2>1, <2>2, Facts, WorkerStays
  <2>4. PerWorker(w)'
    BY <1>1, <1>4, <1>8, <1>10, <2>1, <2>2 DEF PerWorker, Forward
  <2> QED
    BY <2>3, <2>4
<1> QED
  BY <1>5, <1>8, <1>9, <1>11, <1>12, <1>13, <1>14 DEF IInv

(* Rows that are emitted, grow stale, or go with their endpoint. *)
LEMMA RowKeeps ==
    ASSUME IInv, NEW e \in Event, Emit(e) \/ GrowStale(e) \/ EndpointDeleted(e)
    PROVE  IInv'
<1>1. /\ UNCHANGED <<relayVars, brokerVars, history>> /\ faults' \in 0..MaxFaults
      /\ stale' \subseteq stale \cup {e}
      /\ \/ status' = status /\ status[e] = "publishing"
         \/ status[e] = "absent" /\ status' = [status EXCEPT ![e] = "pending"] /\ stale' = stale
         \/ /\ status[e] # "absent" /\ status' = [status EXCEPT ![e] = "gone"]
            /\ stale' = stale \ {e}
  <2>1. faults' = faults \/ (faults < MaxFaults /\ faults' = faults + 1)
    BY DEF Emit, GrowStale, EndpointDeleted, Budget
  <2>2. faults \in 0..MaxFaults /\ MaxFaults \in Nat
    BY Facts, RelayAssumption DEF RowTypes
  <2> QED
    BY <2>1, <2>2 DEF Emit, GrowStale, EndpointDeleted
<1>2. RowTypes /\ RelayTypes /\ message \in [Slot -> Content]
  BY Facts
<1>3. /\ \A f \in Event \ {e} : status'[f] = status[f]
      /\ \/ status'[e] = status[e]
         \/ status'[e] = "pending" /\ status[e] = "absent"
         \/ status'[e] = "gone"
      /\ status[e] # "absent" => status'[e] # "absent"
      /\ status[e] = "gone" => status'[e] = "gone"
  BY <1>1, <1>2 DEF RowTypes
<1>4. RowTypes' /\ RelayTypes' /\ message' \in [Slot -> Content]
  <2>1. stale' \subseteq {f \in Event : status'[f] = "publishing"}
    BY <1>1, <1>2 DEF RowTypes
  <2> QED
    BY <1>1, <1>2, <2>1 DEF RowTypes, RelayTypes, relayVars, brokerVars, history
<1>5. \A f \in Event \ {e} : SameRow(f)
  BY <1>1, <1>3 DEF SameRow, brokerVars, history
<1>6. \A f \in Event : SameMessages(f) /\ Unsent(f)' = Unsent(f)
  BY <1>1 DEF SameMessages, Unsent, brokerVars, relayVars
<1>7. \A f \in Event : Live(f)' = Live(f) /\ Left(f)' = Left(f) /\ (InBroker(f)' <=> InBroker(f))
  BY <1>6, SameMessagesCount
<1>8. \A f \in Event : (Handled(f)' <=> Handled(f))
  BY <1>1, <1>7 DEF Handled, brokerVars, history
<1>9. \A f \in Event : Forward(f)
  BY <1>1, <1>3, <1>5, Facts, SameRowGoesForward DEF Forward, brokerVars, history
<1>10. PerEvent(e)'
  <2>1. /\ PerEvent(e) /\ received[e] \in Nat /\ again[e] \in Nat
        /\ received' = received /\ again' = again /\ tried' = tried /\ dead' = dead
    BY <1>1, Facts DEF history, brokerVars
  <2>2. received[e] + Cardinality(Live(e)) + Cardinality(Unsent(e)) + RowChance(e)' <= 1 + again[e]
    <3>1. /\ Cardinality(Live(e)) \in Nat /\ Cardinality(Unsent(e)) \in Nat
          /\ RowChance(e) \in {0, 1}
          /\ received[e] + Cardinality(Live(e)) + Cardinality(Unsent(e)) + RowChance(e)
                <= 1 + again[e]
      BY <2>1, Numbers DEF PerEvent, Counted
    <3>2. CASE status'[e] = status[e]
      BY <3>1, <3>2 DEF RowChance
    <3>3. CASE status'[e] = "gone"
      <4>1. RowChance(e)' = 0
        BY <3>3 DEF RowChance
      <4> QED
        BY <2>1, <3>1, <4>1
    <3>4. CASE status'[e] = "pending" /\ status[e] = "absent"
      <4>1. Live(e) = {}
        BY <3>4, Facts, Contents, RelayAssumption DEF Live, EventOf, Warranted
      <4>2. Unsent(e) = {}
        BY <1>2, <3>4, Facts DEF Unsent, PerWorker, RelayTypes
      <4>3. Cardinality(Live(e)) = 0 /\ Cardinality(Unsent(e)) = 0 /\ RowChance(e)' = 1
        BY <3>4, <4>1, <4>2, FS_EmptySet DEF RowChance
      <4> QED
        BY <2>1, <3>4, <4>3 DEF PerEvent
    <3> QED
      BY <1>3, <3>2, <3>3, <3>4
  <2>3. Counted(e)'
    BY <1>6, <1>7, <2>1, <2>2 DEF Counted
  <2>4. Limited(e)'
    <3>1. /\ Left(e)' = Left(e) /\ Unsent(e)' = Unsent(e) /\ tried[e] \in Nat
          /\ Cardinality(Left(e)) \in Nat /\ Cardinality(Unsent(e)) \in Nat
          /\ MaxAttempts \in Nat /\ MaxAttempts * 0 = 0
      BY <1>6, <1>7, Facts, Numbers
    <3>2. CASE status'[e] = "pending" /\ status[e] = "absent"
      <4>1. Left(e) = {}
        BY <3>2, Facts, Contents, RelayAssumption DEF Left, EventOf, Warranted
      <4>2. Unsent(e) = {}
        BY <1>2, <3>2, Facts DEF Unsent, PerWorker, RelayTypes
      <4>3. /\ Cardinality(Left(e)) = 0 /\ Cardinality(Unsent(e)) = 0 /\ tried'[e] = 0
            /\ Bit(status'[e] = "pending") = 1
        BY <2>1, <3>2, <4>1, <4>2, FS_EmptySet DEF Bit, PerEvent
      <4>4. MaxAttempts * 1 <= MaxAttempts * (1 + again'[e])
        BY <2>1, <3>1, Scale
      <4>5. 0 + 0 + MaxAttempts * (0 + 1) <= MaxAttempts * (1 + again'[e])
        BY <3>1, <4>4
      <4> QED
        BY <3>1, <4>3, <4>5 DEF Limited
    <3>3. CASE ~(status'[e] = "pending" /\ status[e] = "absent")
      <4>1. /\ Bit(status'[e] = "pending") <= Bit(status[e] = "pending")
            /\ Bit(status'[e] = "pending") \in {0, 1} /\ Bit(status[e] = "pending") \in {0, 1}
        BY <1>3, <3>3 DEF Bit
      <4>2. tried'[e] + Cardinality(Left(e)') <= tried[e] + Cardinality(Left(e)) + MaxAttempts * 0
        BY <2>1, <3>1
      <4>3. Cardinality(Unsent(e)') + Bit(status'[e] = "pending") + 0 + again[e]
               <= Cardinality(Unsent(e)) + Bit(status[e] = "pending") + again'[e]
        BY <2>1, <3>1, <4>1
      <4> QED
        BY <1>4, <3>1, <4>2, <4>3, LimitedStays
    <3> QED
      BY <3>2, <3>3
  <2> QED
    BY <1>3, <1>8, <2>1, <2>3, <2>4 DEF PerEvent
<1>11. \A f \in Event : PerEvent(f)'
  BY <1>5, <1>6, <1>10, EventStays
<1>12. \A t \in Slot : Warranted(message[t])'
  <2> SUFFICES ASSUME NEW t \in Slot PROVE Warranted(message[t])'
    OBVIOUS
  <2>1. PICK n \in Content : n = message[t] /\ n = message'[t]
    BY <1>1, <1>2 DEF brokerVars
  <2>2. Warranted(n) /\ (n # Free => Forward(n.event))
    BY <1>9, <2>1, Facts, Contents
  <2>3. Warranted(n)'
    BY <1>4, <2>2, WarrantedStays
  <2> QED
    BY <2>1, <2>3 DEF Warranted
<1>13. \A v \in Worker : PerWorker(v)'
  <2>1. \A v \in Worker : batch[v] \subseteq Event
    BY <1>2 DEF RelayTypes
  <2> QED
    BY <1>1, <1>8, <1>9, <2>1, Facts, WorkerStays DEF relayVars
<1> QED
  BY <1>4, <1>11, <1>12, <1>13 DEF IInv

----------------------------------------------------------------------------
(* A process that dies. *)

(* Four disjoint parts of a finite set. *)
Apart(A, B, C, D) ==
    A \cap B = {} /\ (A \cup B) \cap C = {} /\ (A \cup B \cup C) \cap D = {}

(* Four sets that do not meet are together no larger than what they are    *)
(* parts of.                                                               *)
LEMMA FourParts ==
    ASSUME NEW H, IsFiniteSet(H), NEW A \in SUBSET H, NEW B \in SUBSET H,
           NEW C \in SUBSET H, NEW D \in SUBSET H,
           Apart(A, B, C, D)
    PROVE  /\ Cardinality(A) \in Nat /\ Cardinality(B) \in Nat /\ Cardinality(C) \in Nat
           /\ Cardinality(D) \in Nat /\ Cardinality(H) \in Nat
           /\ Cardinality(A) + Cardinality(B) + Cardinality(C) + Cardinality(D) <= Cardinality(H)
<1> DEFINE AB == A \cup B
           ABC == AB \cup C
           ABCD == ABC \cup D
<1>1. IsFiniteSet(A) /\ IsFiniteSet(B) /\ IsFiniteSet(C) /\ IsFiniteSet(D)
  BY FS_Subset
<1>2. IsFiniteSet(AB) /\ Cardinality(AB) = Cardinality(A) + Cardinality(B) - Cardinality(A \cap B)
  BY <1>1, FS_Union
<1>3. IsFiniteSet(ABC) /\ Cardinality(ABC) = Cardinality(AB) + Cardinality(C) - Cardinality(AB \cap C)
  <2> HIDE DEF AB
  <2> QED
    BY <1>1, <1>2, FS_Union
<1>4. Cardinality(ABCD) = Cardinality(ABC) + Cardinality(D) - Cardinality(ABC \cap D)
  <2> HIDE DEF ABC
  <2> QED
    BY <1>1, <1>3, FS_Union
<1>5. Cardinality(ABCD) <= Cardinality(H)
  <2>1. ABCD \in SUBSET H
    OBVIOUS
  <2> HIDE DEF ABCD
  <2> QED
    BY <2>1, FS_Subset
<1>6. /\ Cardinality(A \cap B) = 0 /\ Cardinality(AB \cap C) = 0 /\ Cardinality(ABC \cap D) = 0
  BY FS_EmptySet DEF Apart
<1>7. /\ Cardinality(A) \in Nat /\ Cardinality(B) \in Nat /\ Cardinality(C) \in Nat
      /\ Cardinality(D) \in Nat /\ Cardinality(H) \in Nat
  BY <1>1, FS_CardinalityType
<1> HIDE DEF AB, ABC, ABCD
<1> QED
  BY <1>2, <1>3, <1>4, <1>5, <1>6, <1>7

(* What a crash leaves in the broker.                                      *)
Redelivered(w, copy) ==
    /\ message' \in [Slot -> Content]
    /\ \A s \in Held(w) : /\ message'[s] # Free /\ message'[s].at = "deliver"
                          /\ message'[s].event = message[s].event
                          /\ message'[s].attempt = message[s].attempt
    /\ \A s \in Slot \ Held(w) : (s = Lowest /\ copy # {}) \/ message'[s] = message[s]
    /\ \A c \in copy : /\ message[c].at = "post" /\ \A d \in copy : c = d
                       /\ Lowest \in Slot /\ message[Lowest] = Free
                       /\ message'[Lowest] # Free /\ message'[Lowest].at = "retry"
                       /\ message'[Lowest].event = message[c].event
                       /\ message'[Lowest].attempt = message[c].attempt + 1

(* What the broker does with the messages of a dead worker: each goes back *)
(* to its queue, and at most one also has a copy in the retry queue.       *)
LEMMA CrashRequeues ==
    ASSUME IInv, NEW w \in Worker, NEW copy, message' = Requeued(w, copy),
           copy = {} \/ \E c \in Copiable(w) : copy = {c}
    PROVE  Redelivered(w, copy)
<1>1. \A s \in Held(w) : s \in Slot /\ message[s] \in Content /\ message[s] \in Working
  BY Facts, Contents DEF Held
<1>2. ASSUME NEW s \in Held(w)
      PROVE  /\ message'[s] \in Content /\ message'[s] # Free /\ message'[s].at = "deliver"
             /\ message'[s].event = message[s].event
             /\ message'[s].attempt = message[s].attempt
  <2>1. message'[s] = [[message[s] EXCEPT !.at = "deliver"] EXCEPT !.by = "none"]
    BY <1>1 DEF Requeued
  <2>2. message'[s] = [event |-> message[s].event, attempt |-> message[s].attempt,
                       at |-> "deliver", by |-> "none"]
    BY <1>1, <2>1 DEF Working
  <2>3. message'[s] \in Content
    BY <1>1, <2>2 DEF Content, Message, Working, Queued, Place, Carried
  <2> QED
    BY <2>2, <2>3 DEF Free
<1>3. ASSUME NEW c \in copy
      PROVE  /\ message[c].at = "post" /\ \A d \in copy : c = d
             /\ Lowest \in Slot /\ message[Lowest] = Free
             /\ message'[Lowest] \in Content
             /\ message'[Lowest] # Free /\ message'[Lowest].at = "retry"
             /\ message'[Lowest].event = message[c].event
             /\ message'[Lowest].attempt = message[c].attempt + 1
  <2>1. /\ message[c].at = "post" /\ copy = {c} /\ c \in Held(w)
        /\ message[c].attempt < MaxAttempts /\ \E t \in Slot : message[t] = Free
    BY DEF Copiable, HeldAt
  <2>2. Lowest \in Slot /\ message[Lowest] = Free
    BY <2>1, FreeSlot
  <2>3. Lowest \notin Held(w)
    BY <2>2, RelayAssumption DEF Held, Free
  <2>4. (CHOOSE d \in copy : TRUE) = c
    BY <2>1
  <2>5. message'[Lowest] = [[[message[c] EXCEPT !.attempt = message[c].attempt + 1]
                                EXCEPT !.at = "retry"] EXCEPT !.by = "none"]
    BY <2>1, <2>2, <2>3, <2>4 DEF Requeued
  <2>6. message[c] \in Working
    BY <1>1, <2>1
  <2>7. message'[Lowest] = [event |-> message[c].event, attempt |-> message[c].attempt + 1,
                            at |-> "retry", by |-> "none"]
    BY <2>5, <2>6 DEF Working
  <2>8. message[c].attempt + 1 \in 1..MaxAttempts
    BY <2>1, <2>6, RelayAssumption DEF Working
  <2>9. message'[Lowest] \in Content
    BY <2>6, <2>7, <2>8 DEF Content, Message, Working, Queued, Place, Carried
  <2> QED
    BY <2>1, <2>2, <2>7, <2>9 DEF Free
<1>4. \A s \in Slot \ Held(w) : (s = Lowest /\ copy # {}) \/ message'[s] = message[s]
  BY DEF Requeued
<1>5. message' \in [Slot -> Content]
  <2>1. \A s \in Slot : message'[s] \in Content
    BY <1>2, <1>3, <1>4, Facts
  <2> QED
    BY <2>1 DEF Requeued
<1> QED
  BY <1>2, <1>3, <1>4, <1>5 DEF Redelivered

OfEvent(S, e) == {s \in S : EventOf(s) = e}

(* Every held message of an event is a reason to send it again, and pays   *)
(* for what the crash makes of it: a redelivery that was not a chance any  *)
(* more, an answer not heard, a copy, or the row of a dead letter.         *)
LEMMA CrashCount ==
    ASSUME IInv, NEW w \in Worker, NEW copy \in SUBSET Held(w), Redelivered(w, copy),
           NEW done \in SUBSET Held(w), done \cap copy = {}, NEW e \in Event
    PROVE  /\ Cardinality(OfEvent(done \cap HeldAt(w, "post"), e)) \in Nat
           /\ Cardinality(OfEvent(Held(w), e)) \in Nat
           /\ Cardinality(Live(e)') + Cardinality(OfEvent(done \cap HeldAt(w, "post"), e))
                    + Bit(OfEvent(done \cap HeldAt(w, "bury"), e) # {})
                 <= Cardinality(Live(e)) + Cardinality(OfEvent(Held(w), e))
           /\ Cardinality(Live(e)') \in Nat
<1> DEFINE of(S) == {s \in S : EventOf(s) = e}
           H == of(Held(w))
           accepted == of(done \cap HeldAt(w, "post"))
           failed == of(done \cap HeldAt(w, "bury"))
           recorded == of(HeldAt(w, "record"))
           copied == of(copy)
           Old == Live(e)
           New == Live(e)'
           copies == New \ (Old \cup recorded)
<1>1. /\ H \in SUBSET Slot /\ accepted \in SUBSET H /\ failed \in SUBSET H
      /\ recorded \in SUBSET H /\ copied \in SUBSET H
      /\ Old \in SUBSET Slot /\ New \in SUBSET Slot
  BY DEF Held, HeldAt, Live
<1>2. Apart(accepted, recorded, copied, failed)
  <2>1. \A s \in copied : message[s].at = "post" /\ s \notin done
    BY DEF Redelivered
  <2> QED
    BY <2>1 DEF HeldAt, Apart
<1>3. IsFiniteSet(H) /\ IsFiniteSet(Old) /\ IsFiniteSet(New)
  <2> HIDE DEF H, Old, New
  <2> QED
    BY <1>1, FS_Subset, RelayAssumption
<1>4. /\ Cardinality(accepted) \in Nat /\ Cardinality(recorded) \in Nat
      /\ Cardinality(copied) \in Nat /\ Cardinality(failed) \in Nat /\ Cardinality(H) \in Nat
      /\ Cardinality(accepted) + Cardinality(recorded) + Cardinality(copied) + Cardinality(failed)
            <= Cardinality(H)
  <2> HIDE DEF H, accepted, recorded, copied, failed
  <2>1. /\ accepted \in SUBSET H /\ recorded \in SUBSET H /\ copied \in SUBSET H
        /\ failed \in SUBSET H
    BY <1>1
  <2> QED
    BY <1>2, <1>3, <2>1, FourParts
<1>5. Bit(failed # {}) <= Cardinality(failed)
  <2>1. IsFiniteSet(failed)
    <3> HIDE DEF H, failed
    <3> QED
      BY <1>1, <1>3, FS_Subset
  <2> HIDE DEF failed
  <2> QED
    BY <1>4, <2>1, FS_EmptySet DEF Bit
<1>6. /\ New \subseteq (Old \cup recorded) \cup copies
      /\ copies \subseteq {Lowest} /\ (copies # {} => copied # {})
  <2>1. New \subseteq (Old \cup recorded) \cup copies
    OBVIOUS
  <2>2. ASSUME NEW s \in copies
        PROVE  s = Lowest /\ copied # {}
    <3>1. s \in Slot /\ EventOf(s)' = e /\ message'[s].at # "record" /\ s \notin Old /\ s \notin recorded
      BY DEF Live
    <3>2. s \notin Held(w)
      <4>1. ASSUME s \in Held(w) PROVE FALSE
        <5>1. EventOf(s) = e
          BY <3>1, <4>1 DEF Redelivered, EventOf
        <5> QED
          BY <3>1, <4>1, <5>1 DEF Live, HeldAt
      <4> QED
        BY <4>1
    <3>3. message'[s] # message[s]
      BY <3>1 DEF Live, EventOf
    <3>4. s = Lowest /\ copy # {}
      BY <3>1, <3>2, <3>3 DEF Redelivered
    <3>5. PICK c \in copy : message[c].event = e
      BY <3>1, <3>4 DEF Redelivered, EventOf
    <3> QED
      BY <3>4, <3>5 DEF EventOf
  <2> QED
    BY <2>1, <2>2
<1>7. Cardinality(copies) \in Nat /\ Cardinality(copies) <= Cardinality(copied) /\ IsFiniteSet(copies)
  <2>1. copies = {} \/ (copies = {Lowest} /\ copied # {})
    BY <1>6
  <2>2. IsFiniteSet(copied)
    <3> HIDE DEF H, copied
    <3> QED
      BY <1>1, <1>3, FS_Subset
  <2> HIDE DEF copies, copied
  <2>3. copied # {} => Cardinality(copied) >= 1
    BY <1>4, <2>2, FS_EmptySet
  <2> QED
    <3>1. CASE copies = {}
      BY <1>4, <3>1, FS_EmptySet
    <3>2. CASE copies = {Lowest} /\ copied # {}
      <4>1. IsFiniteSet(copies) /\ Cardinality(copies) = 1
        BY <3>2, FS_Singleton
      <4> QED
        BY <1>4, <2>3, <3>2, <4>1
    <3> QED
      BY <2>1, <3>1, <3>2
<1>8. /\ Cardinality(New) \in Nat /\ Cardinality(Old) \in Nat
      /\ Cardinality(New) <= Cardinality(Old) + Cardinality(recorded) + Cardinality(copies)
  <2> DEFINE A == Old \cup recorded
             B == A \cup copies
  <2>1. IsFiniteSet(recorded)
    <3> HIDE DEF H, recorded
    <3> QED
      BY <1>1, <1>3, FS_Subset
  <2>2. /\ IsFiniteSet(A)
        /\ Cardinality(A) = Cardinality(Old) + Cardinality(recorded) - Cardinality(Old \cap recorded)
    <3> HIDE DEF Old, recorded
    <3> QED
      BY <1>3, <2>1, FS_Union
  <2>3. /\ IsFiniteSet(B)
        /\ Cardinality(B) = Cardinality(A) + Cardinality(copies) - Cardinality(A \cap copies)
    <3> HIDE DEF A, copies
    <3> QED
      BY <1>7, <2>2, FS_Union
  <2>4. Cardinality(New) <= Cardinality(B)
    <3>1. New \in SUBSET B
      BY <1>6
    <3> HIDE DEF New, B
    <3> QED
      BY <2>3, <3>1, FS_Subset
  <2>5. Cardinality(Old \cap recorded) \in Nat /\ Cardinality(A \cap copies) \in Nat
    <3>1. IsFiniteSet(Old \cap recorded) /\ IsFiniteSet(A \cap copies)
      <4>1. Old \cap recorded \in SUBSET Old /\ A \cap copies \in SUBSET A
        OBVIOUS
      <4> HIDE DEF Old, recorded, A, copies
      <4> QED
        BY <1>3, <2>2, <4>1, FS_Subset
    <3> HIDE DEF Old, recorded, A, copies
    <3> QED
      BY <3>1, FS_CardinalityType
  <2>6. Cardinality(New) \in Nat /\ Cardinality(Old) \in Nat /\ Cardinality(A) \in Nat
        /\ Cardinality(B) \in Nat
    <3> HIDE DEF Old, New, A, B
    <3> QED
      BY <1>3, <2>2, <2>3, FS_CardinalityType
  <2> HIDE DEF Old, New, A, B, recorded, copies
  <2> QED
    BY <1>4, <1>7, <2>2, <2>3, <2>4, <2>5, <2>6
<1>9. Cardinality(New) + Cardinality(accepted) + Bit(failed # {}) <= Cardinality(Old) + Cardinality(H)
  <2>1. Bit(failed # {}) \in {0, 1}
    BY DEF Bit
  <2> HIDE DEF Old, New, H, accepted, failed, recorded, copies, copied
  <2> QED
    BY <1>4, <1>5, <1>7, <1>8, <2>1
<1>10. /\ OfEvent(Held(w), e) = H
       /\ OfEvent(done \cap HeldAt(w, "post"), e) = accepted
       /\ OfEvent(done \cap HeldAt(w, "bury"), e) = failed
  BY DEF OfEvent
<1> HIDE DEF H, accepted, failed
<1> QED
  BY <1>4, <1>8, <1>9, <1>10

(* A set that covers another one, but for a part as large as an overlap of *)
(* the set's two parts.                                                    *)
LEMMA Covered ==
    ASSUME NEW N, NEW A, NEW B, IsFiniteSet(N), IsFiniteSet(A), IsFiniteSet(B),
           Cardinality(N \ (A \cup B)) <= Cardinality(A \cap B)
    PROVE  Cardinality(N) <= Cardinality(A) + Cardinality(B)
<1> DEFINE U == A \cup B
           O == A \cap B
           X == N \ U
           V == U \cup X
<1>1. IsFiniteSet(U) /\ Cardinality(U) = Cardinality(A) + Cardinality(B) - Cardinality(O)
  BY FS_Union
<1>2. IsFiniteSet(X) /\ IsFiniteSet(O)
  <2>1. X \in SUBSET N /\ O \in SUBSET A
    OBVIOUS
  <2> HIDE DEF X, O
  <2> QED
    BY <2>1, FS_Subset
<1>3. IsFiniteSet(V) /\ Cardinality(V) = Cardinality(U) + Cardinality(X) - Cardinality(U \cap X)
  <2> HIDE DEF U, X
  <2> QED
    BY <1>1, <1>2, FS_Union
<1>4. Cardinality(U \cap X) = 0
  <2>1. U \cap X = {}
    OBVIOUS
  <2> QED
    BY <2>1, FS_EmptySet
<1>5. Cardinality(N) <= Cardinality(V)
  <2>1. N \in SUBSET V
    OBVIOUS
  <2> HIDE DEF V
  <2> QED
    BY <1>3, <2>1, FS_Subset
<1>6. /\ Cardinality(A) \in Nat /\ Cardinality(B) \in Nat /\ Cardinality(N) \in Nat
      /\ Cardinality(O) \in Nat /\ Cardinality(X) \in Nat /\ Cardinality(U) \in Nat
      /\ Cardinality(V) \in Nat
  <2> HIDE DEF U, O, X, V
  <2> QED
    BY <1>1, <1>2, <1>3, FS_CardinalityType
<1>7. Cardinality(X) <= Cardinality(O)
  OBVIOUS
<1> HIDE DEF U, O, X, V
<1> QED
  BY <1>1, <1>3, <1>4, <1>5, <1>6, <1>7

(* Every held message of an event also pays for the attempts that are left *)
(* to it when it is delivered again; a copy's were left to the message it  *)
(* is a copy of.                                                           *)
LEMMA CrashLeft ==
    ASSUME IInv, NEW w \in Worker, NEW copy \in SUBSET Held(w), Redelivered(w, copy), NEW e \in Event
    PROVE  /\ Cardinality(Left(e)') \in Nat /\ Cardinality(OfEvent(Held(w), e)) \in Nat
           /\ Cardinality(Left(e)')
                 <= Cardinality(Left(e)) + MaxAttempts * Cardinality(OfEvent(Held(w), e))
<1> DEFINE H == OfEvent(Held(w), e)
           HP == H \X (1..MaxAttempts)
           Old == Left(e)
           New == Left(e)'
           X == New \ (Old \cup HP)
           Y == Old \cap HP
<1>1. /\ IsFiniteSet(H) /\ Cardinality(H) \in Nat
      /\ IsFiniteSet(HP) /\ Cardinality(HP) = MaxAttempts * Cardinality(H)
  <2>1. H \in SUBSET Slot
    BY DEF OfEvent, Held
  <2> HIDE DEF H
  <2>2. IsFiniteSet(H) /\ Cardinality(H) \in Nat
    BY <2>1, FS_Subset, FS_CardinalityType, RelayAssumption
  <2>3. IsFiniteSet(1..MaxAttempts) /\ Cardinality(1..MaxAttempts) = MaxAttempts
    <3>1. /\ 1 \in Int /\ MaxAttempts \in Int /\ ~(1 > MaxAttempts)
          /\ MaxAttempts - 1 + 1 = MaxAttempts
      BY RelayAssumption
    <3> QED
      BY <3>1, FS_Interval
  <2>4. IsFiniteSet(HP) /\ Cardinality(HP) = Cardinality(H) * Cardinality(1..MaxAttempts)
    BY <2>2, <2>3, FS_Product
  <2>5. Cardinality(H) * MaxAttempts = MaxAttempts * Cardinality(H)
    BY <2>2, RelayAssumption
  <2> QED
    BY <2>2, <2>3, <2>4, <2>5
<1>2. IsFiniteSet(Old) /\ IsFiniteSet(New) /\ Cardinality(New) \in Nat
  <2>1. Old \in SUBSET (Slot \X (1..MaxAttempts)) /\ New \in SUBSET (Slot \X (1..MaxAttempts))
    BY DEF Left
  <2> HIDE DEF Old, New
  <2> QED
    BY <2>1, Pairs, FS_Subset, FS_CardinalityType
<1>3. IsFiniteSet(X) /\ IsFiniteSet(Y)
  <2>1. X \in SUBSET New /\ Y \in SUBSET Old
    OBVIOUS
  <2> HIDE DEF New, Old, X, Y
  <2> QED
    BY <1>2, <2>1, FS_Subset
<1>4. ASSUME NEW p \in X
      PROVE  /\ p \in Slot \X (1..MaxAttempts) /\ p[1] = Lowest
             /\ \E c \in copy : message[c].event = e /\ p[2] > Spent(message[c])
  <2>1. /\ p \in Slot \X (1..MaxAttempts) /\ p \notin Old /\ p \notin HP
        /\ message'[p[1]].event = e /\ p[2] > Spent(message'[p[1]])
    BY DEF Left, EventOf, Spent
  <2>2. p[1] \notin Held(w)
    <3>1. ASSUME p[1] \in Held(w) PROVE FALSE
      <4>1. EventOf(p[1]) = e
        BY <2>1, <3>1 DEF Redelivered, EventOf
      <4> QED
        BY <2>1, <3>1, <4>1 DEF OfEvent
    <3> QED
      BY <3>1
  <2>3. message'[p[1]] # message[p[1]]
    BY <2>1 DEF Left, EventOf
  <2>4. p[1] = Lowest /\ copy # {}
    BY <2>1, <2>2, <2>3 DEF Redelivered
  <2>5. PICK c \in copy : /\ message[c].at = "post" /\ message'[Lowest].at = "retry"
                          /\ message'[Lowest].event = message[c].event
                          /\ message'[Lowest].attempt = message[c].attempt + 1
    BY <2>4 DEF Redelivered
  <2>6. Spent(message[c]) = message[c].attempt /\ message[c].attempt \in Nat
    <3>1. c \in Slot /\ message[c] \in Content /\ message[c] # Free
      BY <2>5, Facts DEF Held, Free
    <3> QED
      BY <2>5, <3>1, Contents DEF Spent
  <2>7. Spent(message'[Lowest]) = message[c].attempt
    BY <2>5, <2>6 DEF Spent
  <2> QED
    BY <2>1, <2>4, <2>5, <2>6, <2>7
<1>5. Cardinality(X) <= Cardinality(Y)
  <2>1. CASE X = {}
    <3>1. Cardinality(X) = 0 /\ Cardinality(Y) \in Nat
      <4> HIDE DEF X, Y
      <4> QED
        BY <1>3, <2>1, FS_EmptySet, FS_CardinalityType
    <3> QED
      BY <3>1
  <2>2. CASE X # {}
    <3>1. PICK c \in copy : message[c].event = e
      BY <1>4, <2>2
    <3>2. \A d \in copy : d = c
      BY DEF Redelivered
    <3>3. PICK m \in Content : m = message[c] /\ m # Free
      BY <3>1, Facts, RelayAssumption DEF Held, Free
    <3> DEFINE A == Rooms(Lowest, m)
               B == Rooms(c, m)
    <3>4. Spent(m) \in 0..MaxAttempts /\ MaxAttempts \in Nat
      BY <3>3, RoomsCount, RelayAssumption
    <3>5. X \subseteq A
      <4> SUFFICES ASSUME NEW p \in X PROVE p \in A
        OBVIOUS
      <4>1. /\ p \in Slot \X (1..MaxAttempts) /\ p[1] = Lowest /\ p[2] > Spent(m)
        BY <1>4, <3>2, <3>3
      <4> QED
        BY <3>3, <3>4, <4>1 DEF Rooms
    <3>6. B \subseteq Y
      <4> SUFFICES ASSUME NEW p \in B PROVE p \in Y
        OBVIOUS
      <4>1. c \in Slot /\ c \in H
        BY <3>1 DEF OfEvent, Held, EventOf
      <4>2. p \in Slot \X (1..MaxAttempts) /\ p[1] = c /\ p[2] > Spent(m)
        BY <3>3, <3>4, <4>1 DEF Rooms
      <4>3. p \in Old
        BY <3>1, <3>3, <4>2 DEF Left, EventOf
      <4> QED
        BY <4>1, <4>2, <4>3
    <3>7. /\ IsFiniteSet(A) /\ Cardinality(A) = Room(m) /\ Cardinality(B) = Room(m)
          /\ Room(m) \in Nat
      BY <3>4, RoomsCount
    <3>8. /\ Cardinality(X) <= Cardinality(A) /\ Cardinality(B) <= Cardinality(Y)
          /\ Cardinality(X) \in Nat /\ Cardinality(Y) \in Nat
      <4> HIDE DEF X, Y, A, B
      <4> QED
        BY <1>3, <3>5, <3>6, <3>7, FS_Subset, FS_CardinalityType
    <3> QED
      BY <3>7, <3>8
  <2> QED
    BY <2>1, <2>2
<1>6. Cardinality(New) <= Cardinality(Old) + Cardinality(HP)
  <2>1. Cardinality(New \ (Old \cup HP)) <= Cardinality(Old \cap HP)
    BY <1>5
  <2> HIDE DEF New, Old, HP
  <2> QED
    BY <1>1, <1>2, <2>1, Covered
<1> QED
  BY <1>1, <1>2, <1>6

LEMMA CrashKeeps == ASSUME IInv, NEW w \in Worker, Crash(w) PROVE IInv'
<1>1. PICK done \in SUBSET (HeldAt(w, "post") \cup HeldAt(w, "record") \cup HeldAt(w, "bury")) :
      \E copy \in {{}} \cup {{s} : s \in Copiable(w) \ done} :
        /\ Budget("crash") /\ Rest(w)
        /\ received' = Count(received, done \cap HeldAt(w, "post"))
        /\ again' = Count(again, Held(w))
        /\ message' = Requeued(w, copy)
        /\ status' = [e \in Event |->
              IF status[e] = "gone" THEN "gone"
              ELSE IF e \in EventsOf(done \cap HeldAt(w, "bury")) THEN "failed"
              ELSE IF e \in EventsOf(done \cap HeldAt(w, "record")) THEN "delivered"
              ELSE status[e]]
        /\ stale' = stale \ EventsOf(done \ HeldAt(w, "post"))
        /\ UNCHANGED <<dead, discarded, tried>>
  BY DEF Crash
<1>2. PICK copy \in {{}} \cup {{s} : s \in Copiable(w) \ done} : message' = Requeued(w, copy)
  BY <1>1
<1>3. /\ copy = {} \/ \E c \in Copiable(w) : copy = {c}
      /\ copy \in SUBSET Held(w) /\ done \in SUBSET Held(w) /\ done \cap copy = {}
  BY <1>1, <1>2 DEF Copiable, HeldAt
<1>4. Redelivered(w, copy)
  BY <1>2, <1>3, CrashRequeues
<1>5. RowTypes /\ RelayTypes /\ message \in [Slot -> Content]
  BY Facts
<1> DEFINE accepted(e) == OfEvent(done \cap HeldAt(w, "post"), e)
           failed(e) == OfEvent(done \cap HeldAt(w, "bury"), e)
           recorded(e) == OfEvent(done \cap HeldAt(w, "record"), e)
           held(e) == OfEvent(Held(w), e)
<1>6. ASSUME NEW e \in Event
      PROVE  /\ Cardinality(accepted(e)) \in Nat /\ Cardinality(held(e)) \in Nat
             /\ Cardinality(Live(e)') + Cardinality(accepted(e)) + Bit(failed(e) # {})
                   <= Cardinality(Live(e)) + Cardinality(held(e))
             /\ Cardinality(Live(e)') \in Nat
             /\ received'[e] = received[e] + Cardinality(accepted(e))
             /\ again'[e] = again[e] + Cardinality(held(e))
             /\ accepted(e) # {} \/ received'[e] = received[e]
  <2>1. /\ Cardinality(accepted(e)) \in Nat /\ Cardinality(held(e)) \in Nat
        /\ Cardinality(Live(e)') + Cardinality(accepted(e)) + Bit(failed(e) # {})
              <= Cardinality(Live(e)) + Cardinality(held(e))
        /\ Cardinality(Live(e)') \in Nat
    BY <1>3, <1>4, CrashCount
  <2>2. /\ received'[e] = received[e] + Cardinality(accepted(e))
        /\ again'[e] = again[e] + Cardinality(held(e))
    BY <1>1 DEF Count, OfEvent
  <2>3. accepted(e) = {} => Cardinality(accepted(e)) = 0
    BY FS_EmptySet
  <2>4. received[e] \in Nat
    BY Facts
  <2> HIDE DEF accepted, held, failed
  <2> QED
    BY <2>1, <2>2, <2>3, <2>4
<1>7. ASSUME NEW e \in Event
      PROVE  /\ status[e] = "gone" => status'[e] = "gone"
             /\ status'[e] \in {status[e], "failed", "delivered"}
             /\ status'[e] = "failed" => status[e] = "failed" \/ (failed(e) # {} /\ status[e] # "gone")
             /\ status'[e] = "delivered" => status[e] = "delivered" \/ recorded(e) # {}
  BY <1>1, <1>5 DEF EventsOf, RowTypes, OfEvent
<1>8. RowTypes'
  <2>1. status' \in [Event -> Status]
    BY <1>1, <1>5 DEF RowTypes, Status
  <2>2. stale' \subseteq {e \in Event : status'[e] = "publishing"}
    <3>1. SUFFICES ASSUME NEW e \in stale' PROVE e \in Event /\ status'[e] = "publishing"
      OBVIOUS
    <3>2. e \in Event /\ status[e] = "publishing" /\ e \notin EventsOf(done \ HeldAt(w, "post"))
      BY <1>1, <1>5 DEF RowTypes
    <3>3. /\ e \notin EventsOf(done \cap HeldAt(w, "bury"))
          /\ e \notin EventsOf(done \cap HeldAt(w, "record"))
      BY <3>2 DEF EventsOf, HeldAt
    <3> QED
      BY <1>1, <3>2, <3>3
  <2>3. received' \in [Event -> Nat] /\ again' \in [Event -> Nat]
    <3>1. \A e \in Event : received'[e] \in Nat /\ again'[e] \in Nat
      <4> SUFFICES ASSUME NEW e \in Event PROVE received'[e] \in Nat /\ again'[e] \in Nat
        OBVIOUS
      <4>1. /\ received[e] \in Nat /\ again[e] \in Nat
            /\ Cardinality(accepted(e)) \in Nat /\ Cardinality(held(e)) \in Nat
            /\ received'[e] = received[e] + Cardinality(accepted(e))
            /\ again'[e] = again[e] + Cardinality(held(e))
        BY <1>6, Facts
      <4> HIDE DEF accepted, held
      <4> QED
        BY <4>1
    <3> QED
      BY <1>1, <3>1 DEF Count
  <2>4. faults' \in 0..MaxFaults
    BY <1>1, <1>5, RelayAssumption DEF Budget, RowTypes
  <2> QED
    BY <1>1, <1>5, <2>1, <2>2, <2>3, <2>4 DEF RowTypes, Status
<1>9. /\ RelayTypes' /\ relay'[w] = "sleep" /\ batch'[w] = {} /\ unsent'[w] = {}
      /\ \A v \in Worker \ {w} : /\ relay'[v] = relay[v]
                                 /\ batch'[v] = batch[v] /\ unsent'[v] = unsent[v]
  BY <1>1, <1>5, Rested
<1>10. \A e \in Event : Forward(e)
  <2> SUFFICES ASSUME NEW e \in Event PROVE Forward(e)
    OBVIOUS
  <2>1. /\ received[e] \in Nat /\ Cardinality(accepted(e)) \in Nat /\ tried[e] \in Nat
        /\ received'[e] = received[e] + Cardinality(accepted(e)) /\ tried' = tried /\ dead' = dead
    BY <1>1, <1>6, Facts
  <2> HIDE DEF accepted
  <2>2. received'[e] >= received[e] /\ tried'[e] >= tried[e]
    BY <2>1
  <2> QED
    BY <1>7, <2>1, <2>2 DEF Forward
<1>11. \A e \in Event : InBroker(e) => InBroker(e)'
  <2> SUFFICES ASSUME NEW e \in Event, NEW s \in Slot, EventOf(s) = e PROVE InBroker(e)'
    BY DEF InBroker
  <2>1. message'[s].event = e
    <3>1. CASE s \in Held(w)
      BY <1>4, <3>1 DEF Redelivered, EventOf
    <3>2. CASE s \notin Held(w)
      <4>1. ~(s = Lowest /\ copy # {})
        BY <1>4, RelayAssumption DEF Redelivered, EventOf, Free
      <4> QED
        BY <1>4, <3>2, <4>1 DEF Redelivered, EventOf
    <3> QED
      BY <3>1, <3>2
  <2> QED
    BY <2>1 DEF InBroker, EventOf
<1>12. \A e \in Event : Handled(e) => Handled(e)'
  <2> SUFFICES ASSUME NEW e \in Event, Handled(e) PROVE Handled(e)'
    OBVIOUS
  <2>1. received[e] \in Nat /\ received'[e] \in Nat /\ received'[e] >= received[e]
    BY <1>8, <1>10, Facts DEF Forward, RowTypes
  <2>2. received[e] > 0 => received'[e] > 0
    BY <2>1
  <2> QED
    BY <1>1, <1>11, <2>2 DEF Handled
<1>13. ASSUME NEW e \in Event PROVE PerEvent(e)'
  <2>1. /\ PerEvent(e) /\ Forward(e) /\ received[e] \in Nat /\ again[e] \in Nat
        /\ tried[e] \in Nat /\ tried' = tried /\ dead' = dead
        /\ received'[e] \in Nat /\ again'[e] \in Nat
    BY <1>1, <1>8, <1>10, Facts DEF RowTypes
  <2>2. ASSUME NEW s \in Held(w), EventOf(s) = e
        PROVE  /\ InBroker(e) /\ status[e] # "absent"
               /\ message[s].at = "record" => received[e] > 0
               /\ message[s].at = "bury" => e \in dead /\ (status[e] = "gone" \/ tried[e] >= MaxAttempts)
    <3>1. s \in Slot /\ message[s] # Free /\ message[s].event = e
      BY <2>2, RelayAssumption DEF Held, Free, EventOf
    <3>2. Warranted(message[s])
      BY <3>1, Facts
    <3> QED
      BY <3>1, <3>2 DEF InBroker, EventOf, Warranted
  <2>3. /\ failed(e) # {} => /\ InBroker(e) /\ status[e] # "absent" /\ e \in dead
                             /\ status[e] = "gone" \/ tried[e] >= MaxAttempts
        /\ recorded(e) # {} => InBroker(e) /\ status[e] # "absent" /\ received[e] > 0
        /\ accepted(e) # {} => status[e] # "absent"
    BY <1>3, <2>2 DEF HeldAt, OfEvent
  <2>4. status'[e] \in {"published", "delivered", "failed"} => Handled(e)'
    BY <1>7, <1>12, <2>1, <2>3 DEF PerEvent, Handled
  <2>5. status'[e] = "delivered" => received'[e] > 0
    <3>1. received[e] > 0 => received'[e] > 0
      BY <2>1 DEF Forward
    <3>2. status'[e] = "delivered" => status[e] = "delivered" \/ recorded(e) # {}
      BY <1>7
    <3> HIDE DEF recorded
    <3> QED
      BY <2>1, <2>3, <3>1, <3>2 DEF PerEvent
  <2>6. status'[e] = "failed" => e \in dead' /\ tried'[e] >= MaxAttempts
    BY <1>7, <2>1, <2>3 DEF PerEvent
  <2>7. status'[e] = "absent" => received'[e] = 0 /\ tried'[e] = 0
    BY <1>6, <1>7, <2>1, <2>3 DEF PerEvent
  <2>8. Counted(e)'
    <3>1. Unsent(e)' \subseteq Unsent(e)
      BY <1>9 DEF Unsent
    <3>2. Cardinality(Unsent(e)') <= Cardinality(Unsent(e)) /\ Cardinality(Unsent(e)') \in Nat
      <4>1. IsFiniteSet(Unsent(e)) /\ Unsent(e)' \in SUBSET Unsent(e)
        BY <3>1, Numbers
      <4> QED
        BY <4>1, FS_Subset, FS_CardinalityType
    <3>3. RowChance(e)' <= RowChance(e) + Bit(failed(e) # {}) /\ RowChance(e)' \in {0, 1}
      <4>1. CASE failed(e) # {}
        BY <4>1 DEF RowChance, Bit
      <4>2. CASE failed(e) = {}
        <5>1. RowChance(e)' <= RowChance(e) /\ RowChance(e) \in {0, 1} /\ RowChance(e)' \in {0, 1}
          <6>1. /\ status'[e] \in {status[e], "failed", "delivered"}
                /\ status'[e] = "failed" => status[e] = "failed"
            BY <1>7, <4>2
          <6> QED
            BY <6>1 DEF RowChance
        <5>2. Bit(failed(e) # {}) = 0
          BY <4>2 DEF Bit
        <5> QED
          BY <5>1, <5>2
      <4> QED
        BY <4>1, <4>2
    <3>4. /\ Cardinality(Live(e)) \in Nat /\ Cardinality(Unsent(e)) \in Nat
          /\ RowChance(e) \in {0, 1} /\ Bit(failed(e) # {}) \in {0, 1}
      BY Numbers DEF Bit
    <3>5. received[e] + Cardinality(Live(e)) + Cardinality(Unsent(e)) + RowChance(e) <= 1 + again[e]
      BY <2>1 DEF PerEvent, Counted
    <3>6. received'[e] + Cardinality(Live(e)') + Cardinality(Unsent(e)') + RowChance(e)'
             <= 1 + again'[e]
      <4> HIDE DEF accepted, failed, held
      <4> QED
        BY <1>6, <2>1, <3>2, <3>3, <3>4, <3>5
    <3> QED
      BY <3>6 DEF Counted
  <2>9. Limited(e)'
    <3>1. Cardinality(Unsent(e)') <= Cardinality(Unsent(e)) /\ Cardinality(Unsent(e)') \in Nat
      <4>1. IsFiniteSet(Unsent(e)) /\ Unsent(e)' \in SUBSET Unsent(e)
        BY <1>9, Numbers DEF Unsent
      <4> QED
        BY <4>1, FS_Subset, FS_CardinalityType
    <3>2. PICK k \in Nat : /\ k = Cardinality(held(e)) /\ again'[e] = again[e] + k
                           /\ Cardinality(Left(e)') \in Nat
                           /\ Cardinality(Left(e)') <= Cardinality(Left(e)) + MaxAttempts * k
      BY <1>3, <1>4, <1>6, CrashLeft
    <3>3. Cardinality(Left(e)) \in Nat /\ MaxAttempts * k \in Nat /\ Cardinality(Unsent(e)) \in Nat
      <4>1. MaxAttempts \in Nat
        BY RelayAssumption
      <4> QED
        BY <4>1, Numbers, Scale
    <3>4. tried'[e] + Cardinality(Left(e)') <= tried[e] + Cardinality(Left(e)) + MaxAttempts * k
      BY <2>1, <3>2, <3>3
    <3>5. /\ Bit(status'[e] = "pending") <= Bit(status[e] = "pending")
          /\ Bit(status'[e] = "pending") \in {0, 1} /\ Bit(status[e] = "pending") \in {0, 1}
      BY <1>7 DEF Bit
    <3>6. Cardinality(Unsent(e)') + Bit(status'[e] = "pending") + k + again[e]
             <= Cardinality(Unsent(e)) + Bit(status[e] = "pending") + again'[e]
      <4> HIDE DEF held
      <4> QED
        BY <2>1, <3>1, <3>2, <3>3, <3>5
    <3> QED
      BY <1>8, <3>1, <3>2, <3>4, <3>6, LimitedStays
  <2> QED
    BY <2>4, <2>5, <2>6, <2>7, <2>8, <2>9 DEF PerEvent
<1>14. ASSUME NEW t \in Slot PROVE Warranted(message[t])'
  <2>1. ASSUME NEW s \in Held(w), message'[t] # Free,
               message'[t].event = message[s].event, message'[t].at \in {"deliver", "retry"},
               \/ message'[t].attempt = message[s].attempt
               \/ message'[t].attempt = message[s].attempt + 1 /\ message[s].at = "post"
        PROVE  Warranted(message[t])'
    <3>1. PICK n \in Content : n = message'[t]
      BY <1>4 DEF Redelivered
    <3>2. PICK e \in Event : message[s].event = e
      BY <1>5, RelayAssumption, Contents DEF Held, Free
    <3>3. /\ message[s].attempt \in Nat /\ status[e] # "absent" /\ tried[e] \in Nat
          /\ message[s].attempt <= tried[e] + 1
          /\ message[s].at = "post" => message[s].attempt <= tried[e]
      <4>1. s \in Slot /\ message[s] # Free
        BY RelayAssumption DEF Held, Free
      <4> QED
        BY <3>2, <4>1, Facts, Contents DEF Warranted
    <3>4. status'[e] # "absent" /\ tried'[e] = tried[e]
      BY <1>1, <1>10, <3>3 DEF Forward
    <3> QED
      BY <2>1, <3>1, <3>2, <3>3, <3>4 DEF Warranted
  <2>2. CASE t \in Held(w)
    BY <1>4, <2>1, <2>2 DEF Redelivered
  <2>3. CASE t \notin Held(w) /\ t = Lowest /\ copy # {}
    BY <1>3, <1>4, <2>1, <2>3 DEF Redelivered
  <2>4. CASE t \notin Held(w) /\ ~(t = Lowest /\ copy # {})
    <3>1. PICK n \in Content : n = message[t] /\ n = message'[t]
      BY <1>4, <1>5, <2>4 DEF Redelivered
    <3>2. Warranted(n) /\ (n # Free => Forward(n.event))
      BY <1>10, <3>1, Facts, Contents
    <3>3. Warranted(n)'
      BY <1>8, <3>2, WarrantedStays
    <3> QED
      BY <3>1, <3>3 DEF Warranted
  <2> QED
    BY <2>2, <2>3, <2>4
<1>15. \A v \in Worker : PerWorker(v)'
  <2>1. \A v \in Worker : batch[v] \subseteq Event
    BY <1>5 DEF RelayTypes
  <2>2. \A v \in Worker \ {w} : PerWorker(v)'
    BY <1>9, <1>10, <1>12, <2>1, Facts, WorkerStays
  <2>3. PerWorker(w)'
    BY <1>9 DEF PerWorker
  <2> QED
    BY <2>2, <2>3
<1>16. message' \in [Slot -> Content]
  BY <1>4 DEF Redelivered
<1> QED
  BY <1>8, <1>9, <1>13, <1>14, <1>15, <1>16 DEF IInv

----------------------------------------------------------------------------
LEMMA InitKeeps == Init => IInv
<1> SUFFICES ASSUME Init PROVE IInv
  OBVIOUS
<1>1. RowTypes /\ RelayTypes
  BY RelayAssumption DEF Init, RowTypes, RelayTypes
<1>2. message \in [Slot -> Content] /\ \A s \in Slot : message[s] = Free
  BY DEF Init, Content
<1>3. ASSUME NEW e \in Event PROVE PerEvent(e)
  <2>1. Live(e) = {} /\ Left(e) = {} /\ Unsent(e) = {}
    BY <1>2, RelayAssumption DEF Init, Live, Left, Unsent, EventOf, Free
  <2>2. Cardinality(Live(e)) = 0 /\ Cardinality(Left(e)) = 0 /\ Cardinality(Unsent(e)) = 0
    BY <2>1, FS_EmptySet
  <2>3. status[e] = "absent" /\ received[e] = 0 /\ tried[e] = 0 /\ again[e] = 0
    BY DEF Init
  <2>4. 0 + 0 + MaxAttempts * (0 + 0) <= MaxAttempts * (1 + 0)
    BY RelayAssumption
  <2>5. Limited(e)
    BY <2>2, <2>3, <2>4 DEF Limited, Bit
  <2> QED
    BY <2>2, <2>3, <2>5 DEF PerEvent, Counted, RowChance
<1>4. \A s \in Slot : Warranted(message[s])
  BY <1>2 DEF Warranted
<1>5. \A w \in Worker : PerWorker(w)
  BY DEF Init, PerWorker
<1> QED
  BY <1>1, <1>2, <1>3, <1>4, <1>5 DEF IInv

LEMMA NextKeeps == IInv /\ [Next]_vars => IInv'
<1> SUFFICES ASSUME IInv, [Next]_vars PROVE IInv'
  OBVIOUS
<1>1. ASSUME NEW w \in Worker, RelayStep(w) PROVE IInv'
  BY <1>1, ReapKeeps, ClaimKeeps, TurnKeeps, StoreKeeps, BatchEndKeeps DEF RelayStep
<1>2. CASE Disturbance
  BY <1>2, TurnKeeps, CrashKeeps, GoneKeeps, CaughtKeeps, RowKeeps DEF Disturbance
<1>3. CASE UNCHANGED vars
  <2>1. \A e \in Event : SameRow(e) /\ SameMessages(e) /\ Unsent(e)' = Unsent(e)
    BY <1>3 DEF vars, rowVars, relayVars, brokerVars, history, SameRow, SameMessages, Unsent
  <2>2. \A e \in Event : PerEvent(e)' /\ Forward(e) /\ (Handled(e) => Handled(e)')
    BY <2>1, EventStays, SameRowGoesForward
  <2>3. RowTypes' /\ RelayTypes' /\ message' = message /\ message' \in [Slot -> Content]
    BY <1>3, Facts DEF vars, rowVars, relayVars, brokerVars, history, RowTypes, RelayTypes
  <2>4. ASSUME NEW t \in Slot PROVE Warranted(message[t])'
    <3>1. PICK n \in Content : n = message[t] /\ n = message'[t]
      BY <2>3, Facts
    <3>2. Warranted(n) /\ (n # Free => Forward(n.event))
      BY <2>2, <3>1, Facts, Contents
    <3>3. Warranted(n)'
      BY <2>3, <3>2, WarrantedStays
    <3> QED
      BY <3>1, <3>3 DEF Warranted
  <2>5. \A v \in Worker : PerWorker(v)'
    <3>1. \A v \in Worker : batch[v] \subseteq Event
      BY Facts DEF RelayTypes
    <3> QED
      BY <1>3, <2>2, <3>1, Facts, WorkerStays DEF vars, relayVars
  <2> QED
    BY <2>2, <2>3, <2>4, <2>5 DEF IInv
<1> QED
  BY <1>1, <1>2, <1>3, RowKeeps, ConsumerKeeps, DeliveryKeeps DEF Next

(* Whatever faults occur, every reachable state of the relays, the broker  *)
(* and the consumers satisfies the invariant.                              *)
THEOREM Inductive == Spec => []IInv
  BY InitKeeps, NextKeeps, PTL DEF Spec

(* Rows, relays and messages have the types their columns, variables and   *)
(* headers have; the attempts a message counts stay within MAX_ATTEMPTS,   *)
(* and a worker holds exactly the messages its handlers are working on.    *)
THEOREM TypeCorrect == Spec => []TypeOK
<1>1. IInv => TypeOK
  <2> SUFFICES ASSUME IInv PROVE TypeOK
    OBVIOUS
  <2>1. ASSUME NEW s \in Slot
        PROVE  \/ message[s] = Free
               \/ /\ message[s].event \in Event
                  /\ message[s].attempt \in 1..MaxAttempts
                  /\ \/ message[s].at \in Carried /\ message[s].by \in Worker
                     \/ message[s].at \in Place \ Carried /\ message[s].by = "none"
    BY Facts DEF Content, Message, Working, Queued
  <2> QED
    BY <2>1, Facts DEF TypeOK, RowTypes, RelayTypes
<1> QED
  BY <1>1, Inductive, PTL

(* An event the relay will not look at again is in the broker, or was      *)
(* received, or is in the dead queue, or was thrown away by a consumer     *)
(* whose statement failed: published after the confirm, it cannot be lost  *)
(* between the database and RabbitMQ, whatever crashes or fails.           *)
THEOREM NothingIsEverLost == Spec => []NothingIsLost
<1>1. IInv => NothingIsLost
  BY Facts DEF NothingIsLost, PerEvent, Handled
<1> QED
  BY <1>1, Inductive, PTL

(* The endpoint accepts an event more than once only for a reason, once    *)
(* for each: it was published again, an answer was not heard or not        *)
(* recorded, or a message was redelivered.                                 *)
THEOREM ReceivedAtMostOnce == Spec => []ReceivedOnce
<1>1. IInv => ReceivedOnce
  <2> SUFFICES ASSUME IInv, NEW e \in Event PROVE received[e] <= 1 + again[e]
    BY DEF ReceivedOnce
  <2>1. /\ received[e] \in Nat /\ again[e] \in Nat
        /\ received[e] + Cardinality(Live(e)) + Cardinality(Unsent(e)) + RowChance(e)
              <= 1 + again[e]
    BY Facts DEF PerEvent, Counted
  <2>2. /\ Cardinality(Live(e)) \in Nat /\ Cardinality(Unsent(e)) \in Nat
        /\ RowChance(e) \in {0, 1}
    BY Numbers
  <2> QED
    BY <2>1, <2>2
<1> QED
  BY <1>1, Inductive, PTL

(* A row that says 'failed' belongs to a dead letter that was POSTed       *)
(* MAX_ATTEMPTS times and not once accepted, but for acceptances with a    *)
(* reason.                                                                 *)
THEOREM FailedAlwaysMeansRefused == Spec => []FailedMeansRefused
<1>1. IInv => FailedMeansRefused
  <2> SUFFICES ASSUME IInv, NEW e \in Event, status[e] = "failed"
               PROVE  e \in dead /\ tried[e] >= MaxAttempts /\ received[e] <= again[e]
    BY DEF FailedMeansRefused
  <2>1. /\ PerEvent(e) /\ received[e] \in Nat /\ again[e] \in Nat
        /\ received[e] + Cardinality(Live(e)) + Cardinality(Unsent(e)) + RowChance(e)
              <= 1 + again[e]
    BY Facts DEF PerEvent, Counted
  <2>2. /\ Cardinality(Live(e)) \in Nat /\ Cardinality(Unsent(e)) \in Nat
        /\ RowChance(e) = 1
    BY Numbers DEF RowChance
  <2>3. received[e] <= again[e]
    BY <2>1, <2>2
  <2> QED
    BY <2>1, <2>3 DEF PerEvent
<1> QED
  BY <1>1, Inductive, PTL

(* An event is POSTed MAX_ATTEMPTS times at most, and as many times again  *)
(* for each reason to send it again: every message counts its attempts     *)
(* from one, and there is one message for the claim of a pending row.      *)
THEOREM TriedAlwaysWithinLimit == Spec => []TriedWithinLimit
<1>1. IInv => TriedWithinLimit
  <2> SUFFICES ASSUME IInv, NEW e \in Event PROVE tried[e] <= MaxAttempts * (1 + again[e])
    BY DEF TriedWithinLimit
  <2> DEFINE u == Cardinality(Unsent(e)) + Bit(status[e] = "pending")
  <2>1. /\ tried[e] \in Nat /\ again[e] \in Nat /\ MaxAttempts \in Nat
        /\ tried[e] + Cardinality(Left(e)) + MaxAttempts * u <= MaxAttempts * (1 + again[e])
    BY Facts DEF PerEvent, Limited
  <2>2. Cardinality(Left(e)) \in Nat /\ u \in Nat
    BY Numbers DEF Bit
  <2>3. MaxAttempts * u \in Nat /\ MaxAttempts * (1 + again[e]) \in Nat
    <3> HIDE DEF u
    <3> QED
      BY <2>1, <2>2, Scale
  <2> DEFINE n == MaxAttempts * u
             m == MaxAttempts * (1 + again[e])
  <2>4. n \in Nat /\ m \in Nat /\ tried[e] + Cardinality(Left(e)) + n <= m
    BY <2>1, <2>3
  <2>5. tried[e] <= m
    <3> HIDE DEF n, m
    <3> QED
      BY <2>1, <2>2, <2>4
  <2> QED
    BY <2>5
<1> QED
  BY <1>1, Inductive, PTL

(* A settled event is unsettled only by a relay that still holds it, or    *)
(* for a reason: without either, nothing of it is left in the broker that  *)
(* could write another status.                                             *)
THEOREM SettledStaysSettled == Spec => SettledUnlessHeld
<1> DEFINE Kept == \A e \in Event : status[e] \in {"delivered", "failed"} =>
                      \/ status'[e] \in {status[e], "gone"}
                      \/ \E w \in Worker : e \in batch[w]
                      \/ again[e] > 0
<1>1. IInv /\ [Next]_vars => Kept
  <2> SUFFICES ASSUME IInv, [Next]_vars, NEW e \in Event, status[e] \in {"delivered", "failed"},
                      \A w \in Worker : e \notin batch[w], ~(again[e] > 0)
               PROVE  status'[e] \in {status[e], "gone"}
    OBVIOUS
  <2>1. /\ RowTypes /\ RelayTypes /\ message \in [Slot -> Content] /\ PerEvent(e)
        /\ received[e] \in Nat /\ again[e] = 0
    BY Facts
  <2>2. /\ Live(e) = {}
        /\ status[e] = "failed" => received[e] = 0
    <3>1. /\ Cardinality(Live(e)) \in Nat /\ Cardinality(Unsent(e)) \in Nat
          /\ RowChance(e) \in {0, 1} /\ IsFiniteSet(Live(e))
          /\ received[e] + Cardinality(Live(e)) + Cardinality(Unsent(e)) + RowChance(e) <= 1
      BY <2>1, Numbers DEF PerEvent, Counted
    <3>2. /\ status[e] = "failed" => RowChance(e) = 1
          /\ status[e] = "delivered" => received[e] > 0
      BY <2>1 DEF RowChance, PerEvent
    <3>3. Cardinality(Live(e)) = 0 /\ (status[e] = "failed" => received[e] = 0)
      BY <2>1, <3>1, <3>2
    <3> QED
      BY <3>1, <3>3, FS_EmptySet
  <2>3. ASSUME NEW s \in Slot, EventOf(s) = e
        PROVE  message[s].at = "record" /\ status[e] = "delivered"
    <3>1. message[s].at = "record"
      BY <2>2, <2>3 DEF Live
    <3>2. received[e] > 0
      BY <2>3, <3>1, Facts, RelayAssumption DEF EventOf, Warranted, Free
    <3> QED
      BY <2>1, <2>2, <3>1, <3>2
  <2>4. ASSUME NEW S, NEW new, Update(S, new), e \in S => new = status[e]
        PROVE  status'[e] = status[e]
    BY <2>1, <2>4 DEF Update
  <2>5. ASSUME NEW w \in Worker, RelayStep(w) PROVE status'[e] = status[e]
    <3>1. CASE Reap(w) \/ Claim(w)
      BY <2>4, <3>1 DEF Reap, Claim, ClaimFrom
    <3>2. CASE MarkPublished(w) \/ ResetToPending(w)
      BY <2>4, <3>2 DEF MarkPublished, ResetToPending
    <3>3. CASE Confirm(w) \/ \E f \in Event : Store(w, f)
      BY <3>3 DEF Confirm, Store, rowVars
    <3> QED
      BY <2>5, <3>1, <3>2, <3>3 DEF RelayStep
  <2>6. ASSUME NEW s \in Slot, ConsumerStep(s) \/ Delivery(s) \/ Discard(s)
                                  \/ MarkDeliveredFails(s) \/ Unheard(s)
        PROVE  status'[e] = status[e]
    <3>1. CASE MarkDelivered(s)
      BY <2>3, <2>4, <3>1 DEF MarkDelivered
    <3>2. CASE MarkFailed(s)
      <4>1. Update({EventOf(s)}, "failed") /\ message[s].at = "bury"
        BY <3>2 DEF MarkFailed
      <4> QED
        BY <2>3, <2>4, <4>1
    <3>3. CASE MarkDeliveredFails(s)
      BY <2>3, <2>4, <3>3 DEF MarkDeliveredFails, rowVars
    <3>4. CASE Post(s) \/ NoEndpoint(s) \/ Refused(s) \/ Accepted(s) \/ Discard(s) \/ Unheard(s)
                 \/ Expire(s) \/ \E w \in Worker : Consume(w, s)
      BY <3>4 DEF Post, NoEndpoint, Refused, Accepted, Discard, Unheard, Expire, Consume, rowVars
    <3> QED
      BY <2>6, <3>1, <3>2, <3>3, <3>4 DEF ConsumerStep, Delivery
  <2>7. ASSUME NEW w \in Worker, ConfirmLost(w) \/ RelayDbError(w) \/ Crash(w)
        PROVE  status'[e] = status[e]
    <3>1. CASE Crash(w)
      <4>1. PICK done : status'[e] =
              IF status[e] = "gone" THEN "gone"
              ELSE IF e \in EventsOf(done \cap HeldAt(w, "bury")) THEN "failed"
              ELSE IF e \in EventsOf(done \cap HeldAt(w, "record")) THEN "delivered"
              ELSE status[e]
        BY <3>1 DEF Crash
      <4>2. e \notin EventsOf(done \cap HeldAt(w, "bury"))
        BY <2>3 DEF EventsOf, HeldAt, Held
      <4>3. e \in EventsOf(done \cap HeldAt(w, "record")) => status[e] = "delivered"
        BY <2>3 DEF EventsOf, HeldAt, Held
      <4> QED
        BY <4>1, <4>2, <4>3
    <3>2. CASE ConfirmLost(w) \/ RelayDbError(w)
      BY <3>2 DEF ConfirmLost, RelayDbError, rowVars
    <3> QED
      BY <2>7, <3>1, <3>2
  <2>8. ASSUME NEW f \in Event, Emit(f) \/ GrowStale(f) \/ EndpointDeleted(f)
        PROVE  status'[e] \in {status[e], "gone"}
    BY <2>1, <2>8 DEF Emit, GrowStale, EndpointDeleted, RowTypes
  <2>9. CASE UNCHANGED vars
    BY <2>9 DEF vars, rowVars
  <2> QED
    BY <2>5, <2>6, <2>7, <2>8, <2>9 DEF Next, Disturbance
<1>2. SettledUnlessHeld <=> [][Kept]_vars
  BY PTL DEF SettledUnlessHeld
<1> QED
  BY <1>1, <1>2, Inductive, PTL DEF Spec

=============================================================================
