------------------------- MODULE WalletStoreProofs -------------------------
(***************************************************************************)
(* What the statements of WalletStore preserve, for whichever services run *)
(* them: the types, row locks that exclude each other, and pending writes  *)
(* that are under a write lock and within what the table allows.  And what *)
(* is known of the sums in which the services' money is counted.           *)
(***************************************************************************)
EXTENDS WalletStore, FiniteSetsExt, FiniteSetTheorems, TLAPS

LocksExclude ==
    \A t, u \in Txn, w \in Wallet, m, n \in LockMode :
        <<t, w, m>> \in locks /\ <<u, w, n>> \in locks /\ t # u => Compatible(m, n)

(* Transaction t is the one that may write to wallet w. *)
WriteLocked(t, w) ==
    <<t, w, "noKeyUpdate">> \in locks \/ <<t, w, "update">> \in locks

(* A balance is changed under the row's lock, and never to what the CHECK  *)
(* or the BIGINT forbids.                                                  *)
GuardedWrites ==
    \A t \in Txn, w \in Wallet :
        /\ dBalance[t][w] # 0 => WriteLocked(t, w)
        /\ balance[w] + dBalance[t][w] \in 0..MaxBalance

StoreInv == StoreTypeOK /\ LocksExclude /\ GuardedWrites

(* What a transaction has pending when it changed wallet w alone. *)
Only(w, n) == [x \in Wallet |-> IF x = w THEN n ELSE 0]

----------------------------------------------------------------------------
(* Nobody but t has its pending writes touched. *)
OthersPending(t) ==
    \A u \in Txn \ {t} : /\ dBalance'[u] = dBalance[u]
                         /\ dVersion'[u] = dVersion[u]
                         /\ dNet'[u] = dNet[u]

(* Every statement writes for its own transaction only.                    *)
LEMMA OwnWrites ==
    ASSUME StoreInv, NEW t \in Txn,
           \/ UNCHANGED storeVars
           \/ \E w, amount : AddEntry(t, w, amount)
           \/ \E w, delta : ApplyDelta(t, w, delta)
           \/ \E w, amount : LockAndPost(t, w, amount)
           \/ \E w, delta, expected, updated :
                  ApplyDeltaIfVersion(t, w, delta, expected, updated)
           \/ CommitTxn(t)
           \/ RollbackTxn(t)
    PROVE  OthersPending(t)
<1>1. /\ dBalance \in [Txn -> [Wallet -> Int]]
      /\ dVersion \in [Txn -> [Wallet -> Nat]]
      /\ dNet \in [Txn -> [Wallet -> Int]]
  BY DEF StoreInv, StoreTypeOK
<1> USE <1>1 DEF OthersPending
<1>2. CASE UNCHANGED storeVars
  BY <1>2 DEF storeVars
<1>3. ASSUME NEW w, NEW amount, AddEntry(t, w, amount) PROVE OthersPending(t)
  BY <1>3 DEF AddEntry
<1>4. ASSUME NEW w, NEW delta, ApplyDelta(t, w, delta) PROVE OthersPending(t)
  BY <1>4 DEF ApplyDelta
<1>5. ASSUME NEW w, NEW amount, LockAndPost(t, w, amount) PROVE OthersPending(t)
  BY <1>5 DEF LockAndPost
<1>6. ASSUME NEW w, NEW delta, NEW expected, NEW updated,
             ApplyDeltaIfVersion(t, w, delta, expected, updated)
      PROVE  OthersPending(t)
  BY <1>6 DEF ApplyDeltaIfVersion, UpdateMatched, UpdateMissed, pendingVars
<1>7. CASE CommitTxn(t)
  BY <1>7 DEF CommitTxn, Closed
<1>8. CASE RollbackTxn(t)
  BY <1>8 DEF RollbackTxn, Closed
<1> QED
  BY <1>2, <1>3, <1>4, <1>5, <1>6, <1>7, <1>8

(* A lock is granted only beside compatible ones.                          *)
LEMMA LockExcludes ==
    ASSUME StoreInv, NEW t \in Txn, NEW w \in Wallet, NEW m \in LockMode,
           Lock(t, w, m)
    PROVE  /\ locks' \subseteq Txn \X Wallet \X LockMode
           /\ LocksExclude'
           /\ locks \subseteq locks'
           /\ <<t, w, m>> \in locks'
<1>1. locks' = locks \cup {<<t, w, m>>}
  BY DEF Lock
<1>2. \A u \in Txn \ {t}, n \in LockMode : <<u, w, n>> \in locks => Compatible(m, n)
  BY DEF Lock, Grantable, Blockers
<1>3. \A n, k : Compatible(n, k) = Compatible(k, n)
  BY DEF Compatible
<1>4. LocksExclude'
  <2> SUFFICES ASSUME NEW a \in Txn, NEW b \in Txn, NEW x \in Wallet,
                      NEW p \in LockMode, NEW q \in LockMode,
                      <<a, x, p>> \in locks', <<b, x, q>> \in locks', a # b
               PROVE  Compatible(p, q)
    BY DEF LocksExclude
  <2>1. CASE <<a, x, p>> \in locks /\ <<b, x, q>> \in locks
    BY <2>1 DEF StoreInv, LocksExclude
  <2>2. CASE <<a, x, p>> = <<t, w, m>>
    BY <2>2, <1>1, <1>2
  <2>3. CASE <<b, x, q>> = <<t, w, m>>
    BY <2>3, <1>1, <1>2, <1>3
  <2> QED
    BY <2>1, <2>2, <2>3, <1>1
<1> QED
  BY <1>1, <1>4 DEF StoreInv, StoreTypeOK

(* A ledger entry leaves balances alone.                                   *)
LEMMA AddEntryKeeps ==
    ASSUME StoreInv, NEW t \in Txn, NEW w \in Wallet, NEW amount \in Int,
           AddEntry(t, w, amount)
    PROVE  /\ StoreInv'
           /\ OthersPending(t)
           /\ dNet'[t] = [dNet[t] EXCEPT ![w] = @ + amount]
           /\ UNCHANGED <<committedVars, dBalance, dVersion>>
<1>1. Lock(t, w, "keyShare") /\ UNCHANGED <<committedVars, dBalance, dVersion>>
  BY DEF AddEntry
<1>2. /\ locks' \subseteq Txn \X Wallet \X LockMode
      /\ LocksExclude'
      /\ locks \subseteq locks'
  BY <1>1, LockExcludes DEF LockMode
<1>3. dNet' = [dNet EXCEPT ![t][w] = @ + amount] /\ dNet \in [Txn -> [Wallet -> Int]]
  BY DEF AddEntry, StoreInv, StoreTypeOK
<1>4. dNet' \in [Txn -> [Wallet -> Int]] /\ dNet'[t] = [dNet[t] EXCEPT ![w] = @ + amount]
  BY <1>3
<1>5. StoreTypeOK' /\ GuardedWrites'
  BY <1>1, <1>2, <1>4 DEF StoreInv, StoreTypeOK, GuardedWrites, WriteLocked,
     committedVars
<1> QED
  BY <1>1, <1>2, <1>3, <1>4, <1>5 DEF StoreInv, OthersPending

(* A change of one balance under a write lock.                             *)
LEMMA WriteKeeps ==
    ASSUME StoreInv, NEW t \in Txn, NEW w \in Wallet, NEW delta \in Int,
           NEW m \in {"noKeyUpdate", "update"}, Lock(t, w, m), InRange(t, w, delta),
           dBalance' = [dBalance EXCEPT ![t][w] = @ + delta],
           UNCHANGED committedVars
    PROVE  /\ LocksExclude' /\ GuardedWrites'
           /\ locks' \subseteq Txn \X Wallet \X LockMode
           /\ dBalance' \in [Txn -> [Wallet -> Int]]
           /\ \A u \in Txn \ {t} : dBalance'[u] = dBalance[u]
           /\ dBalance'[t] = [dBalance[t] EXCEPT ![w] = @ + delta]
<1>1. /\ locks' \subseteq Txn \X Wallet \X LockMode
      /\ LocksExclude'
      /\ locks \subseteq locks'
      /\ <<t, w, m>> \in locks'
  BY LockExcludes DEF LockMode
<1>2. dBalance \in [Txn -> [Wallet -> Int]]
  BY DEF StoreInv, StoreTypeOK
<1>3. /\ dBalance' \in [Txn -> [Wallet -> Int]]
      /\ dBalance'[t] = [dBalance[t] EXCEPT ![w] = @ + delta]
      /\ dBalance'[t][w] = dBalance[t][w] + delta
      /\ \A u \in Txn, x \in Wallet : <<u, x>> # <<t, w>> =>
            dBalance'[u][x] = dBalance[u][x]
      /\ \A u \in Txn \ {t} : dBalance'[u] = dBalance[u]
  BY <1>2
<1>4. balance[w] + dBalance'[t][w] \in 0..MaxBalance
  BY <1>2, <1>3 DEF InRange, StoreInv, StoreTypeOK
<1>5. GuardedWrites'
  <2> SUFFICES ASSUME NEW u \in Txn, NEW x \in Wallet
               PROVE  /\ dBalance'[u][x] # 0 => WriteLocked(u, x)'
                      /\ balance'[x] + dBalance'[u][x] \in 0..MaxBalance
    BY DEF GuardedWrites
  <2>1. balance' = balance
    BY DEF committedVars
  <2>2. CASE <<u, x>> = <<t, w>>
    BY <1>1, <1>4, <2>1, <2>2 DEF WriteLocked
  <2>3. CASE <<u, x>> # <<t, w>>
    BY <1>1, <1>3, <2>1, <2>3 DEF StoreInv, GuardedWrites, WriteLocked
  <2> QED
    BY <2>2, <2>3
<1> QED
  BY <1>1, <1>3, <1>5

(* applyDelta leaves the version and the ledger alone.                     *)
LEMMA ApplyDeltaKeeps ==
    ASSUME StoreInv, NEW t \in Txn, NEW w \in Wallet, NEW delta \in Int,
           ApplyDelta(t, w, delta)
    PROVE  /\ StoreInv'
           /\ OthersPending(t)
           /\ dBalance'[t] = [dBalance[t] EXCEPT ![w] = @ + delta]
           /\ UNCHANGED <<committedVars, dVersion, dNet>>
  BY WriteKeeps DEF ApplyDelta, StoreInv, StoreTypeOK, OthersPending, committedVars

(* A sweep or a reversal moves the balance and the ledger together.        *)
LEMMA LockAndPostKeeps ==
    ASSUME StoreInv, NEW t \in Txn, NEW w \in Wallet, NEW amount \in Int,
           LockAndPost(t, w, amount)
    PROVE  /\ StoreInv'
           /\ OthersPending(t)
           /\ dBalance'[t] = [dBalance[t] EXCEPT ![w] = @ + amount]
           /\ dNet'[t] = [dNet[t] EXCEPT ![w] = @ + amount]
           /\ UNCHANGED <<committedVars, dVersion>>
<1>1. /\ Lock(t, w, "update") /\ InRange(t, w, amount)
      /\ dBalance' = [dBalance EXCEPT ![t][w] = @ + amount]
      /\ dNet' = [dNet EXCEPT ![t][w] = @ + amount]
      /\ UNCHANGED <<committedVars, dVersion>>
  BY DEF LockAndPost
<1>2. /\ dNet' \in [Txn -> [Wallet -> Int]]
      /\ dNet'[t] = [dNet[t] EXCEPT ![w] = @ + amount]
      /\ \A u \in Txn \ {t} : dNet'[u] = dNet[u]
  BY <1>1 DEF StoreInv, StoreTypeOK
<1> QED
  BY <1>1, <1>2, WriteKeeps DEF StoreInv, StoreTypeOK, OthersPending, committedVars

(* A conditional update that matched changes the row under its lock.       *)
LEMMA MatchedKeeps ==
    ASSUME StoreInv, NEW t \in Txn, NEW w \in Wallet, NEW delta \in Int,
           NEW expected, UpdateMatched(t, w, delta, expected)
    PROVE  /\ StoreInv'
           /\ OthersPending(t)
           /\ dBalance'[t] = [dBalance[t] EXCEPT ![w] = @ + delta]
           /\ dVersion'[t] = [dVersion[t] EXCEPT ![w] = @ + 1]
           /\ UNCHANGED <<committedVars, dNet>>
<1>1. /\ Lock(t, w, "noKeyUpdate") /\ InRange(t, w, delta)
      /\ dBalance' = [dBalance EXCEPT ![t][w] = @ + delta]
      /\ dVersion' = [dVersion EXCEPT ![t][w] = @ + 1]
      /\ UNCHANGED <<committedVars, dNet>>
  BY DEF UpdateMatched
<1>2. /\ dVersion' \in [Txn -> [Wallet -> Nat]]
      /\ dVersion'[t] = [dVersion[t] EXCEPT ![w] = @ + 1]
      /\ \A u \in Txn \ {t} : dVersion'[u] = dVersion[u]
  BY <1>1 DEF StoreInv, StoreTypeOK
<1> QED
  BY <1>1, <1>2, WriteKeeps DEF StoreInv, StoreTypeOK, OthersPending, committedVars

(* One that missed changes at most the locks.                              *)
LEMMA MissedKeeps ==
    ASSUME StoreInv, NEW t \in Txn, NEW w \in Wallet, NEW expected,
           UpdateMissed(t, w, expected)
    PROVE  /\ StoreInv'
           /\ UNCHANGED <<committedVars, pendingVars>>
<1>1. UNCHANGED <<committedVars, pendingVars>>
  BY DEF UpdateMissed
<1>2. /\ locks' \subseteq Txn \X Wallet \X LockMode
      /\ LocksExclude'
      /\ locks \subseteq locks'
  <2>1. CASE Lock(t, w, "noKeyUpdate")
    BY <2>1, LockExcludes DEF LockMode
  <2>2. CASE UNCHANGED locks
    BY <2>2 DEF StoreInv, StoreTypeOK, LocksExclude
  <2> QED
    BY <2>1, <2>2 DEF UpdateMissed
<1> QED
  BY <1>1, <1>2 DEF StoreInv, StoreTypeOK, GuardedWrites, WriteLocked, committedVars,
     pendingVars

(* The end of a transaction releases its locks and its pending writes.     *)
LEMMA ClosedKeeps ==
    ASSUME StoreInv, NEW t \in Txn, Closed(t)
    PROVE  /\ OthersPending(t)
           /\ dBalance'[t] = Nothing /\ dVersion'[t] = Nothing /\ dNet'[t] = Nothing
           /\ dBalance' \in [Txn -> [Wallet -> Int]]
           /\ dVersion' \in [Txn -> [Wallet -> Nat]]
           /\ dNet' \in [Txn -> [Wallet -> Int]]
           /\ locks' \subseteq locks
           /\ \A u \in Txn \ {t}, w \in Wallet, m \in LockMode :
                 <<u, w, m>> \in locks => <<u, w, m>> \in locks'
           /\ LocksExclude'
<1>1. Nothing \in [Wallet -> Int] /\ Nothing \in [Wallet -> Nat]
  BY DEF Nothing
<1>2. locks' = {l \in locks : l[1] # t}
  BY DEF Closed
<1>3. LocksExclude'
  BY <1>2 DEF StoreInv, LocksExclude
<1> QED
  BY <1>1, <1>2, <1>3 DEF Closed, StoreInv, StoreTypeOK, OthersPending

LEMMA RollbackKeeps ==
    ASSUME StoreInv, NEW t \in Txn, RollbackTxn(t)
    PROVE  /\ StoreInv'
           /\ OthersPending(t)
           /\ dBalance'[t] = Nothing /\ dVersion'[t] = Nothing /\ dNet'[t] = Nothing
           /\ UNCHANGED committedVars
<1>1. Closed(t) /\ UNCHANGED committedVars
  BY DEF RollbackTxn
<1>2. StoreTypeOK'
  BY <1>1, ClosedKeeps DEF StoreInv, StoreTypeOK, committedVars
<1>3. GuardedWrites'
  <2> SUFFICES ASSUME NEW u \in Txn, NEW x \in Wallet
               PROVE  /\ dBalance'[u][x] # 0 => WriteLocked(u, x)'
                      /\ balance'[x] + dBalance'[u][x] \in 0..MaxBalance
    BY DEF GuardedWrites
  <2>1. balance' = balance /\ balance[x] \in 0..MaxBalance
    BY <1>1 DEF committedVars, StoreInv, StoreTypeOK
  <2>2. CASE u = t
    BY <1>1, <2>1, <2>2, ClosedKeeps, StoreAssumption DEF Nothing
  <2>3. CASE u # t
    <3>1. dBalance'[u] = dBalance[u] /\ (WriteLocked(u, x) => WriteLocked(u, x)')
      BY <1>1, <2>3, ClosedKeeps DEF StoreInv, WriteLocked, OthersPending, LockMode
    <3> QED
      BY <2>1, <3>1 DEF StoreInv, GuardedWrites
  <2> QED
    BY <2>2, <2>3
<1> QED
  BY <1>1, <1>2, <1>3, ClosedKeeps DEF StoreInv

(* COMMIT adds the pending writes to rows nobody else has written.         *)
LEMMA CommitKeeps ==
    ASSUME StoreInv, NEW t \in Txn, CommitTxn(t)
    PROVE  /\ StoreInv'
           /\ OthersPending(t)
           /\ dBalance'[t] = Nothing /\ dVersion'[t] = Nothing /\ dNet'[t] = Nothing
           /\ balance' = [w \in Wallet |-> balance[w] + dBalance[t][w]]
           /\ net' = [w \in Wallet |-> net[w] + dNet[t][w]]
<1>1. Closed(t)
  BY DEF CommitTxn
<1>2. \A w \in Wallet : /\ balance'[w] = balance[w] + dBalance[t][w]
                        /\ version'[w] = version[w] + dVersion[t][w]
                        /\ net'[w] = net[w] + dNet[t][w]
  BY DEF CommitTxn
<1>3. StoreTypeOK'
  <2>1. \A w \in Wallet : balance[w] + dBalance[t][w] \in 0..MaxBalance
    BY DEF StoreInv, GuardedWrites
  <2>3. \A w \in Wallet : version[w] + dVersion[t][w] \in Nat
    BY DEF StoreInv, StoreTypeOK
  <2>4. \A w \in Wallet : net[w] + dNet[t][w] \in Int
    BY DEF StoreInv, StoreTypeOK
  <2>2. /\ balance' \in [Wallet -> 0..MaxBalance]
        /\ version' \in [Wallet -> Nat]
        /\ net' \in [Wallet -> Int]
    BY <2>1, <2>3, <2>4 DEF CommitTxn
  <2> QED
    BY <1>1, <2>2, ClosedKeeps DEF StoreInv, StoreTypeOK
<1>4. GuardedWrites'
  <2> SUFFICES ASSUME NEW u \in Txn, NEW x \in Wallet
               PROVE  /\ dBalance'[u][x] # 0 => WriteLocked(u, x)'
                      /\ balance'[x] + dBalance'[u][x] \in 0..MaxBalance
    BY DEF GuardedWrites
  <2>1. balance'[x] = balance[x] + dBalance[t][x] /\ balance'[x] \in 0..MaxBalance
    BY <1>2, <1>3 DEF StoreTypeOK
  <2>2. CASE u = t
    BY <1>1, <2>1, <2>2, ClosedKeeps, StoreAssumption DEF Nothing
  <2>3. CASE u # t /\ dBalance[u][x] # 0
    <3>1. WriteLocked(u, x)
      BY <2>3 DEF StoreInv, GuardedWrites
    <3>2. \A m, n \in {"noKeyUpdate", "update"} : m \in LockMode /\ ~Compatible(m, n)
      BY DEF Compatible, LockMode
    <3>3. ~WriteLocked(t, x)
      BY <2>3, <3>1, <3>2 DEF StoreInv, LocksExclude, WriteLocked
    <3>4. dBalance[t][x] = 0
      BY <3>3 DEF StoreInv, GuardedWrites
    <3>5. balance'[x] = balance[x]
      BY <2>1, <3>4 DEF StoreInv, StoreTypeOK
    <3>6. WriteLocked(u, x)'
      BY <1>1, <2>3, <3>1, <3>2, ClosedKeeps DEF WriteLocked
    <3> QED
      BY <1>1, <2>3, <3>5, <3>6, ClosedKeeps DEF StoreInv, GuardedWrites, OthersPending
  <2>4. CASE u # t /\ dBalance[u][x] = 0
    BY <1>1, <2>1, <2>4, ClosedKeeps, StoreAssumption DEF OthersPending
  <2> QED
    BY <2>2, <2>3, <2>4
<1> QED
  BY <1>1, <1>3, <1>4, ClosedKeeps DEF StoreInv, CommitTxn

(* A writer that bumps the version with the balance keeps the promise of   *)
(* migration 0003: the same version, the same balance.                     *)
LEMMA VersionedCommit ==
    ASSUME StoreInv, NEW t \in Txn, CommitTxn(t),
           \A w \in Wallet : dBalance[t][w] # 0 => dVersion[t][w] > 0
    PROVE  \A w \in Wallet : /\ version'[w] >= version[w]
                             /\ version'[w] = version[w] => balance'[w] = balance[w]
<1> SUFFICES ASSUME NEW w \in Wallet
             PROVE  /\ version'[w] >= version[w]
                    /\ version'[w] = version[w] => balance'[w] = balance[w]
  OBVIOUS
<1>1. /\ balance'[w] = balance[w] + dBalance[t][w]
      /\ version'[w] = version[w] + dVersion[t][w]
  BY DEF CommitTxn
<1>2. /\ balance[w] \in Int /\ version[w] \in Nat
      /\ dBalance[t][w] \in Int /\ dVersion[t][w] \in Nat
  BY StoreAssumption DEF StoreInv, StoreTypeOK
<1> QED
  BY <1>1, <1>2

(* Balance and ledger move together when a transaction wrote both.         *)
LEMMA CommitBalances ==
    ASSUME BooksBalance, NEW t \in Txn, CommitTxn(t), dBalance[t] = dNet[t]
    PROVE  BooksBalance'
  BY DEF CommitTxn, BooksBalance

LEMMA StoreInitKeeps == StoreInit => StoreInv /\ BooksBalance
<1> SUFFICES ASSUME StoreInit PROVE StoreInv /\ BooksBalance
  OBVIOUS
<1> USE DEF StoreInit
<1>1. Nothing \in [Wallet -> Int] /\ Nothing \in [Wallet -> Nat]
  BY DEF Nothing
<1>2. Funds \in [Wallet -> 0..MaxBalance] /\ Funds \in [Wallet -> Int]
  BY StoreAssumption
<1>3. StoreTypeOK /\ LocksExclude /\ BooksBalance
  BY <1>1, <1>2 DEF StoreTypeOK, LocksExclude, BooksBalance
<1>4. GuardedWrites
  <2>1. \A t \in Txn, w \in Wallet : dBalance[t][w] = 0 /\ balance[w] \in 0..MaxBalance
    BY <1>2 DEF Nothing
  <2> QED
    BY <2>1, StoreAssumption DEF GuardedWrites
<1> QED
  BY <1>3, <1>4 DEF StoreInv

(* A step of something else keeps what is known of the store.              *)
LEMMA StoreUnchanged ==
    ASSUME StoreInv, UNCHANGED storeVars
    PROVE  StoreInv'
  BY DEF storeVars, StoreInv, StoreTypeOK, LocksExclude, GuardedWrites, WriteLocked

----------------------------------------------------------------------------
(* Sums of money over requests or payouts. *)

(* How the community modules sum f over the parts of S: an element at a    *)
(* time, in an order that is left open.                                    *)
IsSum(g, f, S) ==
    g = [T \in SUBSET S |-> IF T = {} THEN 0
                            ELSE f[CHOOSE x \in T : TRUE] + g[T \ {CHOOSE x \in T : TRUE}]]

(* In any order: the sum over a part is that over one element less, and    *)
(* that element.                                                           *)
Additive(g, f, S) ==
    /\ g \in [SUBSET S -> Int] /\ g[{}] = 0
    /\ \A T \in SUBSET S : \A x \in T : g[T] = f[x] + g[T \ {x}]

Total(f, S) == (CHOOSE g : IsSum(g, f, S))[S]

(* What fails for a finite set fails for one that has no smaller part for  *)
(* which it fails. *)
LEMMA Smallest ==
    ASSUME NEW S, IsFiniteSet(S), NEW D \in SUBSET SUBSET S, D # {}
    PROVE  \E T \in D : \A U \in D : U \subseteq T => U = T
<1>1. D \subseteq FiniteSubsetsOf(S)
  BY FS_Subset DEF FiniteSubsetsOf
<1>2. PICK T \in D : \A U \in D : ~(<<U, T>> \in StrictSubsetOrdering(S))
  BY <1>1, FS_StrictSubsetOrderingWellFounded, WFMin
<1> QED
  BY <1>1, <1>2 DEF StrictSubsetOrdering

LEMMA Regrouped ==
    ASSUME NEW x \in Int, NEW y \in Int, NEW z \in Int, NEW u, NEW v, NEW w,
           u = y + v, v = x + z, w = y + z
    PROVE  u = x + w
  OBVIOUS

(* Every finite set has a partial sum for each of its subsets: a smallest  *)
(* set that had none would have one.                                       *)
LEMMA AdditiveExists ==
    ASSUME NEW S, IsFiniteSet(S), NEW f, \A x \in S : f[x] \in Int
    PROVE  \E g : Additive(g, f, S)
<1> DEFINE D == {T \in SUBSET S : ~ \E g : Additive(g, f, T)}
<1> SUFFICES ASSUME D # {} PROVE FALSE
  OBVIOUS
<1>1. PICK T \in D : \A U \in D : U \subseteq T => U = T
  <2>1. D \in SUBSET SUBSET S
    OBVIOUS
  <2> HIDE DEF D
  <2> QED
    BY <2>1, Smallest
<1>2. CASE T = {}
  <2>1. Additive([U \in SUBSET T |-> 0], f, T)
    BY <1>2 DEF Additive
  <2> QED
    BY <1>1, <2>1
<1>3. CASE T # {}
  <2>1. PICK a \in T : TRUE
    BY <1>3
  <2>2. T \ {a} \in SUBSET S /\ T \ {a} \notin D
    BY <1>1, <2>1
  <2>3. PICK g : Additive(g, f, T \ {a})
    BY <2>2
  <2> DEFINE h == [U \in SUBSET T |-> IF a \in U THEN f[a] + g[U \ {a}] ELSE g[U]]
  <2>4. g \in [SUBSET (T \ {a}) -> Int] /\ g[{}] = 0
    BY <2>3 DEF Additive
  <2>5. \A x \in T : f[x] \in Int
    BY <1>1
  <2>6. ASSUME NEW U \in SUBSET T
        PROVE  U \ {a} \in SUBSET (T \ {a}) /\ g[U \ {a}] \in Int /\ (a \notin U => U \ {a} = U)
    BY <2>4
  <2>7. h \in [SUBSET T -> Int] /\ h[{}] = 0
    BY <2>1, <2>4, <2>5, <2>6
  <2>8. ASSUME NEW U \in SUBSET T, NEW x \in U PROVE h[U] = f[x] + h[U \ {x}]
    <3>1. CASE x = a
      BY <2>6, <3>1
    <3>2. CASE x # a /\ a \notin U
      <4>1. g[U] = f[x] + g[U \ {x}]
        BY <2>3, <2>8, <3>2 DEF Additive
      <4> QED
        BY <3>2, <4>1
    <3>3. CASE x # a /\ a \in U
      <4>1. g[U \ {a}] = f[x] + g[(U \ {a}) \ {x}]
        BY <2>3, <2>8, <3>3 DEF Additive
      <4>2. (U \ {a}) \ {x} = (U \ {x}) \ {a} /\ U \ {x} \in SUBSET T
        OBVIOUS
      <4>3. h[U] = f[a] + g[U \ {a}] /\ h[U \ {x}] = f[a] + g[(U \ {x}) \ {a}]
        BY <3>3
      <4>4. f[a] \in Int /\ f[x] \in Int /\ g[(U \ {x}) \ {a}] \in Int
        BY <2>1, <2>5, <2>6, <2>8, <4>2
      <4>5. g[(U \ {a}) \ {x}] = g[(U \ {x}) \ {a}]
        BY <4>2
      <4> QED
        BY <4>1, <4>3, <4>4, <4>5, Regrouped
    <3> QED
      BY <3>1, <3>2, <3>3
  <2>9. Additive(h, f, T)
    <3> HIDE DEF h
    <3> QED
      BY <2>7, <2>8 DEF Additive
  <2> QED
    BY <1>1, <2>9
<1> QED
  BY <1>2, <1>3

(* Which of them adds up in which order makes no difference.               *)
LEMMA AdditiveIsSum ==
    ASSUME NEW S, NEW f, NEW g, Additive(g, f, S)
    PROVE  IsSum(g, f, S)
<1> DEFINE h == [T \in SUBSET S |-> IF T = {} THEN 0
                            ELSE f[CHOOSE x \in T : TRUE] + g[T \ {CHOOSE x \in T : TRUE}]]
<1>1. ASSUME NEW T \in SUBSET S PROVE g[T] = h[T]
  <2>1. CASE T = {}
    BY <2>1 DEF Additive
  <2>2. CASE T # {}
    <3>1. (CHOOSE x \in T : TRUE) \in T
      BY <2>2
    <3> QED
      BY <2>2, <3>1 DEF Additive
  <2> QED
    BY <2>1, <2>2
<1>2. g = h
  BY <1>1 DEF Additive
<1> QED
  BY <1>2 DEF IsSum

(* One sum at most is taken in that order.                                 *)
LEMMA SumIsUnique ==
    ASSUME NEW S, IsFiniteSet(S), NEW f, NEW g, NEW h, IsSum(g, f, S), IsSum(h, f, S)
    PROVE  g = h
<1> DEFINE D == {T \in SUBSET S : g[T] # h[T]}
<1>1. D = {}
  <2> SUFFICES ASSUME D # {} PROVE FALSE
    OBVIOUS
  <2>1. PICK T \in D : \A U \in D : U \subseteq T => U = T
    <3>1. D \in SUBSET SUBSET S
      OBVIOUS
    <3> HIDE DEF D
    <3> QED
      BY <3>1, Smallest
  <2> DEFINE c == CHOOSE x \in T : TRUE
  <2>2. /\ g[T] = IF T = {} THEN 0 ELSE f[c] + g[T \ {c}]
        /\ h[T] = IF T = {} THEN 0 ELSE f[c] + h[T \ {c}]
    <3>1. T \in SUBSET S
      BY <2>1
    <3> QED
      BY <3>1 DEF IsSum
  <2>3. T # {} /\ g[T \ {c}] # h[T \ {c}]
    BY <2>1, <2>2
  <2>4. c \in T
    BY <2>3
  <2>5. T \ {c} \in D
    BY <2>1, <2>3
  <2> QED
    BY <2>1, <2>4, <2>5
<1>2. \A T \in SUBSET S : g[T] = h[T]
  BY <1>1
<1>3. g = [T \in SUBSET S |-> g[T]] /\ h = [T \in SUBSET S |-> h[T]]
  BY DEF IsSum
<1> QED
  BY <1>2, <1>3

(* So the total is what any additive function says.                        *)
LEMMA TotalOf ==
    ASSUME NEW S, IsFiniteSet(S), NEW f, NEW g, Additive(g, f, S), NEW T \in SUBSET S
    PROVE  Total(f, T) = g[T] /\ g[T] \in Int
<1> DEFINE h == [U \in SUBSET T |-> g[U]]
<1>1. Additive(h, f, T)
  BY DEF Additive
<1>2. IsSum(h, f, T) /\ IsFiniteSet(T)
  <2> HIDE DEF h
  <2> QED
    BY <1>1, AdditiveIsSum, FS_Subset
<1>3. (CHOOSE k : IsSum(k, f, T)) = h
  <2> HIDE DEF h
  <2>1. IsSum(CHOOSE k : IsSum(k, f, T), f, T)
    BY <1>2
  <2> QED
    BY <1>2, <2>1, SumIsUnique
<1> QED
  BY <1>3 DEF Total, Additive

(* The sums of the community modules are totals.                           *)
LEMMA TotalIsSum ==
    ASSUME NEW S, NEW f
    PROVE  SumFunctionOnSet(f, S) = Total(f, S)
  BY DEF SumFunctionOnSet, FoldFunctionOnSet, MapThenFoldSet, Total, IsSum

----------------------------------------------------------------------------
LEMMA TotalOfNone ==
    ASSUME NEW f PROVE Total(f, {}) = 0
<1>1. \A x \in {} : f[x] \in Int
  OBVIOUS
<1>2. PICK g : Additive(g, f, {})
  BY <1>1, AdditiveExists, FS_EmptySet
<1>3. Total(f, {}) = g[{}]
  BY <1>2, TotalOf, FS_EmptySet
<1> QED
  BY <1>2, <1>3 DEF Additive

(* A sum is any of its members and the sum of the rest.                    *)
LEMMA TotalWithout ==
    ASSUME NEW S, IsFiniteSet(S), NEW f, \A x \in S : f[x] \in Int
    PROVE  /\ Total(f, S) \in Int
           /\ \A x \in S : /\ Total(f, S) = f[x] + Total(f, S \ {x})
                           /\ Total(f, S \ {x}) \in Int
<1>1. PICK g : Additive(g, f, S)
  BY AdditiveExists
<1>2. \A T \in SUBSET S : Total(f, T) = g[T] /\ g[T] \in Int
  BY <1>1, TotalOf
<1>3. \A x \in S : S \ {x} \in SUBSET S /\ g[S] = f[x] + g[S \ {x}]
  BY <1>1 DEF Additive
<1> QED
  BY <1>2, <1>3

(* Equal members have equal sums.                                          *)
LEMMA TotalOfSame ==
    ASSUME NEW S, IsFiniteSet(S), NEW f, \A x \in S : f[x] \in Int,
           NEW h, \A x \in S : h[x] = f[x]
    PROVE  Total(h, S) = Total(f, S)
<1>1. PICK g : Additive(g, f, S)
  BY AdditiveExists
<1>2. Additive(g, h, S)
  BY <1>1 DEF Additive
<1> QED
  BY <1>1, <1>2, TotalOf

(* One term changes, appears or disappears.                                *)
LEMMA TotalChanges ==
    ASSUME NEW S, IsFiniteSet(S), NEW f, NEW h, NEW x \in S,
           \A y \in S : f[y] \in Int, h[x] \in Int, \A y \in S \ {x} : h[y] = f[y]
    PROVE  Total(h, S) = Total(f, S) - f[x] + h[x] /\ Total(h, S) \in Int
<1>1. \A y \in S : h[y] \in Int
  OBVIOUS
<1>2. IsFiniteSet(S \ {x})
  BY FS_Subset
<1>3. Total(h, S \ {x}) = Total(f, S \ {x})
  BY <1>2, TotalOfSame
<1>4. /\ Total(f, S) = f[x] + Total(f, S \ {x}) /\ Total(f, S \ {x}) \in Int
      /\ Total(h, S) = h[x] + Total(h, S \ {x}) /\ f[x] \in Int
  BY <1>1, TotalWithout
<1> QED
  BY <1>3, <1>4

(* One term that was nothing becomes d.                                    *)
LEMMA TermAppears ==
    ASSUME NEW S, IsFiniteSet(S), NEW f, NEW h, NEW x \in S, NEW d \in Int,
           \A y \in S : f[y] \in Int, f[x] = 0, h[x] = d, \A y \in S \ {x} : h[y] = f[y]
    PROVE  Total(h, S) = Total(f, S) + d /\ Total(f, S) \in Int
<1>1. /\ Total(f, S) = f[x] + Total(f, S \ {x}) /\ Total(f, S \ {x}) \in Int
      /\ Total(f, S) \in Int
  BY TotalWithout
<1>2. \A y \in S : h[y] \in Int
  OBVIOUS
<1>3. Total(h, S) = h[x] + Total(h, S \ {x})
  BY <1>2, TotalWithout
<1>4. Total(h, S \ {x}) = Total(f, S \ {x})
  <2>1. IsFiniteSet(S \ {x}) /\ \A y \in S \ {x} : f[y] \in Int
    BY FS_Subset
  <2> QED
    BY <2>1, TotalOfSame
<1> QED
  BY <1>1, <1>3, <1>4

(* A sum over a part is the sum over all with nothing for the rest.        *)
LEMMA TotalOfPart ==
    ASSUME NEW S, IsFiniteSet(S), NEW f, \A x \in S : f[x] \in Int,
           NEW T \in SUBSET S, NEW h,
           \A x \in S : h[x] = IF x \in T THEN f[x] ELSE 0
    PROVE  Total(f, T) = Total(h, S)
<1>1. PICK g : Additive(g, f, S)
  BY AdditiveExists
<1> DEFINE k == [U \in SUBSET S |-> g[U \cap T]]
<1>2. k \in [SUBSET S -> Int] /\ k[{}] = 0
  BY <1>1 DEF Additive
<1>3. ASSUME NEW U \in SUBSET S, NEW x \in U PROVE k[U] = h[x] + k[U \ {x}]
  <2>1. U \ {x} \in SUBSET S /\ k[U] = g[U \cap T] /\ k[U \ {x}] = g[(U \ {x}) \cap T]
    OBVIOUS
  <2>2. CASE x \in T
    <3>1. (U \ {x}) \cap T = (U \cap T) \ {x} /\ U \cap T \in SUBSET S /\ x \in U \cap T
      BY <2>2
    <3>2. g[U \cap T] = f[x] + g[(U \cap T) \ {x}]
      BY <1>1, <3>1 DEF Additive
    <3> QED
      BY <2>1, <2>2, <3>1, <3>2
  <2>3. CASE x \notin T
    <3>1. (U \ {x}) \cap T = U \cap T /\ U \cap T \in SUBSET S
      BY <2>3
    <3>2. g[U \cap T] \in Int /\ h[x] = 0
      BY <1>1, <2>3, <3>1 DEF Additive
    <3>3. k[U] \in Int /\ k[U \ {x}] = k[U]
      BY <2>1, <3>1, <3>2
    <3> HIDE DEF k
    <3> QED
      BY <3>2, <3>3
  <2> QED
    BY <2>2, <2>3
<1>4. Additive(k, h, S)
  <2> HIDE DEF k
  <2> QED
    BY <1>2, <1>3 DEF Additive
<1>5. Total(h, S) = k[S]
  <2> HIDE DEF k
  <2> QED
    BY <1>4, TotalOf
<1>6. k[S] = g[T]
  <2>1. S \cap T = T
    OBVIOUS
  <2> QED
    BY <2>1
<1>7. Total(f, T) = g[T]
  BY <1>1, TotalOf
<1> QED
  <2> HIDE DEF k
  <2> QED
    BY <1>5, <1>6, <1>7
=============================================================================
