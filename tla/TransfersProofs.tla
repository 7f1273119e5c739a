-------------------------- MODULE TransfersProofs --------------------------
(***************************************************************************)
(* Theorems about Transfers, for any wallets, requests, funds and retry    *)
(* limit and whatever faults are allowed.  They rest on one inductive      *)
(* invariant, IInv, which says what each open transaction has written at   *)
(* each statement of transfer() and that a row is written under its lock.  *)
(* The last two parts are about transfers behind the idempotency guard and *)
(* about transfers beside payments and settlement.                         *)
(***************************************************************************)
EXTENDS GuardedTransfers, Platform, WalletStoreProofs

(* The movement a request asks for, as changes of balances. *)
Flow(t) == [w \in Wallet |-> IF w = dto[t].from THEN -dto[t].amount
                             ELSE IF w = dto[t].to THEN dto[t].amount ELSE 0]

BeforeWrites == {"idle", "readFrom", "readTo", "validate", "ledgerDebit", "done"}
Writing == {"ledgerDebit", "ledgerCredit", "debit", "credit", "conflict", "commit"}

(* What transaction t has written when request t is at each statement.     *)
Wrote(t) ==
    /\ pc[t] \in BeforeWrites => dNet[t] = Nothing
    /\ pc[t] \in BeforeWrites \cup {"ledgerCredit", "debit"} =>
          dBalance[t] = Nothing /\ dVersion[t] = Nothing
    /\ pc[t] = "ledgerCredit" => dNet[t] = Only(dto[t].from, -dto[t].amount)
    /\ pc[t] \in {"debit", "credit", "commit"} => dNet[t] = Flow(t)
    /\ pc[t] = "credit" =>
          dBalance[t] = IF okFrom[t] THEN Only(dto[t].from, -dto[t].amount)
                                     ELSE Nothing
    /\ pc[t] = "commit" => dBalance[t] = Flow(t)

(* validate() let t through. *)
Accepted(t) ==
    pc[t] \in Writing => /\ dto[t].from \in Wallet /\ dto[t].to \in Wallet
                         /\ seen[t].from.balance >= dto[t].amount

Unanswered(t) == pc[t] # "done" => posted[t] = 0 /\ reply[t] = "none"

Honest(t) ==
    /\ reply[t] = "201" => posted[t] = 1
    /\ reply[t] \in {"400", "403", "404", "409", "422", "none"} => posted[t] = 0

(* A transfer changes a balance with its version.                          *)
Versioned(t) == \A w \in Wallet : dBalance[t][w] # 0 => dVersion[t][w] > 0

PerTransfer(t) == /\ Wrote(t) /\ Versioned(t) /\ Accepted(t)
                  /\ Unanswered(t) /\ Honest(t)

RequestTypeOK ==
    /\ pc \in [Transfer -> Pc]
    /\ dto \in [Transfer -> Dto]
    /\ attempt \in [Transfer -> 0..MaxRetries]
    /\ seen \in [Transfer -> [from: [balance: Int, version: Nat],
                              to: [balance: Int, version: Nat]]]
    /\ okFrom \in [Transfer -> BOOLEAN]
    /\ posted \in [Transfer -> 0..1]
    /\ reply \in [Transfer -> {"none", "noAnswer", "201", "400", "403", "404",
                               "409", "422", "500"}]

IInv == /\ StoreInv
        /\ RequestTypeOK
        /\ BooksBalance
        /\ \A t \in Transfer : PerTransfer(t)
----------------------------------------------------------------------------
Untouched(u) == /\ pc'[u] = pc[u] /\ dto'[u] = dto[u] /\ seen'[u] = seen[u]
                /\ okFrom'[u] = okFrom[u] /\ posted'[u] = posted[u]
                /\ reply'[u] = reply[u]

SamePending(u) == /\ dBalance'[u] = dBalance[u] /\ dVersion'[u] = dVersion[u]
                  /\ dNet'[u] = dNet[u]

(* A request that does not move keeps its invariant over any store step.   *)
LEMMA Bystander ==
    ASSUME IInv, NEW u \in Transfer, Untouched(u), SamePending(u)
    PROVE  PerTransfer(u)'
<1> USE DEF Untouched, SamePending
<1>1. PerTransfer(u)
  BY DEF IInv
<1>2. Wrote(u)'
  BY <1>1 DEF PerTransfer, Wrote, Flow, Only, Nothing
<1>3. Versioned(u)' /\ Accepted(u)' /\ Unanswered(u)' /\ Honest(u)'
  BY <1>1 DEF PerTransfer, Versioned, Accepted, Unanswered, Honest
<1> QED
  BY <1>2, <1>3 DEF PerTransfer

(* What a step of request t leaves alone.                                  *)
OnlyRequest(t) == /\ dto' = dto
                  /\ \A u \in Transfer \ {t} : Untouched(u)

(* So a step of t is judged by what it does to t.                          *)
LEMMA StepOfOne ==
    ASSUME IInv, NEW t \in Transfer, StoreInv', RequestTypeOK', BooksBalance',
           OnlyRequest(t), OthersPending(t), PerTransfer(t)'
    PROVE  IInv'
<1>1. ASSUME NEW u \in Transfer
      PROVE  PerTransfer(u)'
  <2>1. CASE u = t
    BY <2>1
  <2>2. CASE u # t
    BY <2>2, Bystander, TransferAssumption DEF OnlyRequest, OthersPending, SamePending
  <2> QED
    BY <2>1, <2>2
<1> QED
  BY <1>1 DEF IInv

(* The facts about one request that the steps below use.                   *)
LEMMA Facts ==
    ASSUME IInv, NEW t \in Transfer
    PROVE  /\ t \in Txn
           /\ StoreInv /\ RequestTypeOK
           /\ dto[t] \in [caller: Merchant, from: WalletId, to: WalletId,
                           amount: Nat \ {0}]
           /\ dto[t].amount \in Nat \ {0} /\ dto[t].from # dto[t].to
           /\ seen[t].from.version \in Nat /\ seen[t].from.balance \in Int
           /\ seen[t].to.version \in Nat /\ seen[t].to.balance \in Int
           /\ PerTransfer(t)
  BY TransferAssumption DEF IInv, RequestTypeOK

(* Steps that touch no store variable.                                     *)
LEMMA Silent ==
    ASSUME IInv, NEW t \in Transfer, UNCHANGED storeVars
    PROVE  StoreInv' /\ BooksBalance' /\ OthersPending(t) /\ SamePending(t)
  BY StoreUnchanged DEF storeVars, IInv, BooksBalance, OthersPending, SamePending

LEMMA ArriveKeeps == ASSUME IInv, NEW t \in Transfer, Arrive(t) PROVE IInv'
<1>1. RequestTypeOK'
  BY TransferAssumption DEF Arrive, Goto, IInv, RequestTypeOK, Pc, InTransaction
<1>2. OnlyRequest(t) /\ UNCHANGED storeVars
  BY DEF Arrive, Goto, OnlyRequest, Untouched, IInv, RequestTypeOK
<1>3. /\ pc[t] = "idle" /\ pc'[t] = "readFrom"
      /\ posted' = posted /\ reply' = reply
  BY DEF Arrive, Goto, IInv, RequestTypeOK
<1>4. PerTransfer(t)'
  BY <1>2, <1>3, Facts, Silent DEF PerTransfer, Wrote, Versioned, Accepted, Unanswered,
     Honest, BeforeWrites, Writing, InTransaction, SamePending, Nothing
<1> QED
  BY <1>1, <1>2, <1>4, Silent, StepOfOne

LEMMA ReadKeeps == ASSUME IInv, NEW t \in Transfer, Read(t) PROVE IInv'
<1> USE DEF RequestTypeOK, Goto, Pc, InTransaction, OnlyRequest, Untouched
<1>1. CASE ReadFrom(t)
  <2>1. RowOf(t, dto[t].from) \in [balance: Int, version: Nat]
    BY Facts, StoreAssumption DEF RowOf, Row, NoRow, StoreInv, StoreTypeOK
  <2> DEFINE R == [balance: Int, version: Nat]
             r == RowOf(t, dto[t].from)
  <2>7. seen' \in [Transfer -> [from: R, to: R]]
    <3>1. seen \in [Transfer -> [from: R, to: R]] /\ seen' = [seen EXCEPT ![t].from = r]
      BY <1>1 DEF ReadFrom, IInv
    <3>2. r \in R
      BY <2>1
    <3> HIDE DEF R, r
    <3>3. [seen[t] EXCEPT !.from = r] \in [from: R, to: R]
      BY <3>1, <3>2
    <3> QED
      BY <3>1, <3>3
  <2>2. RequestTypeOK'
    BY <1>1, <2>7 DEF ReadFrom, IInv
  <2>3. /\ OnlyRequest(t) /\ UNCHANGED storeVars
        /\ pc[t] = "readFrom" /\ pc'[t] = "readTo"
        /\ posted' = posted /\ reply' = reply
        /\ seen'[t].from = RowOf(t, dto[t].from)
    BY <1>1 DEF ReadFrom, IInv
  <2>6. PerTransfer(t)'
    <3>1. PerTransfer(t) /\ SamePending(t) /\ t \in Txn
      BY <2>3, Facts, Silent
    <3>2. Wrote(t)' /\ Versioned(t)'
      BY <2>3, <3>1 DEF PerTransfer, Wrote, Versioned, BeforeWrites, Writing, SamePending, Nothing
    <3>3. Accepted(t)' /\ Unanswered(t)' /\ Honest(t)'
      BY <2>3, <3>1 DEF PerTransfer, Accepted, Unanswered, Honest, BeforeWrites, Writing
    <3> QED
      BY <3>2, <3>3 DEF PerTransfer
  <2> QED
    BY <2>2, <2>3, <2>6, Silent, StepOfOne
<1>2. CASE ReadTo(t)
  <2>1. RowOf(t, dto[t].to) \in [balance: Int, version: Nat]
    BY Facts, StoreAssumption DEF RowOf, Row, NoRow, StoreInv, StoreTypeOK
  <2> DEFINE R == [balance: Int, version: Nat]
             r == RowOf(t, dto[t].to)
  <2>7. seen' \in [Transfer -> [from: R, to: R]]
    <3>1. seen \in [Transfer -> [from: R, to: R]] /\ seen' = [seen EXCEPT ![t].to = r]
      BY <1>2 DEF ReadTo, IInv
    <3>2. r \in R
      BY <2>1
    <3> HIDE DEF R, r
    <3>3. [seen[t] EXCEPT !.to = r] \in [from: R, to: R]
      BY <3>1, <3>2
    <3> QED
      BY <3>1, <3>3
  <2>2. RequestTypeOK'
    BY <1>2, <2>7 DEF ReadTo, IInv
  <2>3. /\ OnlyRequest(t) /\ UNCHANGED storeVars
        /\ pc[t] = "readTo" /\ pc'[t] = "validate"
        /\ posted' = posted /\ reply' = reply
        /\ seen'[t].from = seen[t].from
    BY <1>2 DEF ReadTo, IInv
  <2>4. PerTransfer(t)'
    BY <2>3, Facts, Silent DEF PerTransfer, Wrote, Versioned, Accepted, Unanswered,
       Honest, BeforeWrites, Writing, SamePending, Nothing, storeVars
  <2> QED
    BY <2>2, <2>3, <2>4, Silent, StepOfOne
<1> QED
  BY <1>1, <1>2 DEF Read

LEMMA AcceptKeeps == ASSUME IInv, NEW t \in Transfer, Accept(t) PROVE IInv'
<1>1. /\ RequestTypeOK' /\ OnlyRequest(t) /\ UNCHANGED storeVars
      /\ pc[t] = "validate" /\ pc'[t] = "ledgerDebit"
      /\ posted' = posted /\ reply' = reply /\ seen' = seen
  BY DEF Accept, Goto, IInv, RequestTypeOK, Pc, InTransaction, OnlyRequest, Untouched
<1>2. /\ dto[t].from \in Wallet /\ dto[t].to \in Wallet
      /\ seen[t].from.balance >= dto[t].amount
  <2>1. Validate(t) = "ok"
    BY DEF Accept
  <2>2. dto[t].from # NoWallet /\ dto[t].to # NoWallet
    BY <2>1 DEF Validate
  <2>3. ~(seen[t].from.balance < dto[t].amount)
    BY <2>1 DEF Validate
  <2> QED
    BY <2>2, <2>3, Facts DEF WalletId
<1>3. PerTransfer(t)'
  BY <1>1, <1>2, Facts, Silent DEF PerTransfer, Wrote, Versioned, Accepted, Unanswered,
     Honest, BeforeWrites, Writing, InTransaction, SamePending, Nothing, storeVars,
     OnlyRequest
<1> QED
  BY <1>1, <1>3, Silent, StepOfOne
(* The ledger lines, written before the balances.                          *)
LEMMA RecordKeeps == ASSUME IInv, NEW t \in Transfer, Record(t) PROVE IInv'
<1> USE DEF Goto, OnlyRequest, Untouched
<1>1. /\ t \in Txn /\ PerTransfer(t) /\ pc[t] \in {"ledgerDebit", "ledgerCredit"}
      /\ dto[t].amount \in Nat \ {0} /\ dto[t].from # dto[t].to
  BY Facts DEF Record, LedgerDebit, LedgerCredit
<1>2. dto[t].from \in Wallet /\ dto[t].to \in Wallet
  BY <1>1 DEF PerTransfer, Accepted, Writing
<1>3. CASE LedgerDebit(t)
  <2>1. /\ pc[t] = "ledgerDebit" /\ pc'[t] = "ledgerCredit"
        /\ RequestTypeOK' /\ OnlyRequest(t)
        /\ posted' = posted /\ reply' = reply /\ seen' = seen /\ dto' = dto
    BY <1>3 DEF LedgerDebit, IInv, RequestTypeOK, Pc, InTransaction
  <2>2. AddEntry(t, dto[t].from, -dto[t].amount)
    BY <1>3 DEF LedgerDebit
  <2>3. /\ StoreInv' /\ OthersPending(t)
        /\ dNet'[t] = [dNet[t] EXCEPT ![dto[t].from] = @ + (-dto[t].amount)]
        /\ UNCHANGED <<committedVars, dBalance, dVersion>>
    BY <1>1, <1>2, <2>2, AddEntryKeeps DEF IInv
  <2>4. dNet'[t] = Only(dto[t].from, -dto[t].amount)
    <3>1. dNet[t] = Nothing
      BY <1>1, <2>1 DEF PerTransfer, Wrote, BeforeWrites
    <3> QED
      BY <1>1, <2>3, <3>1 DEF Only, Nothing
  <2>5. BooksBalance'
    BY <2>3 DEF IInv, BooksBalance, committedVars
  <2>6. PerTransfer(t)'
    BY <1>1, <2>1, <2>3, <2>4 DEF PerTransfer, Wrote, Versioned, Accepted, Unanswered,
       Honest, BeforeWrites, Writing, InTransaction, committedVars, Only, Nothing
  <2> QED
    BY <2>1, <2>3, <2>5, <2>6, StepOfOne
<1>4. CASE LedgerCredit(t)
  <2>1. /\ pc[t] = "ledgerCredit" /\ pc'[t] = "debit"
        /\ RequestTypeOK' /\ OnlyRequest(t)
        /\ posted' = posted /\ reply' = reply /\ seen' = seen /\ dto' = dto
    BY <1>4 DEF LedgerCredit, IInv, RequestTypeOK, Pc, InTransaction
  <2>2. AddEntry(t, dto[t].to, dto[t].amount)
    BY <1>4 DEF LedgerCredit
  <2>3. /\ StoreInv' /\ OthersPending(t)
        /\ dNet'[t] = [dNet[t] EXCEPT ![dto[t].to] = @ + dto[t].amount]
        /\ UNCHANGED <<committedVars, dBalance, dVersion>>
    BY <1>1, <1>2, <2>2, AddEntryKeeps DEF IInv
  <2>4. dNet'[t] = Flow(t)'
    <3>1. dNet[t] = Only(dto[t].from, -dto[t].amount)
      BY <1>1, <2>1 DEF PerTransfer, Wrote
    <3> QED
      BY <1>1, <2>1, <2>3, <3>1 DEF Only, Flow
  <2>5. BooksBalance'
    BY <2>3 DEF IInv, BooksBalance, committedVars
  <2>6. PerTransfer(t)'
    BY <1>1, <2>1, <2>3, <2>4 DEF PerTransfer, Wrote, Versioned, Accepted, Unanswered,
       Honest, BeforeWrites, Writing, InTransaction, committedVars, Flow, Nothing
  <2> QED
    BY <2>1, <2>3, <2>5, <2>6, StepOfOne
<1> QED
  BY <1>3, <1>4 DEF Record

(* A conditional update bumps the version of the row it writes.            *)
LEMMA VersionedUpdate ==
    ASSUME StoreInv, StoreInv', NEW t \in Txn, NEW w \in Wallet, NEW delta \in Int,
           Versioned(t),
           dBalance'[t] = [dBalance[t] EXCEPT ![w] = @ + delta],
           dVersion'[t] = [dVersion[t] EXCEPT ![w] = @ + 1]
    PROVE  Versioned(t)'
<1>1. /\ dBalance[t] \in [Wallet -> Int] /\ dVersion[t] \in [Wallet -> Nat]
  BY DEF StoreInv, StoreTypeOK
<1> SUFFICES ASSUME NEW x \in Wallet, dBalance'[t][x] # 0 PROVE dVersion'[t][x] > 0
  BY DEF Versioned
<1>2. CASE x = w
  BY <1>1, <1>2
<1>3. CASE x # w
  BY <1>1, <1>3 DEF Versioned
<1> QED
  BY <1>2, <1>3

(* The first conditional update, and what it leaves pending.               *)
LEMMA DebitKeeps == ASSUME IInv, NEW t \in Transfer, Debit(t) PROVE IInv'
<1> USE DEF Goto, OnlyRequest, Untouched
<1>1. /\ t \in Txn /\ PerTransfer(t) /\ pc[t] = "debit"
      /\ dto[t].amount \in Nat \ {0} /\ dto[t].from # dto[t].to
  BY Facts DEF Debit
<1>2. dto[t].from \in Wallet /\ dto[t].to \in Wallet
  BY <1>1 DEF PerTransfer, Accepted, Writing
<1>3. PICK updated \in BOOLEAN :
        /\ ApplyDeltaIfVersion(t, dto[t].from, -dto[t].amount,
                               seen[t].from.version, updated)
        /\ okFrom' = [okFrom EXCEPT ![t] = updated]
  BY DEF Debit
<1>4. /\ pc'[t] = "credit" /\ okFrom'[t] = updated
      /\ RequestTypeOK' /\ OnlyRequest(t)
      /\ posted' = posted /\ reply' = reply /\ seen' = seen /\ dto' = dto
  BY <1>1, <1>3 DEF Debit, IInv, RequestTypeOK, Pc, InTransaction
<1>5. /\ dNet[t] = Flow(t) /\ dBalance[t] = Nothing
  BY <1>1 DEF PerTransfer, Wrote
<1>6. /\ StoreInv' /\ OthersPending(t)
      /\ dBalance'[t] = IF updated THEN Only(dto[t].from, -dto[t].amount) ELSE Nothing
      /\ Versioned(t)'
      /\ UNCHANGED <<committedVars, dNet>>
  <2>1. CASE updated
    <3>1. /\ UpdateMatched(t, dto[t].from, -dto[t].amount, seen[t].from.version)
          /\ -dto[t].amount \in Int
      BY <1>1, <1>3, <2>1 DEF ApplyDeltaIfVersion
    <3>2. /\ StoreInv' /\ OthersPending(t)
          /\ dBalance'[t] = [dBalance[t] EXCEPT ![dto[t].from] = @ + (-dto[t].amount)]
          /\ dVersion'[t] = [dVersion[t] EXCEPT ![dto[t].from] = @ + 1]
          /\ UNCHANGED <<committedVars, dNet>>
      BY <1>1, <1>2, <3>1, MatchedKeeps DEF IInv
    <3>3. dBalance'[t] = Only(dto[t].from, -dto[t].amount)
      BY <1>1, <1>5, <3>2 DEF Only, Nothing
    <3>4. Versioned(t)'
      BY <1>1, <1>2, <3>1, <3>2, VersionedUpdate DEF PerTransfer, IInv
    <3> QED
      BY <2>1, <3>2, <3>3, <3>4
  <2>2. CASE ~updated
    <3>1. UpdateMissed(t, dto[t].from, seen[t].from.version)
      BY <1>3, <2>2 DEF ApplyDeltaIfVersion
    <3>2. StoreInv' /\ UNCHANGED <<committedVars, pendingVars>>
      BY <1>1, <1>2, <3>1, MissedKeeps DEF IInv
    <3>3. Versioned(t)'
      BY <1>1, <3>2 DEF PerTransfer, Versioned, pendingVars
    <3> QED
      BY <1>5, <2>2, <3>2, <3>3 DEF pendingVars, OthersPending
  <2> QED
    BY <2>1, <2>2
<1>7. BooksBalance'
  BY <1>6 DEF IInv, BooksBalance, committedVars
<1>8. PerTransfer(t)'
  BY <1>1, <1>4, <1>5, <1>6 DEF PerTransfer, Wrote, Versioned, Accepted, Unanswered,
     Honest, BeforeWrites, Writing, InTransaction, committedVars, Flow, Only, Nothing
<1> QED
  BY <1>4, <1>6, <1>7, <1>8, StepOfOne

(* The second: only when both matched is the pending change the whole      *)
(* movement.                                                               *)
LEMMA CreditKeeps == ASSUME IInv, NEW t \in Transfer, Credit(t) PROVE IInv'
<1> USE DEF Goto, OnlyRequest, Untouched
<1>1. /\ t \in Txn /\ PerTransfer(t) /\ pc[t] = "credit"
      /\ dto[t].amount \in Nat \ {0} /\ dto[t].from # dto[t].to
  BY Facts DEF Credit
<1>2. dto[t].from \in Wallet /\ dto[t].to \in Wallet
  BY <1>1 DEF PerTransfer, Accepted, Writing
<1>3. PICK updated \in BOOLEAN :
        /\ ApplyDeltaIfVersion(t, dto[t].to, dto[t].amount,
                               seen[t].to.version, updated)
        /\ pc' = [pc EXCEPT ![t] = IF BothUpdated(okFrom[t], updated) THEN "commit"
                                                                     ELSE "conflict"]
  BY DEF Credit
<1>4. /\ pc'[t] \in {"commit", "conflict"}
      /\ pc'[t] = "commit" => okFrom[t] /\ updated
      /\ RequestTypeOK' /\ OnlyRequest(t)
      /\ posted' = posted /\ reply' = reply /\ seen' = seen /\ dto' = dto
      /\ okFrom' = okFrom
  BY <1>1, <1>3 DEF Credit, BothUpdated, IInv, RequestTypeOK, Pc, InTransaction
<1>5. /\ dNet[t] = Flow(t)
      /\ okFrom[t] => dBalance[t] = Only(dto[t].from, -dto[t].amount)
  BY <1>1 DEF PerTransfer, Wrote
<1>6. /\ StoreInv' /\ OthersPending(t)
      /\ okFrom[t] /\ updated => dBalance'[t] = Flow(t)
      /\ Versioned(t)'
      /\ UNCHANGED <<committedVars, dNet>>
  <2>1. CASE updated
    <3>1. /\ UpdateMatched(t, dto[t].to, dto[t].amount, seen[t].to.version)
          /\ dto[t].amount \in Int
      BY <1>1, <1>3, <2>1 DEF ApplyDeltaIfVersion
    <3>5. t \in Txn /\ dto[t].to \in Wallet /\ StoreInv
      BY <1>1, <1>2 DEF IInv
    <3>2. /\ StoreInv' /\ OthersPending(t)
          /\ dBalance'[t] = [dBalance[t] EXCEPT ![dto[t].to] = @ + dto[t].amount]
          /\ dVersion'[t] = [dVersion[t] EXCEPT ![dto[t].to] = @ + 1]
          /\ UNCHANGED <<committedVars, dNet>>
      BY <3>1, <3>5, MatchedKeeps
    <3>3. okFrom[t] => dBalance'[t] = Flow(t)
      BY <1>1, <1>5, <3>2 DEF Only, Flow
    <3>4. Versioned(t)'
      BY <1>1, <1>2, <3>1, <3>2, VersionedUpdate DEF PerTransfer, IInv
    <3> QED
      BY <2>1, <3>2, <3>3, <3>4
  <2>2. CASE ~updated
    <3>1. UpdateMissed(t, dto[t].to, seen[t].to.version)
      BY <1>3, <2>2 DEF ApplyDeltaIfVersion
    <3>2. StoreInv' /\ UNCHANGED <<committedVars, pendingVars>>
      BY <1>1, <1>2, <3>1, MissedKeeps DEF IInv
    <3>3. Versioned(t)'
      BY <1>1, <3>2 DEF PerTransfer, Versioned, pendingVars
    <3> QED
      BY <2>2, <3>2, <3>3 DEF pendingVars, OthersPending
  <2> QED
    BY <2>1, <2>2
<1>7. BooksBalance'
  BY <1>6 DEF IInv, BooksBalance, committedVars
<1>8. PerTransfer(t)'
  BY <1>1, <1>4, <1>5, <1>6 DEF PerTransfer, Wrote, Versioned, Accepted, Unanswered,
     Honest, BeforeWrites, Writing, InTransaction, committedVars, Flow
<1> QED
  BY <1>4, <1>6, <1>7, <1>8, StepOfOne

(* Whatever ends in ROLLBACK and is not told 201.                          *)
LEMMA AbortKeeps ==
    ASSUME IInv, NEW t \in Transfer, pc[t] \in InTransaction, RollbackTxn(t),
           NEW said \in {"noAnswer", "400", "403", "404", "409", "422", "500"},
           Answer(t, said), UNCHANGED <<dto, attempt, seen, okFrom, posted>>
    PROVE  IInv'
<1> USE DEF Goto, OnlyRequest, Untouched
<1>1. t \in Txn /\ PerTransfer(t)
  BY Facts
<1>2. /\ pc'[t] = "done" /\ reply'[t] = said
      /\ RequestTypeOK' /\ OnlyRequest(t)
      /\ posted' = posted /\ seen' = seen /\ dto' = dto
  BY DEF Answer, IInv, RequestTypeOK, Pc, InTransaction
<1>3. /\ StoreInv' /\ OthersPending(t)
      /\ dBalance'[t] = Nothing /\ dVersion'[t] = Nothing /\ dNet'[t] = Nothing
      /\ UNCHANGED committedVars
  BY <1>1, RollbackKeeps DEF IInv
<1>4. BooksBalance'
  BY <1>3 DEF IInv, BooksBalance, committedVars
<1>5. posted[t] = 0
  BY <1>1 DEF PerTransfer, Unanswered, InTransaction
<1>6. PerTransfer(t)'
  BY <1>2, <1>3, <1>5 DEF PerTransfer, Wrote, Versioned, Accepted, Unanswered,
     Honest, BeforeWrites, Writing, InTransaction, Nothing
<1> QED
  BY <1>2, <1>3, <1>4, <1>6, StepOfOne

LEMMA RetryKeeps == ASSUME IInv, NEW t \in Transfer, Retry(t) PROVE IInv'
<1> USE DEF Goto, OnlyRequest, Untouched
<1>1. t \in Txn /\ PerTransfer(t) /\ pc[t] = "conflict"
  BY Facts DEF Retry
<1>2. /\ pc'[t] = "readFrom" /\ OnlyRequest(t)
      /\ posted' = posted /\ reply' = reply /\ seen' = seen /\ dto' = dto
  BY DEF Retry, IInv, RequestTypeOK
<1>3. RequestTypeOK'
  <2>1. attempt[t] + 1 \in 0..MaxRetries
    BY TransferAssumption DEF Retry, IInv, RequestTypeOK
  <2> QED
    BY <2>1 DEF Retry, IInv, RequestTypeOK, Pc, InTransaction
<1>4. /\ StoreInv' /\ OthersPending(t)
      /\ dBalance'[t] = Nothing /\ dVersion'[t] = Nothing /\ dNet'[t] = Nothing
      /\ UNCHANGED committedVars
  BY <1>1, RollbackKeeps DEF IInv, Retry
<1>5. BooksBalance'
  BY <1>4 DEF IInv, BooksBalance, committedVars
<1>6. PerTransfer(t)'
  BY <1>1, <1>2, <1>4 DEF PerTransfer, Wrote, Versioned, Accepted, Unanswered,
     Honest, BeforeWrites, Writing, InTransaction, Nothing
<1> QED
  BY <1>2, <1>3, <1>4, <1>5, <1>6, StepOfOne

(* COMMIT, whether or not its answer arrives: balances and ledger move by  *)
(* the same amounts.                                                       *)
LEMMA CommitStepKeeps ==
    ASSUME IInv, NEW t \in Transfer, pc[t] = "commit", CommitTxn(t),
           posted' = [posted EXCEPT ![t] = @ + 1],
           NEW said \in {"201", "500"}, Answer(t, said),
           UNCHANGED <<dto, attempt, seen, okFrom>>
    PROVE  IInv'
<1> USE DEF Goto, OnlyRequest, Untouched
<1>1. t \in Txn /\ PerTransfer(t)
  BY Facts
<1>2. posted[t] = 0
  BY <1>1 DEF PerTransfer, Unanswered
<1>3. /\ pc'[t] = "done" /\ reply'[t] = said /\ posted'[t] = 1
      /\ RequestTypeOK' /\ OnlyRequest(t)
      /\ seen' = seen /\ dto' = dto
  BY <1>2 DEF Answer, IInv, RequestTypeOK, Pc, InTransaction
<1>4. /\ StoreInv' /\ OthersPending(t)
      /\ dBalance'[t] = Nothing /\ dVersion'[t] = Nothing /\ dNet'[t] = Nothing
  BY <1>1, CommitKeeps DEF IInv
<1>5. BooksBalance'
  <2>1. dBalance[t] = dNet[t]
    BY <1>1 DEF PerTransfer, Wrote
  <2> QED
    BY <1>1, <2>1, CommitBalances DEF IInv
<1>6. PerTransfer(t)'
  BY <1>3, <1>4 DEF PerTransfer, Wrote, Versioned, Accepted, Unanswered,
     Honest, BeforeWrites, Writing, InTransaction, Nothing
<1> QED
  BY <1>3, <1>4, <1>5, <1>6, StepOfOne

(* Only a transfer inside its transaction can be stuck in a deadlock.      *)
LEMMA VictimIsOpen ==
    ASSUME NEW t \in Transfer, Deadlocked(t) PROVE pc[t] \in InTransaction
<1>1. WaitsFor(t) # {}
  BY DEF Deadlocked, Waiting
<1>2. pc[t] = "debit" \/ pc[t] = "credit"
  BY <1>1 DEF WaitsFor
<1> QED
  BY <1>2 DEF InTransaction

LEMMA InitEstablishes == Init => IInv
<1> SUFFICES ASSUME Init PROVE IInv
  OBVIOUS
<1> USE DEF Init, StoreInit, TransferInit
<1>1. StoreInv
  BY StoreInitKeeps
<1>2. RequestTypeOK
  BY TransferAssumption DEF RequestTypeOK, Pc, InTransaction, NoRow
<1>3. BooksBalance
  BY DEF BooksBalance
<1>4. ASSUME NEW t \in Transfer PROVE PerTransfer(t)
  BY TransferAssumption DEF PerTransfer, Wrote, Versioned, Accepted, Unanswered,
     Honest, BeforeWrites, Writing, InTransaction, Nothing
<1> QED
  BY <1>1, <1>2, <1>3, <1>4 DEF IInv

LEMMA NextKeeps == IInv /\ [Next]_vars => IInv'
<1> SUFFICES ASSUME IInv, [Next]_vars PROVE IInv'
  OBVIOUS
<1>1. CASE UNCHANGED vars
  BY <1>1, StoreUnchanged DEF vars, storeVars, transferVars, IInv, RequestTypeOK, BooksBalance, PerTransfer, Wrote, Versioned, Accepted,
     Unanswered, Honest, Flow
<1>2. ASSUME NEW t \in Transfer, Arrive(t) PROVE IInv'
  BY <1>2, ArriveKeeps
<1>3. ASSUME NEW t \in Transfer, Step(t) PROVE IInv'
  <2>1. CASE Read(t) \/ Accept(t) \/ Record(t) \/ Debit(t) \/ Credit(t) \/ Retry(t)
    BY <2>1, ReadKeeps, AcceptKeeps, RecordKeeps, DebitKeeps, CreditKeeps, RetryKeeps
  <2>2. CASE Refuse(t)
    <3>1. Validate(t) \in {"400", "403", "404", "422", "ok"}
      BY DEF Validate
    <3>2. Validate(t) # "ok" /\ Answer(t, Validate(t)) /\ RollbackTxn(t)
      BY <2>2 DEF Refuse
    <3>3. pc[t] \in InTransaction /\ UNCHANGED <<dto, attempt, seen, okFrom, posted>>
      BY <2>2 DEF Refuse, InTransaction
    <3> QED
      BY <3>1, <3>2, <3>3, AbortKeeps
  <2>3. CASE Commit(t)
    BY <2>3, CommitStepKeeps DEF Commit
  <2>4. CASE GiveUp(t)
    BY <2>4, AbortKeeps DEF GiveUp, InTransaction
  <2>5. CASE Rejected(t)
    BY <2>5, AbortKeeps DEF Rejected, Fails, DebitRejected, CreditRejected, InTransaction
  <2> QED
    BY <1>3, <2>1, <2>2, <2>3, <2>4, <2>5 DEF Step, Finish
<1>4. ASSUME NEW t \in Transfer, Disturbance(t) PROVE IInv'
  <2>1. CASE DeadlockVictim(t)
    BY <2>1, VictimIsOpen, AbortKeeps DEF DeadlockVictim, Fails
  <2>2. CASE DbError(t)
    BY <2>2, AbortKeeps DEF DbError, Fails
  <2>3. CASE AckLost(t)
    BY <2>3, CommitStepKeeps DEF AckLost
  <2>4. CASE Crash(t)
    BY <2>4, AbortKeeps DEF Crash
  <2> QED
    BY <1>4, <2>1, <2>2, <2>3, <2>4 DEF Disturbance
<1> QED
  BY <1>1, <1>2, <1>3, <1>4 DEF Next, Terminated

(* Every reachable state of transfer() satisfies the inductive invariant.  *)
THEOREM Inductive == Spec => []IInv
  BY InitEstablishes, NextKeeps, PTL DEF Spec

(* TypeOK: in particular a balance never leaves 0..MaxBalance, whatever    *)
(* interleaving of conditional updates the transfers go through.           *)
THEOREM TypeCorrect == Spec => []TypeOK
<1>1. IInv => TypeOK
  BY DEF IInv, StoreInv, RequestTypeOK, TypeOK
<1> QED
  BY <1>1, Inductive, PTL

(* A wallet's balance is the sum of its ledger entries after any retries,  *)
(* rollbacks, lost acknowledgements and crashes.                           *)
THEOREM BooksAlwaysBalance == Spec => []BooksBalance
<1>1. IInv => BooksBalance
  BY DEF IInv
<1> QED
  BY <1>1, Inductive, PTL

(* A caller told 201 had its transfer committed exactly once, and a caller *)
(* told 4xx, or nothing yet, had none.                                     *)
THEOREM RepliesAlwaysHonest == Spec => []RepliesAreHonest
<1>1. IInv => RepliesAreHonest
  BY DEF IInv, PerTransfer, Honest, RepliesAreHonest
<1> QED
  BY <1>1, Inductive, PTL

(* The commit of a transfer is one Move of the book of accounts.           *)
LEMMA CommitMoves ==
    ASSUME IInv, NEW t \in Transfer, pc[t] = "commit", CommitTxn(t)
    PROVE  Abstract!Next
<1> DEFINE f == dto[t].from
           g == dto[t].to
           a == dto[t].amount
<1>1. /\ t \in Txn /\ a \in Nat \ {0} /\ f # g
      /\ f \in Wallet /\ g \in Wallet /\ dBalance[t] = Flow(t)
  BY Facts DEF PerTransfer, Accepted, Wrote, Writing
<1>2. MaxBalance \in Nat /\ balance \in [Wallet -> 0..MaxBalance]
  BY StoreAssumption DEF IInv, StoreInv, StoreTypeOK
<1>3. /\ balance[f] + dBalance[t][f] \in 0..MaxBalance
      /\ balance[g] + dBalance[t][g] \in 0..MaxBalance
  BY <1>1 DEF IInv, StoreInv, GuardedWrites
<1>4. dBalance[t][f] = -a /\ dBalance[t][g] = a
  BY <1>1 DEF Flow
<1>5. a \in 1..MaxBalance
  BY <1>1, <1>2, <1>3, <1>4
<1>6. balance' = [balance EXCEPT ![f] = @ - a, ![g] = @ + a]
  <2>1. balance' = [w \in Wallet |-> balance[w] + dBalance[t][w]]
    BY DEF CommitTxn
  <2>2. ASSUME NEW w \in Wallet \ {f, g}
        PROVE  balance[w] + dBalance[t][w] = balance[w]
    <3>1. dBalance[t][w] = 0
      BY <1>1 DEF Flow
    <3>2. balance[w] \in Int
      BY <1>2
    <3> QED
      BY <3>1, <3>2
  <2> HIDE DEF f, g, a
  <2> QED
    BY <1>1, <1>2, <1>4, <2>1, <2>2
<1>7. Abstract!Move(f, g, a)
  BY <1>1, <1>3, <1>4, <1>6 DEF Abstract!Move, Abstract!Bearable
<1> QED
  BY <1>1, <1>5, <1>7 DEF Abstract!Next

(* Every other step leaves the book as it is.                              *)
LEMMA StepsMapToMoves == IInv /\ [Next]_vars => [Abstract!Next]_balance
<1> SUFFICES ASSUME IInv, [Next]_vars PROVE Abstract!Next \/ balance' = balance
  OBVIOUS
<1>1. CASE UNCHANGED vars
  BY <1>1 DEF vars, storeVars
<1>2. ASSUME NEW t \in Transfer, Arrive(t) \/ Read(t) \/ Accept(t) PROVE balance' = balance
  BY <1>2 DEF Arrive, Read, ReadFrom, ReadTo, Accept, storeVars
<1>3. ASSUME NEW t \in Transfer, Record(t) PROVE balance' = balance
  BY <1>3 DEF Record, LedgerDebit, LedgerCredit, AddEntry, committedVars
<1>4. ASSUME NEW t \in Transfer, Debit(t) \/ Credit(t) PROVE balance' = balance
  BY <1>4 DEF Debit, Credit, ApplyDeltaIfVersion, UpdateMatched, UpdateMissed,
     committedVars
<1>5. ASSUME NEW t \in Transfer, Commit(t) \/ AckLost(t) PROVE Abstract!Next
  BY <1>5, CommitMoves DEF Commit, AckLost
<1>6. ASSUME NEW t \in Transfer,
             \/ Refuse(t) \/ Retry(t) \/ GiveUp(t) \/ Rejected(t)
             \/ DeadlockVictim(t) \/ DbError(t) \/ Crash(t)
      PROVE  balance' = balance
  BY <1>6 DEF Refuse, Retry, GiveUp, Rejected, DeadlockVictim, DbError, Crash, Fails,
     RollbackTxn, committedVars
<1> QED
  BY <1>1, <1>2, <1>3, <1>4, <1>5, <1>6 DEF Next, Terminated, Step, Finish, Disturbance

(* Concurrent, retried, failing transfers are the moves of Books, one at a *)
(* time: what a client can see of the balances, a serial account book      *)
(* could have shown.                                                       *)
THEOREM Refinement == Spec => ImplementsBooks
<1>1. Init => Abstract!Init
  BY DEF Init, StoreInit, Abstract!Init
<1> QED
  BY <1>1, StepsMapToMoves, Inductive, PTL DEF Spec, ImplementsBooks, Abstract!Spec

----------------------------------------------------------------------------
(* A step commits one transfer or leaves the committed balances, and what  *)
(* was committed for whom, as they were.                                   *)
CommitsOne(t) == /\ pc[t] = "commit" /\ CommitTxn(t) /\ dto' = dto
                 /\ posted' = [posted EXCEPT ![t] = @ + 1]

(* Only a commit moves a balance or a version, and it counts itself.       *)
LEMMA CommitOrNot ==
    ASSUME [Next]_vars
    PROVE  \/ UNCHANGED <<balance, version, posted, dto>>
           \/ \E t \in Transfer : CommitsOne(t)
<1>1. CASE UNCHANGED vars
  BY <1>1 DEF vars, storeVars, transferVars
<1>2. ASSUME NEW t \in Transfer, Arrive(t) \/ Read(t) \/ Accept(t)
      PROVE  UNCHANGED <<balance, version, posted, dto>>
  BY <1>2 DEF Arrive, Read, ReadFrom, ReadTo, Accept, storeVars
<1>3. ASSUME NEW t \in Transfer, Record(t)
      PROVE  UNCHANGED <<balance, version, posted, dto>>
  BY <1>3 DEF Record, LedgerDebit, LedgerCredit, AddEntry, committedVars
<1>4. ASSUME NEW t \in Transfer, Debit(t) \/ Credit(t)
      PROVE  UNCHANGED <<balance, version, posted, dto>>
  BY <1>4 DEF Debit, Credit, ApplyDeltaIfVersion, UpdateMatched, UpdateMissed,
     committedVars
<1>5. ASSUME NEW t \in Transfer, Commit(t) \/ AckLost(t) PROVE CommitsOne(t)
  BY <1>5 DEF Commit, AckLost, CommitsOne
<1>6. ASSUME NEW t \in Transfer,
             \/ Refuse(t) \/ Retry(t) \/ GiveUp(t) \/ Rejected(t)
             \/ DeadlockVictim(t) \/ DbError(t) \/ Crash(t)
      PROVE  UNCHANGED <<balance, version, posted, dto>>
  BY <1>6 DEF Refuse, Retry, GiveUp, Rejected, DeadlockVictim, DbError, Crash, Fails,
     RollbackTxn, committedVars
<1> QED
  BY <1>1, <1>2, <1>3, <1>4, <1>5, <1>6 DEF Next, Terminated, Step, Finish, Disturbance

(* A step of one transfer leaves the attempts, the reads and the pending   *)
(* writes of the others.                                                   *)
LEMMA OthersStand ==
    ASSUME IInv, NEW t \in Transfer, Arrive(t) \/ Step(t) \/ Disturbance(t)
    PROVE  /\ OthersPending(t)
           /\ \A u \in Transfer \ {t} : /\ attempt'[u] = attempt[u] /\ Untouched(u)
                                        /\ dVersion'[u] = dVersion[u]
<1>1. RequestTypeOK /\ StoreInv /\ t \in Txn
  BY Facts
<1> USE DEF RequestTypeOK, Untouched, Goto, Answer
<1>2. CASE Arrive(t) \/ ReadFrom(t) \/ ReadTo(t) \/ Accept(t)
  BY <1>1, <1>2, TransferAssumption, OwnWrites
     DEF Arrive, ReadFrom, ReadTo, Accept, OthersPending, storeVars
<1>3. CASE LedgerDebit(t) \/ LedgerCredit(t)
  BY <1>1, <1>3, TransferAssumption, OwnWrites DEF LedgerDebit, LedgerCredit, OthersPending
<1>4. CASE Debit(t) \/ Credit(t)
  BY <1>1, <1>4, TransferAssumption, OwnWrites DEF Debit, Credit, OthersPending
<1>5. CASE Commit(t) \/ AckLost(t)
  BY <1>1, <1>5, TransferAssumption, OwnWrites DEF Commit, AckLost, OthersPending
<1>6. CASE Refuse(t) \/ Retry(t) \/ GiveUp(t) \/ Rejected(t)
           \/ DeadlockVictim(t) \/ DbError(t) \/ Crash(t)
  BY <1>1, <1>6, TransferAssumption, OwnWrites DEF Refuse, Retry, GiveUp, Rejected,
     DeadlockVictim, DbError, Crash, Fails, OthersPending
<1> QED
  BY <1>2, <1>3, <1>4, <1>5, <1>6 DEF Step, Read, Record, Finish, Disturbance

----------------------------------------------------------------------------
(* What the version check is worth while transfers are the only writers.   *)

(* The row t read is not from the future, and its version names it.        *)
Current(t) ==
    pc[t] \in InTransaction \ {"readFrom"} /\ dto[t].from \in Wallet =>
        /\ seen[t].from.version <= version[dto[t].from]
        /\ seen[t].from.version = version[dto[t].from]
              => seen[t].from.balance = balance[dto[t].from]

Seen == \A t \in Transfer : Current(t)

(* Versions only grow, and a balance changes only with its version.        *)
LEMMA VersionedStep ==
    ASSUME IInv, [Next]_vars
    PROVE  \A w \in Wallet : /\ version'[w] >= version[w]
                             /\ version'[w] = version[w] => balance'[w] = balance[w]
<1>1. CASE UNCHANGED <<balance, version, posted, dto>>
  BY <1>1 DEF IInv, StoreInv, StoreTypeOK
<1>2. ASSUME NEW t \in Transfer, CommitsOne(t)
      PROVE  \A w \in Wallet : /\ version'[w] >= version[w]
                               /\ version'[w] = version[w] => balance'[w] = balance[w]
  BY <1>2, Facts, VersionedCommit DEF CommitsOne, PerTransfer, Versioned
<1> QED
  BY <1>1, <1>2, CommitOrNot

(* A request reads its source before it is past readFrom, and not again.   *)
LEMMA ReadsOnce ==
    ASSUME IInv, [Next]_vars, NEW t \in Transfer
    PROVE  \/ ReadFrom(t)
           \/ pc'[t] \notin InTransaction \ {"readFrom"}
           \/ /\ pc[t] \in InTransaction \ {"readFrom"}
              /\ dto'[t] = dto[t] /\ seen'[t].from = seen[t].from
<1>1. CASE UNCHANGED vars
  BY <1>1 DEF vars, transferVars
<1>2. ASSUME NEW u \in Transfer \ {t}, Arrive(u) \/ Step(u) \/ Disturbance(u)
      PROVE  Untouched(t)
  BY <1>2, OthersStand
<1>3. CASE Arrive(t) \/ Step(t) \/ Disturbance(t)
  <2>0. RequestTypeOK
    BY Facts
  <2> USE <2>0 DEF RequestTypeOK, Goto, Answer, InTransaction
  <2>1. CASE Arrive(t) \/ Retry(t)
    BY <2>1 DEF Arrive, Retry
  <2>2. CASE Accept(t) \/ Record(t) \/ Debit(t) \/ Credit(t)
    BY <2>2 DEF Accept, Record, LedgerDebit, LedgerCredit, Debit, Credit
  <2>4. CASE ReadTo(t)
    <3>1. dto' = dto /\ pc[t] = "readTo" /\ seen' = [seen EXCEPT ![t].to = RowOf(t, dto[t].to)]
      BY <2>4 DEF ReadTo
    <3>2. seen'[t] = [seen[t] EXCEPT !.to = RowOf(t, dto[t].to)]
      BY <3>1
    <3>3. seen'[t].from = seen[t].from
      BY <3>2
    <3> QED
      BY <3>1, <3>3
  <2>3. CASE Refuse(t) \/ Commit(t) \/ GiveUp(t) \/ Rejected(t) \/ Disturbance(t)
    BY <2>3 DEF Refuse, Commit, GiveUp, Rejected, Disturbance, DeadlockVictim, DbError,
       AckLost, Crash, Fails
  <2> QED
    BY <1>3, <2>1, <2>2, <2>3, <2>4 DEF Step, Read, Finish
<1> QED
  BY <1>1, <1>2, <1>3 DEF Next, Terminated, Untouched

LEMMA SeenNext == ASSUME IInv, IInv', Seen, [Next]_vars PROVE Seen'
<1> SUFFICES ASSUME NEW t \in Transfer, pc'[t] \in InTransaction \ {"readFrom"},
                    dto'[t].from \in Wallet
             PROVE  /\ seen'[t].from.version <= version'[dto'[t].from]
                    /\ seen'[t].from.version = version'[dto'[t].from]
                          => seen'[t].from.balance = balance'[dto'[t].from]
  BY DEF Seen, Current
<1>1. CASE ReadFrom(t)
  <2>1. /\ dto' = dto /\ version' = version /\ balance' = balance
        /\ seen'[t].from = RowOf(t, dto[t].from)
    BY <1>1, Facts DEF ReadFrom, storeVars, RequestTypeOK
  <2>2. RowOf(t, dto[t].from) = [balance |-> balance[dto[t].from],
                                 version |-> version[dto[t].from]]
    BY <1>1, <2>1, Facts, StoreAssumption
       DEF ReadFrom, RowOf, Row, PerTransfer, Wrote, BeforeWrites, Nothing, StoreInv,
           StoreTypeOK
  <2> QED
    BY <2>1, <2>2, Facts DEF StoreInv, StoreTypeOK
<1>2. CASE /\ pc[t] \in InTransaction \ {"readFrom"}
           /\ dto'[t] = dto[t] /\ seen'[t].from = seen[t].from
  <2> DEFINE w == dto[t].from
  <2>1. w \in Wallet /\ seen[t].from.version \in Nat
    BY <1>2, Facts
  <2>2. /\ seen[t].from.version <= version[w]
        /\ seen[t].from.version = version[w] => seen[t].from.balance = balance[w]
    BY <1>2, <2>1 DEF Seen, Current
  <2>3. /\ version'[w] >= version[w]
        /\ version'[w] = version[w] => balance'[w] = balance[w]
        /\ version[w] \in Nat /\ version'[w] \in Nat
    BY <2>1, VersionedStep DEF IInv, StoreInv, StoreTypeOK
  <2> HIDE DEF w
  <2>4. /\ seen[t].from.version <= version'[w]
        /\ seen[t].from.version = version'[w] => seen[t].from.balance = balance'[w]
    BY <2>1, <2>2, <2>3
  <2> QED
    BY <1>2, <2>4 DEF w
<1> QED
  BY <1>1, <1>2, ReadsOnce

LEMMA AlwaysSeen == Spec => []Seen
<1>1. Init => Seen
  BY DEF Init, TransferInit, Seen, Current, InTransaction
<1> QED
  BY <1>1, SeenNext, Inductive, PTL DEF Spec

(* While transfers are the only writers, a version identifies a balance.   *)
THEOREM VersionsIdentifyBalances == Spec => []SameVersionSameBalance
<1>1. Seen => SameVersionSameBalance
  BY DEF Seen, Current, SameVersionSameBalance
<1> QED
  BY <1>1, AlwaysSeen, PTL

(* So the version check alone keeps a debit within the funds that were     *)
(* validated, and the CHECK of the table never decides a transfer.         *)
THEOREM NoDebitIsRejected == Spec => []CheckNeverFires
<1>1. IInv /\ Seen => CheckNeverFires
  <2> SUFFICES ASSUME IInv, Seen, NEW t \in Transfer, DebitRejected(t) PROVE FALSE
    BY DEF CheckNeverFires
  <2> DEFINE w == dto[t].from
  <2>1. /\ pc[t] = "debit" /\ version[w] + dVersion[t][w] = seen[t].from.version
        /\ ~(balance[w] + dBalance[t][w] + (-dto[t].amount) \in 0..MaxBalance)
    BY DEF DebitRejected, UpdateRejected, VersionMatches, Row, InRange
  <2>2. /\ PerTransfer(t) /\ dto[t].amount \in Nat \ {0}
        /\ seen[t].from.version \in Nat
    BY Facts
  <2>3. /\ w \in Wallet /\ seen[t].from.balance >= dto[t].amount
        /\ dBalance[t][w] = 0 /\ dVersion[t][w] = 0
    BY <2>1, <2>2 DEF PerTransfer, Accepted, Wrote, Writing, Nothing
  <2>4. version[w] \in Nat /\ balance[w] \in 0..MaxBalance /\ MaxBalance \in Nat
    BY <2>3, StoreAssumption DEF IInv, StoreInv, StoreTypeOK
  <2>5. seen[t].from.version = version[w]
    BY <2>1, <2>3, <2>4
  <2>6. seen[t].from.balance = balance[w]
    BY <2>1, <2>2, <2>3, <2>5 DEF Seen, Current, InTransaction
  <2> QED
    BY <2>1, <2>2, <2>3, <2>4, <2>6
<1> QED
  BY <1>1, Inductive, AlwaysSeen, PTL

----------------------------------------------------------------------------
(* Every committed movement is in the balances, once. *)
MovedInto(w) == Total([t \in Transfer |-> Moved(t, w)], Transfer)

Explained(w) == balance[w] = Funds[w] + MovedInto(w)

LEMMA MovedIsInt ==
    ASSUME IInv, NEW t \in Transfer, NEW w \in Wallet
    PROVE  Moved(t, w) \in Int
<1>1. posted[t] \in 0..1 /\ dto[t].amount \in Int
  BY Facts DEF RequestTypeOK
<1>2. posted[t] = 0 \/ posted[t] = 1
  BY <1>1
<1> QED
  BY <1>1, <1>2 DEF Moved

LEMMA MovedIntoIsInt ==
    ASSUME IsFiniteSet(Transfer), IInv, NEW w \in Wallet
    PROVE  MovedInto(w) \in Int
<1> DEFINE f == [t \in Transfer |-> Moved(t, w)]
<1>1. \A t \in Transfer : f[t] \in Int
  BY MovedIsInt
<1>2. Total(f, Transfer) \in Int
  <2> HIDE DEF f
  <2> QED
    BY <1>1, TotalWithout
<1> QED
  BY <1>2 DEF MovedInto

LEMMA InitMovedInto ==
    ASSUME IsFiniteSet(Transfer), Init, NEW w \in Wallet
    PROVE  MovedInto(w) = 0 /\ balance[w] = Funds[w] /\ Funds[w] \in Int
<1> DEFINE f == [t \in Transfer |-> Moved(t, w)]
           g == [T \in SUBSET Transfer |-> 0]
<1>1. ASSUME NEW t \in Transfer PROVE f[t] = 0
  <2>1. posted[t] = 0 /\ dto[t].amount \in Int
    BY InitEstablishes, Facts DEF Init, TransferInit
  <2> QED
    BY <2>1 DEF Moved
<1>2. Additive(g, f, Transfer)
  <2> HIDE DEF f
  <2> QED
    BY <1>1 DEF Additive
<1>3. Total(f, Transfer) = g[Transfer]
  <2> HIDE DEF f, g
  <2> QED
    BY <1>2, TotalOf
<1>4. balance[w] = Funds[w] /\ Funds[w] \in Int
  BY StoreAssumption DEF Init, StoreInit
<1> QED
  BY <1>3, <1>4 DEF MovedInto

(* A commit moves what it adds to the history, and every other step leaves *)
(* both as they were.                                                      *)
LEMMA CommitCounts ==
    ASSUME IsFiniteSet(Transfer), IInv, NEW w \in Wallet, NEW t \in Transfer, CommitsOne(t)
    PROVE  \E d \in Int : balance'[w] = balance[w] + d /\ MovedInto(w)' = MovedInto(w) + d
<1> DEFINE f == [u \in Transfer |-> Moved(u, w)]
           h == [u \in Transfer |-> Moved(u, w)']
           flow == IF dto[t].to = w THEN dto[t].amount
                   ELSE IF dto[t].from = w THEN -dto[t].amount ELSE 0
<1>1. /\ t \in Txn /\ posted[t] = 0 /\ dBalance[t] = Flow(t)
      /\ dto[t].from # dto[t].to /\ dto[t].amount \in Int
  BY Facts DEF CommitsOne, PerTransfer, Unanswered, Wrote
<1>2. balance'[w] = balance[w] + flow /\ flow \in Int
  BY <1>1 DEF CommitsOne, CommitTxn, Flow
<1>3. f[t] = 0 /\ h[t] = flow
  <2>1. posted'[t] = 1 /\ dto' = dto
    BY <1>1 DEF CommitsOne, IInv, RequestTypeOK
  <2>2. 0 * flow = 0 /\ 1 * flow = flow
    BY <1>2
  <2> QED
    BY <1>1, <2>1, <2>2 DEF Moved
<1>4. \A u \in Transfer \ {t} : h[u] = f[u]
  BY DEF CommitsOne, Moved, IInv, RequestTypeOK
<1>5. \A u \in Transfer : f[u] \in Int
  BY MovedIsInt
<1>6. Total(h, Transfer) = Total(f, Transfer) + flow
  <2> HIDE DEF f, h, flow
  <2> QED
    BY <1>2, <1>3, <1>4, <1>5, TermAppears
<1>7. MovedInto(w)' = MovedInto(w) + flow
  BY <1>6 DEF MovedInto
<1> HIDE DEF flow
<1> QED
  BY <1>2, <1>7

LEMMA MovedIntoNext ==
    ASSUME IsFiniteSet(Transfer), IInv, [Next]_vars, NEW w \in Wallet
    PROVE  \E d \in Int : balance'[w] = balance[w] + d /\ MovedInto(w)' = MovedInto(w) + d
<1>1. CASE UNCHANGED <<balance, version, posted, dto>>
  <2>1. balance[w] \in Int /\ MovedInto(w) \in Int
    BY MovedIntoIsInt, StoreAssumption DEF IInv, StoreInv, StoreTypeOK
  <2>2. balance'[w] = balance[w] /\ MovedInto(w)' = MovedInto(w)
    BY <1>1 DEF MovedInto, Moved
  <2>3. balance'[w] = balance[w] + 0 /\ MovedInto(w)' = MovedInto(w) + 0
    BY <2>1, <2>2
  <2> QED
    BY <2>3
<1> QED
  BY <1>1, CommitOrNot, CommitCounts

(* However transfers interleave, retry, fail and crash, a balance is the   *)
(* seeded one plus what the committed transfers moved, each counted once.  *)
THEOREM BalancesAlwaysExplained ==
    ASSUME IsFiniteSet(Transfer)
    PROVE  Spec => []TransfersExplainBalances
<1> DEFINE E == \A w \in Wallet : Explained(w)
<1>1. Init => E
  <2> SUFFICES ASSUME Init, NEW w \in Wallet PROVE Explained(w)
    OBVIOUS
  <2>1. MovedInto(w) = 0 /\ balance[w] = Funds[w] /\ Funds[w] \in Int
    BY InitMovedInto
  <2> QED
    BY <2>1 DEF Explained
<1>2. IInv /\ E /\ [Next]_vars => E'
  <2> SUFFICES ASSUME IInv, E, [Next]_vars, NEW w \in Wallet PROVE Explained(w)'
    OBVIOUS
  <2>1. PICK d \in Int : balance'[w] = balance[w] + d /\ MovedInto(w)' = MovedInto(w) + d
    BY MovedIntoNext
  <2>2. balance[w] = Funds[w] + MovedInto(w) /\ Funds[w] \in Int /\ MovedInto(w) \in Int
    BY MovedIntoIsInt, StoreAssumption DEF Explained
  <2> QED
    BY <2>1, <2>2 DEF Explained
<1>3. E => TransfersExplainBalances
  BY TotalIsSum DEF Explained, MovedInto, TransfersExplainBalances
<1> QED
  <2> HIDE DEF E
  <2> QED
    BY <1>1, <1>2, <1>3, Inductive, PTL DEF Spec

----------------------------------------------------------------------------
(* Who beat whom.  The version of a row counts the transfers that wrote to *)
(* it, and every attempt of t that is lost was lost to a different one:    *)
(* one that is in the version t missed and not in the set W of those its   *)
(* earlier attempts were lost to.                                          *)

Touching(W, w) == {u \in W : w \in {dto[u].from, dto[u].to}}

Writers(w) == Touching({u \in Transfer : posted[u] = 1}, w)

VersionCounts == \A w \in Wallet : version[w] = Cardinality(Writers(w))

(* Both rows are bumped, or the attempt is lost. *)
Bumped(t) ==
    /\ pc[t] = "credit" => dVersion[t] = IF okFrom[t] THEN Only(dto[t].from, 1) ELSE Nothing
    /\ pc[t] = "commit" =>
          dVersion[t] = [w \in Wallet |-> IF w \in {dto[t].from, dto[t].to} THEN 1 ELSE 0]

AfterFrom == InTransaction \ {"readFrom"}
AfterTo == InTransaction \ {"readFrom", "readTo"}

SeenTo(t) ==
    pc[t] \in AfterTo /\ dto[t].to \in Wallet => seen[t].to.version <= version[dto[t].to]

BeatenBy(t, W) ==
    /\ W \in SUBSET Others(t)
    /\ attempt[t] <= 1 + Cardinality(W)
    /\ pc[t] \in AfterFrom /\ dto[t].from \in Wallet =>
          Cardinality(Touching(W, dto[t].from)) <= seen[t].from.version
    /\ pc[t] \in AfterTo /\ dto[t].to \in Wallet =>
          Cardinality(Touching(W, dto[t].to)) <= seen[t].to.version

Beaten(t) == \E W : BeatenBy(t, W)

Losing(t) == pc[t] = "conflict" \/ (pc[t] = "credit" /\ ~okFrom[t]) \/ reply[t] = "409"

Lost(t) == Losing(t) => attempt[t] <= Cardinality(Others(t))

Fought(t) == Bumped(t) /\ SeenTo(t) /\ Beaten(t) /\ Lost(t)

(* Whoever can have beaten a transfer, or written a wallet, can be         *)
(* counted.                                                                *)
LEMMA Counts ==
    ASSUME IsFiniteSet(Transfer), NEW t \in Transfer
    PROVE  /\ IsFiniteSet(Others(t)) /\ Cardinality(Others(t)) \in Nat
           /\ \A W \in SUBSET Others(t) :
                 /\ IsFiniteSet(W) /\ Cardinality(W) \in Nat
                 /\ Cardinality(W) <= Cardinality(Others(t))
           /\ \A w : IsFiniteSet(Writers(w)) /\ Cardinality(Writers(w)) \in Nat
<1>1. Others(t) \in SUBSET Transfer
  BY DEF Others
<1>2. \A w : Writers(w) \in SUBSET Transfer
  BY DEF Writers, Touching
<1> QED
  BY <1>1, <1>2, FS_Subset, FS_CardinalityType

LEMMA SubsetCounts ==
    ASSUME NEW S, IsFiniteSet(S), NEW T \in SUBSET S
    PROVE  Cardinality(T) <= Cardinality(S) /\ Cardinality(T) \in Nat
  BY FS_Subset, FS_CardinalityType

(* What is committed stays committed.                                      *)
LEMMA History ==
    ASSUME IInv, [Next]_vars
    PROVE  /\ dto' = dto
           /\ \A u \in Transfer : posted[u] = 1 => posted'[u] = 1
           /\ \A w \in Wallet : version'[w] >= version[w]
           /\ \A t \in Transfer : Others(t) \subseteq Others(t)'
<1>1. /\ dto' = dto
      /\ \A u \in Transfer : posted[u] = 1 => posted'[u] = 1
      /\ \A w \in Wallet : version'[w] >= version[w]
  <2>1. /\ posted \in [Transfer -> 0..1] /\ version \in [Wallet -> Nat]
        /\ \A t \in Txn, w \in Wallet : dVersion[t][w] \in Nat
    BY DEF IInv, RequestTypeOK, StoreInv, StoreTypeOK
  <2>2. CASE UNCHANGED <<balance, version, posted, dto>>
    BY <2>1, <2>2
  <2>3. ASSUME NEW t \in Transfer, CommitsOne(t)
        PROVE  /\ dto' = dto
               /\ \A u \in Transfer : posted[u] = 1 => posted'[u] = 1
               /\ \A w \in Wallet : version'[w] >= version[w]
    <3>1. t \in Txn /\ posted[t] = 0
      BY <2>3, Facts DEF CommitsOne, PerTransfer, Unanswered
    <3>2. \A w \in Wallet : version'[w] = version[w] + dVersion[t][w]
      BY <2>3 DEF CommitsOne, CommitTxn
    <3>3. dto' = dto /\ \A u \in Transfer \ {t} : posted'[u] = posted[u]
      BY <2>1, <2>3 DEF CommitsOne
    <3>4. \A w \in Wallet : version'[w] >= version[w]
      BY <2>1, <3>1, <3>2
    <3> QED
      BY <3>1, <3>3, <3>4
  <2> QED
    BY <2>2, <2>3, CommitOrNot
<1>2. \A t \in Transfer : Others(t) \subseteq Others(t)'
  BY <1>1 DEF Others
<1> QED
  BY <1>1, <1>2

(* A version counts its writers: a commit bumps both rows by one.          *)
LEMMA VersionCountsNext ==
    ASSUME IsFiniteSet(Transfer), IInv, VersionCounts, \A t \in Transfer : Bumped(t),
           [Next]_vars
    PROVE  VersionCounts'
<1>1. CASE UNCHANGED <<balance, version, posted, dto>>
  BY <1>1 DEF VersionCounts, Writers, Touching
<1>2. ASSUME NEW t \in Transfer, CommitsOne(t), NEW w \in Wallet
      PROVE  version'[w] = Cardinality(Writers(w)')
  <2>1. /\ posted[t] = 0 /\ posted \in [Transfer -> 0..1]
        /\ version[w] \in Nat /\ version[w] = Cardinality(Writers(w))
    BY <1>2, Facts DEF CommitsOne, PerTransfer, Unanswered, RequestTypeOK, StoreInv, StoreTypeOK,
       VersionCounts
  <2>2. version'[w] = version[w] + (IF w \in {dto[t].from, dto[t].to} THEN 1 ELSE 0)
    <3>1. Bumped(t) /\ pc[t] = "commit" /\ CommitTxn(t)
      BY <1>2 DEF CommitsOne
    <3>2. dVersion[t][w] = IF w \in {dto[t].from, dto[t].to} THEN 1 ELSE 0
      BY <3>1 DEF Bumped
    <3> QED
      BY <3>1, <3>2 DEF CommitTxn
  <2>3. dto' = dto /\ posted'[t] = 1 /\ \A u \in Transfer \ {t} : posted'[u] = posted[u]
    BY <1>2, <2>1 DEF CommitsOne
  <2>4. t \notin Writers(w) /\ IsFiniteSet(Writers(w))
    <3>1. IsFiniteSet(Writers(w))
      BY <1>2, Counts
    <3> QED
      BY <2>1, <3>1 DEF Writers, Touching
  <2>5. CASE w \in {dto[t].from, dto[t].to}
    <3>1. Writers(w)' = Writers(w) \cup {t}
      BY <2>1, <2>3, <2>5 DEF Writers, Touching
    <3>2. Cardinality(Writers(w) \cup {t}) = Cardinality(Writers(w)) + 1
      BY <2>4, FS_AddElement
    <3> QED
      BY <2>1, <2>2, <2>5, <3>1, <3>2
  <2>6. CASE w \notin {dto[t].from, dto[t].to}
    <3>1. Writers(w)' = Writers(w)
      BY <2>1, <2>3, <2>6 DEF Writers, Touching
    <3> QED
      BY <2>1, <2>2, <2>6, <3>1
  <2> QED
    BY <2>5, <2>6
<1> QED
  BY <1>1, <1>2, CommitOrNot DEF VersionCounts

(* An update that misses its version was beaten by a writer it had not     *)
(* counted.                                                                *)
LEMMA MissedMeansBeaten ==
    ASSUME IsFiniteSet(Transfer), IInv, VersionCounts, NEW t \in Transfer, posted[t] = 0,
           NEW w \in Wallet, w \in {dto[t].from, dto[t].to}, NEW W \in SUBSET Others(t),
           attempt[t] <= 1 + Cardinality(W), NEW v \in Nat,
           Cardinality(Touching(W, w)) <= v, v < version[w]
    PROVE  attempt[t] <= Cardinality(Others(t))
<1>1. /\ version[w] = Cardinality(Writers(w)) /\ version[w] \in Nat
      /\ attempt[t] \in Nat
  BY Facts DEF VersionCounts, StoreInv, StoreTypeOK, RequestTypeOK
<1>2. Touching(W, w) \in SUBSET Transfer
  BY DEF Touching, Others
<1>3. ~(Writers(w) \subseteq W)
  <2> SUFFICES ASSUME Writers(w) \subseteq W PROVE FALSE
    OBVIOUS
  <2>1. Writers(w) \in SUBSET Touching(W, w)
    BY DEF Writers, Touching
  <2>2. IsFiniteSet(Touching(W, w))
    BY <1>2, FS_Subset
  <2>3. /\ Cardinality(Writers(w)) <= Cardinality(Touching(W, w))
        /\ Cardinality(Touching(W, w)) \in Nat
    BY <2>1, <2>2, SubsetCounts, FS_CardinalityType
  <2> QED
    BY <1>1, <2>3
<1>4. PICK u \in Writers(w) : u \notin W
  BY <1>3
<1>5. u \in Others(t)
  <2>1. u \in Transfer /\ posted[u] = 1 /\ w \in {dto[u].from, dto[u].to}
    BY <1>4 DEF Writers, Touching
  <2>2. u # t /\ w \in {dto[u].from, dto[u].to} \cap {dto[t].from, dto[t].to}
    <3>1. u # t
      BY <2>1
    <3>2. w \in {dto[t].from, dto[t].to}
      OBVIOUS
    <3> QED
      BY <2>1, <3>1, <3>2
  <2> QED
    BY <2>1, <2>2 DEF Others
<1>6. W \cup {u} \in SUBSET Others(t)
  BY <1>5
<1>7. /\ IsFiniteSet(W) /\ Cardinality(W) \in Nat
      /\ Cardinality(W \cup {u}) <= Cardinality(Others(t))
      /\ Cardinality(Others(t)) \in Nat
  BY <1>6, Counts
<1>8. Cardinality(W \cup {u}) = Cardinality(W) + 1
  BY <1>4, <1>7, FS_AddElement
<1> QED
  BY <1>1, <1>7, <1>8

(* A request that gets no further keeps the account of its attempts.       *)
LEMMA StillBeaten ==
    ASSUME IInv, [Next]_vars, NEW t \in Transfer, Beaten(t),
           attempt'[t] = attempt[t], seen'[t] = seen[t],
           pc'[t] \in AfterFrom => pc[t] \in AfterFrom,
           pc'[t] \in AfterTo => pc[t] \in AfterTo
    PROVE  Beaten(t)'
<1>1. PICK W : BeatenBy(t, W)
  BY DEF Beaten
<1>2. BeatenBy(t, W)'
  BY <1>1, History DEF BeatenBy, Touching
<1> QED
  BY <1>2 DEF Beaten

(* What a transfer has seen of the versions stays in their past.           *)
LEMMA StillSeen ==
    ASSUME IInv, IInv', [Next]_vars, NEW t \in Transfer, SeenTo(t), seen'[t] = seen[t],
           pc'[t] \in AfterTo => pc[t] \in AfterTo
    PROVE  SeenTo(t)'
<1>1. /\ version \in [Wallet -> Nat] /\ version' \in [Wallet -> Nat]
      /\ seen[t].to.version \in Nat
  BY Facts DEF IInv, StoreInv, StoreTypeOK
<1> SUFFICES ASSUME pc[t] \in AfterTo, dto[t].to \in Wallet
             PROVE  seen[t].to.version <= version'[dto[t].to]
  BY History DEF SeenTo
<1>2. version'[dto[t].to] >= version[dto[t].to] /\ seen[t].to.version <= version[dto[t].to]
  BY History DEF SeenTo
<1>3. version[dto[t].to] \in Nat /\ version'[dto[t].to] \in Nat
  BY <1>1
<1> QED
  BY <1>1, <1>2, <1>3

(* A transfer that lost has lost for ever: its winners stay committed.     *)
LEMMA StillLost ==
    ASSUME IsFiniteSet(Transfer), IInv, IInv', [Next]_vars, NEW t \in Transfer,
           attempt'[t] = attempt[t], attempt[t] <= Cardinality(Others(t))
    PROVE  attempt'[t] <= Cardinality(Others(t)')
<1>1. Others(t) \in SUBSET Others(t)' /\ Others(t)' \in SUBSET Transfer
  BY History DEF Others
<1>2. IsFiniteSet(Others(t)')
  BY <1>1, FS_Subset
<1>3. Cardinality(Others(t)) <= Cardinality(Others(t)')
  BY <1>1, <1>2, SubsetCounts
<1>4. attempt[t] \in Nat /\ Cardinality(Others(t)) \in Nat /\ Cardinality(Others(t)') \in Nat
  BY <1>2, Counts, Facts, FS_CardinalityType DEF RequestTypeOK
<1> QED
  BY <1>3, <1>4

(* What others do leaves the account of a request as it is.                *)
LEMMA OnlookerFought ==
    ASSUME IsFiniteSet(Transfer), IInv, IInv', [Next]_vars, NEW t \in Transfer, Fought(t),
           attempt'[t] = attempt[t], Untouched(t), dVersion'[t] = dVersion[t]
    PROVE  Fought(t)'
<1>1. Bumped(t)'
  BY History DEF Fought, Bumped, Untouched, Only, Nothing
<1>2. SeenTo(t)' /\ Beaten(t)'
  BY StillSeen, StillBeaten DEF Fought, Untouched
<1>3. Lost(t)'
  <2> SUFFICES ASSUME Losing(t)' PROVE attempt'[t] <= Cardinality(Others(t)')
    BY DEF Lost
  <2>1. Losing(t)
    BY DEF Losing, Untouched
  <2> QED
    BY <2>1, StillLost DEF Fought, Lost
<1> QED
  BY <1>1, <1>2, <1>3 DEF Fought

LEMMA ReadsFought ==
    ASSUME IsFiniteSet(Transfer), IInv, IInv', [Next]_vars, VersionCounts,
           NEW t \in Transfer, Fought(t), Arrive(t) \/ Read(t)
    PROVE  Fought(t)'
<1>1. /\ RequestTypeOK /\ StoreInv /\ t \in Txn /\ PerTransfer(t)
      /\ dto[t] \in [caller: Merchant, from: WalletId, to: WalletId, amount: Nat \ {0}]
  BY Facts
<1>2. reply[t] = "none" /\ UNCHANGED <<version, dto, posted, reply, dVersion>>
      /\ pc'[t] \in {"readFrom", "readTo", "validate"}
  BY <1>1 DEF Arrive, Read, ReadFrom, ReadTo, Goto, storeVars, PerTransfer, Unanswered,
     RequestTypeOK
<1>3. Bumped(t)' /\ Lost(t)'
  BY <1>2 DEF Bumped, Lost, Losing
<1>4. Others(t)' = Others(t)
  BY <1>2 DEF Others
<1>5. \A W \in SUBSET Others(t), w \in Wallet : Cardinality(Touching(W, w)) <= version[w]
  <2> SUFFICES ASSUME NEW W \in SUBSET Others(t), NEW w \in Wallet
               PROVE  Cardinality(Touching(W, w)) <= version[w]
    OBVIOUS
  <2>1. Touching(W, w) \in SUBSET Writers(w)
    BY DEF Touching, Writers, Others
  <2> QED
    BY <2>1, Counts, SubsetCounts DEF VersionCounts
<1>6. CASE Arrive(t)
  <2>1. pc'[t] = "readFrom" /\ attempt'[t] = 1
    BY <1>1, <1>6 DEF Arrive, Goto, RequestTypeOK
  <2>2. BeatenBy(t, {})'
    BY <2>1, FS_EmptySet DEF BeatenBy, AfterFrom, AfterTo
  <2> QED
    BY <1>3, <2>1, <2>2 DEF Fought, Beaten, SeenTo, AfterTo
<1>7. CASE ReadFrom(t)
  <2>1. /\ pc[t] = "readFrom" /\ pc'[t] = "readTo" /\ attempt'[t] = attempt[t]
        /\ seen'[t].from = RowOf(t, dto[t].from)
    BY <1>1, <1>7 DEF ReadFrom, Goto, RequestTypeOK
  <2>2. ASSUME dto[t].from \in Wallet
        PROVE  seen'[t].from.version = version[dto[t].from]
    BY <1>1, <2>1, <2>2 DEF RowOf, Row, PerTransfer, Wrote, BeforeWrites, Nothing, StoreInv,
       StoreTypeOK
  <2>3. PICK W : BeatenBy(t, W)
    BY DEF Fought, Beaten
  <2>4. BeatenBy(t, W)'
    BY <1>2, <1>4, <1>5, <2>1, <2>2, <2>3 DEF BeatenBy, AfterFrom, AfterTo, Touching
  <2> QED
    BY <1>3, <2>1, <2>4 DEF Fought, Beaten, SeenTo, AfterTo
<1>8. CASE ReadTo(t)
  <2>1. /\ pc[t] = "readTo" /\ pc'[t] = "validate" /\ attempt'[t] = attempt[t]
        /\ seen'[t].to = RowOf(t, dto[t].to) /\ seen'[t].from = seen[t].from
    BY <1>1, <1>8 DEF ReadTo, Goto, RequestTypeOK
  <2>2. ASSUME dto[t].to \in Wallet
        PROVE  seen'[t].to.version = version[dto[t].to] /\ version[dto[t].to] \in Nat
    BY <1>1, <2>1, <2>2 DEF RowOf, Row, PerTransfer, Wrote, BeforeWrites, Nothing, StoreInv,
       StoreTypeOK
  <2>3. PICK W : BeatenBy(t, W)
    BY DEF Fought, Beaten
  <2>4. BeatenBy(t, W)'
    BY <1>2, <1>4, <1>5, <2>1, <2>2, <2>3 DEF BeatenBy, AfterFrom, AfterTo, InTransaction,
       Touching
  <2>5. SeenTo(t)'
    BY <1>2, <2>2 DEF SeenTo
  <2> QED
    BY <1>3, <2>4, <2>5 DEF Fought, Beaten
<1> QED
  BY <1>6, <1>7, <1>8 DEF Read

(* The statements between the reads and the updates.                       *)
LEMMA MidwayFought ==
    ASSUME IsFiniteSet(Transfer), IInv, IInv', [Next]_vars, NEW t \in Transfer, Fought(t),
           Accept(t) \/ Record(t)
    PROVE  Fought(t)'
<1>1. RequestTypeOK /\ PerTransfer(t)
  BY Facts
<1>2. /\ pc[t] \in {"validate", "ledgerDebit", "ledgerCredit"}
      /\ pc'[t] \in {"ledgerDebit", "ledgerCredit", "debit"}
      /\ attempt'[t] = attempt[t] /\ seen'[t] = seen[t] /\ reply'[t] = reply[t]
  BY <1>1 DEF Accept, Record, LedgerDebit, LedgerCredit, Goto, RequestTypeOK
<1>3. reply[t] = "none"
  BY <1>1, <1>2 DEF PerTransfer, Unanswered
<1>4. Bumped(t)' /\ Lost(t)'
  BY <1>2, <1>3 DEF Bumped, Lost, Losing
<1>5. SeenTo(t)' /\ Beaten(t)'
  BY <1>2, StillSeen, StillBeaten DEF Fought, AfterFrom, AfterTo, InTransaction
<1> QED
  BY <1>4, <1>5 DEF Fought

(* The first update bumps the source, or the attempt is lost to a writer   *)
(* of the source.                                                          *)
LEMMA DebitFought ==
    ASSUME IsFiniteSet(Transfer), IInv, IInv', [Next]_vars, VersionCounts, Seen,
           NEW t \in Transfer, Fought(t), Debit(t)
    PROVE  Fought(t)'
<1>1. /\ RequestTypeOK /\ StoreInv /\ t \in Txn /\ PerTransfer(t)
      /\ seen[t].from.version \in Nat
  BY Facts
<1>2. PICK updated \in BOOLEAN :
          /\ ApplyDeltaIfVersion(t, dto[t].from, -dto[t].amount,
                                 seen[t].from.version, updated)
          /\ okFrom' = [okFrom EXCEPT ![t] = updated]
  BY DEF Debit
<1>3. /\ pc[t] = "debit" /\ pc'[t] = "credit" /\ okFrom'[t] = updated
      /\ attempt'[t] = attempt[t] /\ seen'[t] = seen[t] /\ reply'[t] = reply[t]
  BY <1>1, <1>2 DEF Debit, Goto, RequestTypeOK
<1>4. /\ reply[t] = "none" /\ posted[t] = 0 /\ dVersion[t] = Nothing
      /\ dto[t].from \in Wallet
  BY <1>1, <1>3 DEF PerTransfer, Unanswered, Wrote, Accepted, Writing
<1>5. SeenTo(t)' /\ Beaten(t)'
  BY <1>3, StillSeen, StillBeaten DEF Fought, AfterFrom, AfterTo, InTransaction
<1>6. CASE updated
  <2>1. UpdateMatched(t, dto[t].from, -dto[t].amount, seen[t].from.version)
    BY <1>2, <1>6 DEF ApplyDeltaIfVersion
  <2>2. dVersion'[t] = [dVersion[t] EXCEPT ![dto[t].from] = @ + 1]
    BY <1>1, <2>1 DEF UpdateMatched, StoreInv, StoreTypeOK
  <2>3. dVersion'[t] = Only(dto[t].from, 1)'
    BY <1>4, <2>2, History DEF Nothing, Only
  <2>4. Bumped(t)' /\ Lost(t)'
    BY <1>3, <1>4, <1>6, <2>3 DEF Bumped, Lost, Losing
  <2> QED
    BY <1>5, <2>4 DEF Fought
<1>7. CASE ~updated
  <2>1. UpdateMissed(t, dto[t].from, seen[t].from.version)
    BY <1>2, <1>7 DEF ApplyDeltaIfVersion
  <2>2. dVersion' = dVersion
    BY <2>1 DEF UpdateMissed, pendingVars
  <2>3. Bumped(t)'
    BY <1>3, <1>4, <1>7, <2>2 DEF Bumped, Nothing
  <2>4. seen[t].from.version < version[dto[t].from]
    <3>1. version[dto[t].from] \in Nat /\ dVersion[t][dto[t].from] = 0
      BY <1>1, <1>4 DEF StoreInv, StoreTypeOK, Nothing
    <3>2. version[dto[t].from] + dVersion[t][dto[t].from] # seen[t].from.version
      BY <2>1 DEF UpdateMissed, VersionMatches, Row
    <3>3. seen[t].from.version <= version[dto[t].from]
      BY <1>1, <1>3, <1>4 DEF Seen, Current, InTransaction
    <3> QED
      BY <1>1, <3>1, <3>2, <3>3
  <2>5. PICK W : BeatenBy(t, W)
    BY DEF Fought, Beaten
  <2>6. attempt[t] <= Cardinality(Others(t))
    <3>1. PICK w \in Wallet, v \in Nat : w = dto[t].from /\ v = seen[t].from.version
      BY <1>1, <1>4
    <3>2. /\ W \in SUBSET Others(t) /\ attempt[t] <= 1 + Cardinality(W)
          /\ Cardinality(Touching(W, w)) <= v /\ v < version[w]
      BY <1>3, <1>4, <2>4, <2>5, <3>1 DEF BeatenBy, AfterFrom, InTransaction
    <3> QED
      BY <1>4, <3>1, <3>2, MissedMeansBeaten
  <2>7. Lost(t)'
    BY <1>3, <2>6, StillLost DEF Lost
  <2> QED
    BY <1>5, <2>3, <2>7 DEF Fought
<1> QED
  BY <1>6, <1>7

(* The second bumps the destination too, or the attempt is lost.           *)
LEMMA CreditFought ==
    ASSUME IsFiniteSet(Transfer), IInv, IInv', [Next]_vars, VersionCounts,
           NEW t \in Transfer, Fought(t), Credit(t)
    PROVE  Fought(t)'
<1>1. /\ RequestTypeOK /\ StoreInv /\ t \in Txn /\ PerTransfer(t)
      /\ seen[t].to.version \in Nat /\ dto[t].from # dto[t].to
  BY Facts
<1>2. PICK updated \in BOOLEAN :
          /\ ApplyDeltaIfVersion(t, dto[t].to, dto[t].amount,
                                 seen[t].to.version, updated)
          /\ Goto(t, IF BothUpdated(okFrom[t], updated) THEN "commit" ELSE "conflict")
  BY DEF Credit
<1>3. /\ pc[t] = "credit"
      /\ pc'[t] = IF okFrom[t] /\ updated THEN "commit" ELSE "conflict"
      /\ attempt'[t] = attempt[t] /\ seen'[t] = seen[t] /\ reply'[t] = reply[t]
  BY <1>1, <1>2 DEF Credit, Goto, BothUpdated, RequestTypeOK
<1>4. /\ reply[t] = "none" /\ posted[t] = 0 /\ dto[t].to \in Wallet
      /\ okFrom[t] => dVersion[t] = Only(dto[t].from, 1)
      /\ dVersion[t][dto[t].to] = 0
  BY <1>1, <1>3 DEF PerTransfer, Unanswered, Accepted, Writing, Fought, Bumped, Only, Nothing
<1>5. SeenTo(t)' /\ Beaten(t)'
  BY <1>3, StillSeen, StillBeaten DEF Fought, AfterFrom, AfterTo, InTransaction
<1>6. CASE okFrom[t] /\ updated
  <2>1. UpdateMatched(t, dto[t].to, dto[t].amount, seen[t].to.version)
    BY <1>2, <1>6 DEF ApplyDeltaIfVersion
  <2>2. dVersion'[t] = [dVersion[t] EXCEPT ![dto[t].to] = @ + 1]
    BY <1>1, <2>1 DEF UpdateMatched, StoreInv, StoreTypeOK
  <2>3. dVersion'[t] = [w \in Wallet |-> IF w \in {dto[t].from, dto[t].to} THEN 1 ELSE 0]
    BY <1>1, <1>4, <1>6, <2>2 DEF Only
  <2>4. Bumped(t)' /\ Lost(t)'
    BY <1>3, <1>4, <1>6, <2>3, History DEF Bumped, Lost, Losing
  <2> QED
    BY <1>5, <2>4 DEF Fought
<1>7. ASSUME attempt[t] <= Cardinality(Others(t)), pc'[t] = "conflict"
      PROVE  Fought(t)'
  <2>1. Lost(t)' /\ Bumped(t)'
    BY <1>3, <1>7, StillLost DEF Lost, Bumped
  <2> QED
    BY <1>5, <2>1 DEF Fought
<1>8. CASE ~okFrom[t]
  BY <1>3, <1>7, <1>8 DEF Fought, Lost, Losing
<1>9. CASE ~updated
  <2>1. UpdateMissed(t, dto[t].to, seen[t].to.version)
    BY <1>2, <1>9 DEF ApplyDeltaIfVersion
  <2>2. seen[t].to.version < version[dto[t].to]
    <3>1. version[dto[t].to] \in Nat
      BY <1>1, <1>4 DEF StoreInv, StoreTypeOK
    <3>2. version[dto[t].to] + dVersion[t][dto[t].to] # seen[t].to.version
      BY <2>1 DEF UpdateMissed, VersionMatches, Row
    <3>3. seen[t].to.version <= version[dto[t].to]
      BY <1>3, <1>4 DEF Fought, SeenTo, AfterTo, InTransaction
    <3> QED
      BY <1>1, <1>4, <3>1, <3>2, <3>3
  <2>3. PICK W : BeatenBy(t, W)
    BY DEF Fought, Beaten
  <2>4. attempt[t] <= Cardinality(Others(t))
    <3>1. PICK w \in Wallet, v \in Nat : w = dto[t].to /\ v = seen[t].to.version
      BY <1>1, <1>4
    <3>2. /\ W \in SUBSET Others(t) /\ attempt[t] <= 1 + Cardinality(W)
          /\ Cardinality(Touching(W, w)) <= v /\ v < version[w]
      BY <1>3, <1>4, <2>2, <2>3, <3>1 DEF BeatenBy, AfterTo, InTransaction
    <3> QED
      BY <1>4, <3>1, <3>2, MissedMeansBeaten
  <2> QED
    BY <1>3, <1>7, <1>9, <2>4
<1> QED
  BY <1>6, <1>8, <1>9

(* A lost attempt makes room for another; the last one is answered 409.    *)
LEMMA RetryFought ==
    ASSUME IsFiniteSet(Transfer), IInv, IInv', [Next]_vars, NEW t \in Transfer, Fought(t),
           Retry(t)
    PROVE  Fought(t)'
<1>1. RequestTypeOK /\ PerTransfer(t)
  BY Facts
<1>2. /\ pc[t] = "conflict" /\ pc'[t] = "readFrom" /\ attempt'[t] = attempt[t] + 1
      /\ UNCHANGED <<dto, posted, reply>>
  BY <1>1 DEF Retry, Goto, RequestTypeOK
<1>3. reply[t] = "none"
  BY <1>1, <1>2 DEF PerTransfer, Unanswered
<1>4. attempt[t] <= Cardinality(Others(t)) /\ attempt[t] \in Nat
      /\ Cardinality(Others(t)) \in Nat
  BY <1>1, <1>2, Counts DEF Fought, Lost, Losing, RequestTypeOK
<1>5. PICK W : W = Others(t)
  OBVIOUS
<1>6. BeatenBy(t, W)'
  <2>1. W \in SUBSET Others(t)'
    BY <1>5, History
  <2>2. attempt'[t] <= 1 + Cardinality(W)
    BY <1>2, <1>4, <1>5
  <2> QED
    BY <1>2, <2>1, <2>2 DEF BeatenBy, AfterFrom, AfterTo
<1>7. Bumped(t)' /\ SeenTo(t)' /\ Lost(t)'
  BY <1>2, <1>3 DEF Bumped, SeenTo, AfterTo, Lost, Losing
<1> QED
  BY <1>6, <1>7 DEF Fought, Beaten

(* A transfer answers 409 only from a conflict it has lost.                *)
LEMMA AnswerFought ==
    ASSUME IsFiniteSet(Transfer), IInv, IInv', [Next]_vars, NEW t \in Transfer, Fought(t),
           NEW said, Answer(t, said), said = "409" => pc[t] = "conflict",
           UNCHANGED <<attempt, seen>>
    PROVE  Fought(t)'
<1>1. pc'[t] = "done" /\ reply'[t] = said
  BY Facts DEF Answer, Goto, RequestTypeOK
<1>2. Bumped(t)'
  BY <1>1 DEF Bumped
<1>3. SeenTo(t)' /\ Beaten(t)'
  BY <1>1, StillSeen, StillBeaten DEF Fought, AfterFrom, AfterTo, InTransaction
<1>4. Lost(t)'
  <2> SUFFICES ASSUME Losing(t)' PROVE attempt'[t] <= Cardinality(Others(t)')
    BY DEF Lost
  <2>1. Losing(t)
    BY <1>1 DEF Losing
  <2> QED
    BY <2>1, StillLost DEF Fought, Lost
<1> QED
  BY <1>2, <1>3, <1>4 DEF Fought

(* So whatever a transfer does, it has lost no attempt without a winner.   *)
LEMMA OwnFought ==
    ASSUME IsFiniteSet(Transfer), IInv, IInv', [Next]_vars, VersionCounts, Seen,
           NEW t \in Transfer, Fought(t), Arrive(t) \/ Step(t) \/ Disturbance(t)
    PROVE  Fought(t)'
<1>1. CASE Arrive(t) \/ Read(t)
  BY <1>1, ReadsFought
<1>2. CASE Accept(t) \/ Record(t) \/ Debit(t) \/ Credit(t) \/ Retry(t)
  BY <1>2, MidwayFought, DebitFought, CreditFought, RetryFought
<1>3. CASE Refuse(t)
  <2>1. Validate(t) # "409"
    BY DEF Validate
  <2> QED
    BY <1>3, <2>1, AnswerFought DEF Refuse
<1>4. CASE Commit(t) \/ GiveUp(t) \/ AckLost(t) \/ Crash(t)
  BY <1>4, AnswerFought DEF Commit, GiveUp, AckLost, Crash
<1>5. CASE Rejected(t) \/ DeadlockVictim(t) \/ DbError(t)
  BY <1>5, AnswerFought DEF Rejected, DeadlockVictim, DbError, Fails
<1> QED
  BY <1>1, <1>2, <1>3, <1>4, <1>5 DEF Step, Finish, Disturbance

LEMMA FoughtNext ==
    ASSUME IsFiniteSet(Transfer), IInv, IInv', [Next]_vars, VersionCounts, Seen,
           NEW t \in Transfer, Fought(t)
    PROVE  Fought(t)'
<1>1. CASE UNCHANGED vars
  BY <1>1, OnlookerFought DEF vars, storeVars, transferVars, Untouched
<1>2. ASSUME NEW u \in Transfer, Arrive(u) \/ Step(u) \/ Disturbance(u)
      PROVE  Fought(t)'
  <2>1. CASE u = t
    BY <1>2, <2>1, OwnFought
  <2>2. CASE u # t
    BY <1>2, <2>2, OthersStand, OnlookerFought
  <2> QED
    BY <2>1, <2>2
<1> QED
  BY <1>1, <1>2 DEF Next, Terminated

LEMMA InitFought ==
    ASSUME IsFiniteSet(Transfer), Init
    PROVE  VersionCounts /\ \A t \in Transfer : Fought(t)
<1>1. ASSUME NEW w \in Wallet PROVE version[w] = Cardinality(Writers(w))
  <2>1. version[w] = 0 /\ \A t \in Transfer : posted[t] = 0
    BY DEF Init, StoreInit, TransferInit, Nothing
  <2>2. Writers(w) = {}
    BY <2>1 DEF Writers, Touching
  <2> QED
    BY <2>1, <2>2, FS_EmptySet
<1>2. ASSUME NEW t \in Transfer PROVE Fought(t)
  <2>1. pc[t] = "idle" /\ attempt[t] = 0 /\ reply[t] = "none"
    BY DEF Init, TransferInit
  <2>2. BeatenBy(t, {})
    BY <2>1, FS_EmptySet DEF BeatenBy, AfterFrom, AfterTo, InTransaction
  <2> QED
    BY <2>1, <2>2 DEF Fought, Beaten, Bumped, SeenTo, AfterTo, InTransaction, Lost, Losing
<1> QED
  BY <1>1, <1>2 DEF VersionCounts

(* Lock-freedom: every attempt that fails its version check is made up for *)
(* by a transfer of somebody else that was committed to one of the two     *)
(* wallets, a different one each time.                                     *)
THEOREM ConflictsAlwaysHaveWinners ==
    ASSUME IsFiniteSet(Transfer)
    PROVE  Spec => []ConflictsHaveWinners
<1> DEFINE J == VersionCounts /\ \A t \in Transfer : Fought(t)
<1>1. Init => J
  BY InitFought
<1>2. IInv /\ IInv' /\ Seen /\ J /\ [Next]_vars => J'
  <2> SUFFICES ASSUME IInv, IInv', Seen, J, [Next]_vars PROVE J'
    OBVIOUS
  <2>1. VersionCounts'
    BY VersionCountsNext DEF Fought
  <2>2. ASSUME NEW t \in Transfer PROVE Fought(t)'
    BY FoughtNext
  <2> QED
    BY <2>1, <2>2
<1>3. IInv /\ J => ConflictsHaveWinners
  <2> SUFFICES ASSUME IInv, J, NEW t \in Transfer
               PROVE  attempt[t] + (IF reply[t] = "409" THEN 1 ELSE 0)
                         <= 1 + Cardinality(Others(t))
    BY DEF ConflictsHaveWinners
  <2>1. attempt[t] \in Nat /\ Cardinality(Others(t)) \in Nat
    BY Facts, Counts DEF RequestTypeOK
  <2>2. PICK W : BeatenBy(t, W)
    BY DEF Fought, Beaten
  <2>3. attempt[t] <= 1 + Cardinality(W) /\ Cardinality(W) <= Cardinality(Others(t))
        /\ Cardinality(W) \in Nat
    BY <2>2, Counts DEF BeatenBy
  <2>4. reply[t] = "409" => attempt[t] <= Cardinality(Others(t))
    BY DEF Fought, Lost, Losing
  <2> QED
    BY <2>1, <2>3, <2>4
<1> QED
  <2> HIDE DEF J
  <2> QED
    BY <1>1, <1>2, <1>3, Inductive, AlwaysSeen, PTL DEF Spec

----------------------------------------------------------------------------
(* Behind the guard: GuardedTransfers.                                     *)

(* A statement of transfer() that ends it says with which status.          *)
LEMMA HandlerSays ==
    ASSUME IInv, NEW r \in Transfer, pc'[r] = "done",
           Arrive(r) \/ Step(r) \/ DeadlockVictim(r) \/ DbError(r) \/ AckLost(r)
    PROVE  reply'[r] \in {"201", "400", "403", "404", "409", "422", "500"}
<1>1. pc \in [Transfer -> Pc] /\ reply \in [Transfer -> {"none", "noAnswer", "201",
                                "400", "403", "404", "409", "422", "500"}]
  BY DEF IInv, RequestTypeOK
<1> USE DEF Goto, Answer
<1>2. CASE Arrive(r) \/ Read(r) \/ Accept(r) \/ Record(r) \/ Debit(r) \/ Credit(r) \/ Retry(r)
  BY <1>1, <1>2 DEF Arrive, Read, ReadFrom, ReadTo, Accept, Record, LedgerDebit, LedgerCredit,
     Debit, Credit, Retry
<1>3. CASE Refuse(r)
  <2>1. reply'[r] = Validate(r) /\ Validate(r) # "ok"
    BY <1>1, <1>3 DEF Refuse
  <2> QED
    BY <2>1 DEF Validate
<1>4. CASE Commit(r) \/ GiveUp(r) \/ Rejected(r) \/ DeadlockVictim(r) \/ DbError(r) \/ AckLost(r)
  BY <1>1, <1>4 DEF Commit, GiveUp, Rejected, DeadlockVictim, DbError, AckLost, Fails
<1> QED
  BY <1>2, <1>3, <1>4 DEF Step, Finish

(* Behind the guard, the service takes the steps it takes without it.      *)
LEMMA GuardedStepIsServed == [GuardedNext]_guardedVars => [Next]_vars
<1> SUFFICES ASSUME [GuardedNext]_guardedVars PROVE [Next]_vars
  OBVIOUS
<1>1. CASE UNCHANGED guardedVars
  BY <1>1 DEF guardedVars
<1>2. ASSUME NEW r \in Transfer, GuardedArrive(r) \/ GuardStep(r) \/ GuardFault(r)
      PROVE  UNCHANGED vars
  BY <1>2 DEF GuardedArrive, GuardStep, GuardFault
<1>3. ASSUME NEW r \in Transfer, HandlerStep(r) \/ HandlerFault(r)
      PROVE  Next
  BY <1>3 DEF HandlerStep, HandlerFault, Next, Disturbance
<1>4. ASSUME NEW r \in Transfer, ProcessDies(r)
      PROVE  [Next]_vars
  BY <1>4 DEF ProcessDies, Next, Disturbance
<1> QED
  BY <1>1, <1>2, <1>3, <1>4
     DEF GuardedNext, GuardedStep, GuardedDisturbance, GuardedTerminated, guardedVars

(* Behind the idempotency middleware transfer() is the service Transfers   *)
(* models, so whatever is proved of Transfers holds of a guarded request.  *)
THEOREM ServiceIsTransfers == GuardedSpec => Spec
<1>1. GuardedInit => Init
  BY DEF GuardedInit
<1> QED
  BY <1>1, GuardedStepIsServed, PTL DEF GuardedSpec, Spec

(* Seen from the guard, a statement of transfer() is the handler's ending  *)
(* or nothing.                                                             *)
LEMMA HandlerIsHandled ==
    ASSUME IInv, IInv', NEW r \in Transfer, HandlerStep(r) \/ HandlerFault(r)
    PROVE  Guard!Handle(r) \/ UNCHANGED guardVars
<1>1. /\ gpc[r] = "handle" /\ InHandler(r)
      /\ Arrive(r) \/ Step(r) \/ DeadlockVictim(r) \/ DbError(r) \/ AckLost(r)
  BY DEF HandlerStep, HandlerFault
<1>2. SUFFICES ASSUME pc'[r] = "done", HandlerEnds(r) PROVE Guard!Handle(r)
  BY <1>1 DEF InHandler
<1> DEFINE Statuses == {"201", "400", "403", "404", "409", "422", "500"}
           o == IF reply'[r] = "500" /\ posted'[r] > 0 THEN "lost" ELSE reply'[r]
<1>3. reply'[r] \in Statuses
  BY <1>1, <1>2, HandlerSays
<1>4. /\ posted'[r] = 0 \/ posted'[r] = 1
      /\ reply'[r] = "201" => posted'[r] = 1
      /\ reply'[r] \in {"400", "403", "404", "409", "422"} => posted'[r] = 0
  BY DEF IInv, RequestTypeOK, PerTransfer, Honest
<1>5. /\ o \in {"201", "400", "403", "404", "409", "422", "500", "lost"}
      /\ (posted'[r] > 0) = (o \in {"201", "lost"})
  BY <1>3, <1>4
<1>6. /\ outcome' = [outcome EXCEPT ![r] = o]
      /\ executed' = [executed EXCEPT ![r] = o \in {"201", "lost"}]
      /\ gpc' = [gpc EXCEPT ![r] = "persist"]
      /\ UNCHANGED <<keyStatus, keyHash, keyResponse, unclaimed, saveFailed, answered>>
  BY <1>2, <1>5 DEF HandlerEnds
<1> QED
  <2> HIDE DEF o
  <2> QED
    BY <1>1, <1>5, <1>6 DEF Guard!Handle, Guard!Goto, Guard!tableVars

(* So a step of the two together is a step of the guard, or none.          *)
LEMMA GuardedStepIsGuarded ==
    ASSUME IInv, IInv', [GuardedNext]_guardedVars
    PROVE  [Guard!Next]_Guard!vars
<1> USE DEF guardVars, guardedVars, Guard!vars, Guard!tableVars, Guard!requestVars
<1>1. CASE UNCHANGED guardedVars
  BY <1>1
<1>2. ASSUME NEW r \in Transfer,
             GuardedArrive(r) \/ GuardStep(r) \/ GuardFault(r) \/ ProcessDies(r)
      PROVE  Guard!Next
  BY <1>2 DEF GuardedArrive, GuardStep, GuardFault, ProcessDies, Guard!Next, Guard!Step,
     Guard!Disturbance
<1>3. ASSUME NEW r \in Transfer, HandlerStep(r) \/ HandlerFault(r)
      PROVE  Guard!Next \/ UNCHANGED Guard!vars
  BY <1>3, HandlerIsHandled DEF Guard!Next, Guard!Step
<1> QED
  BY <1>1, <1>2, <1>3 DEF GuardedNext, GuardedStep, GuardedDisturbance, GuardedTerminated

(* And the guard Idempotency models, with a handler that is one step, is   *)
(* what the middleware around transfer()'s many statements does.           *)
THEOREM GuardAlwaysImplemented == GuardedSpec => ImplementsGuard
<1>1. GuardedInit => Guard!Init
  BY DEF GuardedInit
<1>2. IInv /\ IInv' /\ [GuardedNext]_guardedVars => [Guard!Next]_Guard!vars
  BY GuardedStepIsGuarded
<1> QED
  BY <1>1, <1>2, ServiceIsTransfers, Inductive, PTL
     DEF GuardedSpec, ImplementsGuard, Guard!Spec

(* What is proved of the guard, about this one.                            *)
IP == INSTANCE IdempotencyProofs WITH
             Request <- Transfer, pc <- gpc, reply <- answered,
             Faults <- GuardFaults,
             Outcome <- {"201", "400", "403", "404", "409", "422", "500", "lost"}

(* What a transfer committed, its handler is known to have executed.       *)
Executed == \A r \in Transfer : posted[r] > 0 => executed[r]

(* The handler is recorded as executed when it ends, and posts before.     *)
LEMMA ExecutedNext ==
    ASSUME IInv, IInv', Guard!TypeOK, Executed, [GuardedNext]_guardedVars
    PROVE  Executed'
<1> USE DEF Guard!TypeOK
<1>1. CASE UNCHANGED guardedVars
  BY <1>1 DEF guardedVars, guardVars, vars, transferVars, Executed
<1>2. ASSUME NEW r \in Transfer, GuardedArrive(r) \/ GuardStep(r) \/ GuardFault(r)
      PROVE  executed' = executed /\ posted' = posted
  BY <1>2 DEF GuardedArrive, GuardStep, GuardFault, vars, transferVars, Guard!Arrive,
     Guard!Claim, Guard!Duplicate, Guard!Lookup, Guard!Release, Guard!Complete, Guard!Send,
     Guard!Reuse, Guard!InProgress, Guard!Replay, Guard!FallThrough, Guard!ClaimFails,
     Guard!ClaimAckLost, Guard!PersistFails
<1>3. ASSUME NEW r \in Transfer, ProcessDies(r)
      PROVE  executed' = executed /\ posted' = posted
  BY <1>3 DEF ProcessDies, Guard!Crash, Crash, vars, transferVars
<1>4. ASSUME NEW r \in Transfer, HandlerStep(r) \/ HandlerFault(r)
      PROVE  Executed'
  <2>1. InHandler(r)
    BY <1>4 DEF HandlerStep, HandlerFault
  <2>2. ASSUME NEW s \in Transfer \ {r} PROVE posted'[s] = posted[s]
    BY <1>4, <2>2, OthersStand DEF HandlerStep, HandlerFault, Disturbance, Untouched
  <2>3. CASE HandlerEnds(r)
    BY <2>2, <2>3 DEF HandlerEnds, Executed
  <2>4. CASE pc'[r] # "done" /\ UNCHANGED guardVars
    <3>1. posted'[r] = 0
      BY <2>4 DEF IInv, PerTransfer, Unanswered
    <3> QED
      BY <2>2, <2>4, <3>1 DEF guardVars, Executed
  <2> QED
    BY <2>1, <2>3, <2>4 DEF InHandler
<1> QED
  BY <1>1, <1>2, <1>3, <1>4
     DEF GuardedNext, GuardedStep, GuardedDisturbance, GuardedTerminated, Executed

(* The guard's own theorems hold of it.                                    *)
LEMMA GuardIsGuard == ImplementsGuard => IP!Spec
<1>1. Guard!Init => IP!Init
  BY DEF Guard!Init, IP!Init, Guard!NoResponse, IP!NoResponse
<1>2. [Guard!Next]_Guard!vars => [IP!Next]_IP!vars
  BY DEF Guard!Next, IP!Next, Guard!vars, IP!vars, Guard!tableVars, IP!tableVars,
     Guard!requestVars, IP!requestVars, Guard!Terminated, IP!Terminated, Guard!Step, IP!Step,
     Guard!Disturbance, IP!Disturbance, Guard!Lookup, IP!Lookup, Guard!Arrive, IP!Arrive,
     Guard!Claim, IP!Claim, Guard!Duplicate, IP!Duplicate, Guard!Reuse, IP!Reuse,
     Guard!InProgress, IP!InProgress, Guard!Replay, IP!Replay, Guard!FallThrough,
     IP!FallThrough, Guard!Handle, IP!Handle, Guard!Release, IP!Release, Guard!Complete,
     IP!Complete, Guard!Send, IP!Send, Guard!ClaimFails, IP!ClaimFails, Guard!ClaimAckLost,
     IP!ClaimAckLost, Guard!PersistFails, IP!PersistFails, Guard!Crash, IP!Crash,
     Guard!Goto, IP!Goto, Guard!Answer, IP!Answer, Guard!InsertRow, IP!InsertRow,
     Guard!Save, IP!Save, Guard!StatusOf, IP!StatusOf, Guard!NoResponse, IP!NoResponse
<1> QED
  BY <1>1, <1>2, PTL DEF ImplementsGuard, Guard!Spec, IP!Spec

(* Its parameters are as the middleware's module asks.                     *)
LEMMA GuardIsIdempotency == IP!IdempotencyAssumption
  BY GuardedAssumption DEF IP!IdempotencyAssumption, Guard!Fault, IP!Fault, IP!HandlerOutcome

LEMMA AlwaysExecuted == GuardedSpec => []Executed
<1>1. IP!Spec => []IP!TypeOK
  BY GuardIsIdempotency, IP!TypeCorrect
<1>2. IP!TypeOK => Guard!TypeOK
  BY DEF IP!TypeOK, Guard!TypeOK, IP!Answered, Guard!Answered, IP!NoResponse,
     Guard!NoResponse, IP!HandlerOutcome, Guard!HandlerOutcome
<1>3. GuardedInit => Executed
  BY DEF GuardedInit, Init, TransferInit, Executed
<1>4. IInv /\ IInv' /\ Guard!TypeOK /\ Executed /\ [GuardedNext]_guardedVars => Executed'
  BY ExecutedNext
<1> QED
  BY <1>1, <1>2, <1>3, <1>4, GuardIsGuard, GuardAlwaysImplemented, ServiceIsTransfers,
     Inductive, PTL DEF GuardedSpec

(* A client that was refused, 4xx, has no transfer committed under its key *)
(* and gets none, unless a request fell through to the handler unclaimed,  *)
(* or the answer to an earlier COMMIT was lost.                            *)
THEOREM RefusalsAreFinal == GuardedSpec => []RefusalIsFinal
<1>1. IP!Spec => []IP!RefusedIsNotExecuted
  BY GuardIsIdempotency, IP!RefusalsStayFinal
<1>2. IP!RefusedIsNotExecuted /\ Executed => RefusalIsFinal
  BY DEF IP!RefusedIsNotExecuted, Executed, RefusalIsFinal, Refusal, IP!Final,
     IP!FellThrough, Guard!FellThrough, IP!AckWasLost, Guard!AckWasLost
<1> QED
  BY <1>1, <1>2, AlwaysExecuted, GuardIsGuard, GuardAlwaysImplemented, PTL

(* The promise of migrations/0004 in terms of the ledger and not of the    *)
(* handler: but for the same two, one transfer is committed under one key. *)
KeyIsSpentOnce ==
    \A r, s \in Transfer :
        KeyOf[r] = KeyOf[s] /\ posted[r] > 0 /\ posted[s] > 0 =>
            r = s \/ Guard!FellThrough(KeyOf[r]) \/ Guard!AckWasLost(KeyOf[r])

(* However requests with one key interleave with each other, and their     *)
(* retries with the retries of transfer(), the ledger has one transaction  *)
(* for the key.                                                            *)
THEOREM OneKeyOneTransfer == GuardedSpec => []KeyIsSpentOnce
<1>1. IP!Spec => []IP!AtMostOnce
  BY GuardIsIdempotency, IP!ExecutesOnce
<1>2. IP!AtMostOnce /\ Executed => KeyIsSpentOnce
  BY DEF IP!AtMostOnce, Executed, KeyIsSpentOnce, IP!FellThrough, Guard!FellThrough,
     IP!AckWasLost, Guard!AckWasLost
<1> QED
  BY <1>1, <1>2, AlwaysExecuted, GuardIsGuard, GuardAlwaysImplemented, PTL

----------------------------------------------------------------------------
(* Among payments and settlement: Platform.  Each of the three keeps its   *)
(* own invariant, and relies on the others for one thing only, that they   *)
(* write in their own transactions.                                        *)

PP == INSTANCE PaymentsProofs WITH
          Owner <- Beneficiary, pc <- at, reply <- answer, Faults <- PaymentFaults

SP == INSTANCE PayoutsProofs WITH
          charged <- [w \in Wallet |-> 0], MaxCharged <- 0, Faults <- SettlementFaults

(* The parameters are as the modules of the three ask.                     *)
LEMMA PaymentsOfPlatform == PP!PaymentsAssumption /\ PP!StoreAssumption
  BY PlatformAssumption, StoreAssumption
     DEF PP!PaymentsAssumption, PP!StoreAssumption, Paying!Fault, PP!Fault

LEMMA SettlementOfPlatform == SP!PayoutsAssumption /\ SP!StoreAssumption
  BY PlatformAssumption, StoreAssumption
     DEF SP!PayoutsAssumption, SP!StoreAssumption, Settling!Fault, SP!Fault

(* They speak of the same rows, locks and pending writes.                  *)
LEMMA SameStore ==
    /\ PP!StoreInv <=> StoreInv
    /\ SP!StoreInv <=> StoreInv
    /\ PP!StoreInv' <=> StoreInv'
    /\ SP!StoreInv' <=> StoreInv'
    /\ PP!BooksBalance' <=> BooksBalance'
    /\ SP!BooksBalance' <=> BooksBalance'
  BY DEF StoreInv, StoreTypeOK, LocksExclude, GuardedWrites, WriteLocked, Compatible, LockMode,
     PP!StoreInv, PP!StoreTypeOK, PP!LocksExclude, PP!GuardedWrites, PP!WriteLocked,
     PP!Compatible, PP!LockMode, SP!StoreInv, SP!StoreTypeOK, SP!LocksExclude,
     SP!GuardedWrites, SP!WriteLocked, SP!Compatible, SP!LockMode,
     BooksBalance, PP!BooksBalance, SP!BooksBalance

LEMMA SameOthers ==
    ASSUME NEW t \in Txn
    PROVE  /\ PP!OthersPending(t) => OthersPending(t)
           /\ SP!OthersPending(t) => OthersPending(t)
  BY DEF OthersPending, PP!OthersPending, SP!OthersPending

(* What they do among the others is what they do alone.                    *)
LEMMA PaymentsAsAlone ==
    /\ \A r \in Request : Paying!Arrive(r) \/ Paying!Step(r) \/ Paying!Disturbance(r)
                           => PP!Arrive(r) \/ PP!Step(r) \/ PP!Disturbance(r)
    /\ \A i \in Intent : Paying!Create(i) => PP!Create(i)
    /\ \A e \in Endpoint : Paying!RegisterEndpoint(e) => PP!RegisterEndpoint(e)
<1>1. \A r \in Request : Paying!Arrive(r) => PP!Arrive(r)
  BY DEF Paying!Arrive, PP!Arrive, Paying!Goto, PP!Goto, Paying!outcomeVars,
         PP!outcomeVars, Paying!storeVars, PP!storeVars
<1>2. \A r \in Request : Paying!LockIntent(r) => PP!LockIntent(r)
  BY DEF Paying!LockIntent, PP!LockIntent, Paying!Visible, PP!Visible, Paying!OfIntent,
         PP!OfIntent, Paying!Goto, PP!Goto, Paying!outcomeVars, PP!outcomeVars,
         Paying!storeVars, PP!storeVars
<1>3. \A r \in Request : Paying!NotFound(r) => PP!NotFound(r)
  BY DEF Paying!NotFound, PP!NotFound, Paying!Visible, PP!Visible, Paying!OfIntent,
         PP!OfIntent, Paying!Fails, PP!Fails, Paying!outcomeVars, PP!outcomeVars,
         Paying!Answer, PP!Answer, Paying!Unlocked, PP!Unlocked, Paying!Goto, PP!Goto,
         Paying!NoDraft, PP!NoDraft, Paying!RollbackTxn, PP!RollbackTxn, Paying!Closed,
         PP!Closed, Paying!Nothing, PP!Nothing, Paying!committedVars, PP!committedVars
<1>4. \A r \in Request : Paying!Accept(r) => PP!Accept(r)
  BY DEF Paying!Accept, PP!Accept, Paying!Allowed, PP!Allowed, Paying!OfIntent,
         PP!OfIntent, Paying!Target, PP!Target, Paying!Goto, PP!Goto,
         Paying!outcomeVars, PP!outcomeVars, Paying!storeVars, PP!storeVars
<1>5. \A r \in Request : Paying!Refuse(r) => PP!Refuse(r)
  BY DEF Paying!Refuse, PP!Refuse, Paying!Allowed, PP!Allowed, Paying!OfIntent,
         PP!OfIntent, Paying!Target, PP!Target, Paying!Fails, PP!Fails,
         Paying!outcomeVars, PP!outcomeVars, Paying!Answer, PP!Answer, Paying!Unlocked,
         PP!Unlocked, Paying!Goto, PP!Goto, Paying!NoDraft, PP!NoDraft,
         Paying!RollbackTxn, PP!RollbackTxn, Paying!Closed, PP!Closed, Paying!Nothing,
         PP!Nothing, Paying!committedVars, PP!committedVars
<1>6. \A r \in Request : Paying!Ledger(r) => PP!Ledger(r)
  BY DEF Paying!Ledger, PP!Ledger, Paying!OfIntent, PP!OfIntent, Paying!AddEntry,
         PP!AddEntry, Paying!Lock, PP!Lock, Paying!Grantable, PP!Grantable,
         Paying!Blockers, PP!Blockers, Paying!Compatible, PP!Compatible,
         Paying!LockMode, PP!LockMode, Paying!Goto, PP!Goto, Paying!outcomeVars,
         PP!outcomeVars, Paying!committedVars, PP!committedVars
<1>7. \A r \in Request : Paying!Credit(r) => PP!Credit(r)
  BY DEF Paying!Credit, PP!Credit, Paying!OfIntent, PP!OfIntent, Paying!ApplyDelta,
         PP!ApplyDelta, Paying!Lock, PP!Lock, Paying!Grantable, PP!Grantable,
         Paying!Blockers, PP!Blockers, Paying!Compatible, PP!Compatible,
         Paying!LockMode, PP!LockMode, Paying!InRange, PP!InRange, Paying!Goto, PP!Goto,
         Paying!outcomeVars, PP!outcomeVars, Paying!committedVars, PP!committedVars
<1>8. \A r \in Request : Paying!CreditRejected(r) => PP!CreditRejected(r)
  BY DEF Paying!CreditRejected, PP!CreditRejected, Paying!OfIntent, PP!OfIntent,
         Paying!Grantable, PP!Grantable, Paying!Blockers, PP!Blockers,
         Paying!Compatible, PP!Compatible, Paying!LockMode, PP!LockMode, Paying!InRange,
         PP!InRange, Paying!Fails, PP!Fails, Paying!outcomeVars, PP!outcomeVars,
         Paying!Answer, PP!Answer, Paying!Unlocked, PP!Unlocked, Paying!Goto, PP!Goto,
         Paying!NoDraft, PP!NoDraft, Paying!RollbackTxn, PP!RollbackTxn, Paying!Closed,
         PP!Closed, Paying!Nothing, PP!Nothing, Paying!committedVars, PP!committedVars
<1>9. \A r \in Request : Paying!Advance(r) => PP!Advance(r)
  BY DEF Paying!Advance, PP!Advance, Paying!Target, PP!Target, Paying!Goto, PP!Goto,
         Paying!outcomeVars, PP!outcomeVars, Paying!storeVars, PP!storeVars
<1>10. \A r \in Request : Paying!Emit(r) => PP!Emit(r)
  BY DEF Paying!Emit, PP!Emit, Paying!ActiveOf, PP!ActiveOf, Paying!Goto, PP!Goto,
         Paying!outcomeVars, PP!outcomeVars, Paying!storeVars, PP!storeVars
<1>11. \A r \in Request : Paying!Enqueue(r) => PP!Enqueue(r)
  BY DEF Paying!Enqueue, PP!Enqueue, Paying!Served, PP!Served, Paying!Goto, PP!Goto,
         Paying!outcomeVars, PP!outcomeVars, Paying!storeVars, PP!storeVars
<1>12. \A r \in Request : Paying!Commit(r) => PP!Commit(r)
  BY DEF Paying!Commit, PP!Commit, Paying!Written, PP!Written, Paying!OfIntent,
         PP!OfIntent, Paying!Answer, PP!Answer, Paying!Unlocked, PP!Unlocked,
         Paying!Goto, PP!Goto, Paying!NoDraft, PP!NoDraft, Paying!CommitTxn,
         PP!CommitTxn, Paying!Closed, PP!Closed, Paying!Nothing, PP!Nothing
<1>13. \A r \in Request : Paying!DbError(r) => PP!DbError(r)
  BY DEF Paying!DbError, PP!DbError, Paying!InTransaction, PP!InTransaction,
         Paying!Fails, PP!Fails, Paying!outcomeVars, PP!outcomeVars, Paying!Answer,
         PP!Answer, Paying!Unlocked, PP!Unlocked, Paying!Goto, PP!Goto, Paying!NoDraft,
         PP!NoDraft, Paying!RollbackTxn, PP!RollbackTxn, Paying!Closed, PP!Closed,
         Paying!Nothing, PP!Nothing, Paying!committedVars, PP!committedVars
<1>14. \A r \in Request : Paying!Crash(r) => PP!Crash(r)
  BY DEF Paying!Crash, PP!Crash, Paying!InTransaction, PP!InTransaction, Paying!Fails,
         PP!Fails, Paying!outcomeVars, PP!outcomeVars, Paying!Answer, PP!Answer,
         Paying!Unlocked, PP!Unlocked, Paying!Goto, PP!Goto, Paying!NoDraft, PP!NoDraft,
         Paying!RollbackTxn, PP!RollbackTxn, Paying!Closed, PP!Closed, Paying!Nothing,
         PP!Nothing, Paying!committedVars, PP!committedVars
<1>15. \A r \in Request : Paying!AckLost(r) => PP!AckLost(r)
  BY DEF Paying!AckLost, PP!AckLost, Paying!Written, PP!Written, Paying!OfIntent,
         PP!OfIntent, Paying!Answer, PP!Answer, Paying!Unlocked, PP!Unlocked,
         Paying!Goto, PP!Goto, Paying!NoDraft, PP!NoDraft, Paying!CommitTxn,
         PP!CommitTxn, Paying!Closed, PP!Closed, Paying!Nothing, PP!Nothing
<1>16. \A i \in Intent : Paying!Create(i) => PP!Create(i)
  BY DEF Paying!Create, PP!Create, Paying!ActiveOf, PP!ActiveOf, Paying!storeVars,
         PP!storeVars
<1>17. \A e \in Endpoint : Paying!RegisterEndpoint(e) => PP!RegisterEndpoint(e)
  BY DEF Paying!RegisterEndpoint, PP!RegisterEndpoint, Paying!storeVars, PP!storeVars
<1> QED
  BY <1>1, <1>2, <1>3, <1>4, <1>5, <1>6, <1>7, <1>8, <1>9,
     <1>10, <1>11, <1>12, <1>13, <1>14, <1>15, <1>16, <1>17
     DEF Paying!Step, PP!Step, Paying!Confirm, PP!Confirm, Paying!Disturbance,
         PP!Disturbance

LEMMA SettlementAsAlone ==
    /\ \A k \in Settler : Settling!SettlerStep(k) \/ Settling!Disturbance(k)
                           => SP!SettlerStep(k) \/ SP!Disturbance(k)
    /\ \A p \in Payout : Settling!BecomesDue(p) => SP!BecomesDue(p)
    /\ \A w \in Wallet : Settling!RegisterAccount(w) => SP!RegisterAccount(w)
<1>1. \A k \in Settler : Settling!SweepList(k) => SP!SweepList(k)
  BY DEF Settling!SweepList, SP!SweepList, Settling!At, SP!At, Settling!storeVars,
         SP!storeVars
<1>2. \A k \in Settler : Settling!SweepCommit(k) => SP!SweepCommit(k)
  BY DEF Settling!SweepCommit, SP!SweepCommit, Settling!At, SP!At, Settling!Status,
         SP!Status, Settling!Goto, SP!Goto, Settling!CommitTxn, SP!CommitTxn,
         Settling!Closed, SP!Closed, Settling!Nothing, SP!Nothing
<1>3. \A k \in Settler : Settling!SweepDone(k) => SP!SweepDone(k)
  BY DEF Settling!SweepDone, SP!SweepDone, Settling!At, SP!At, Settling!Goto, SP!Goto,
         Settling!storeVars, SP!storeVars
<1>4. \A k \in Settler : Settling!ClaimDue(k) => SP!ClaimDue(k)
  BY DEF Settling!ClaimDue, SP!ClaimDue, Settling!At, SP!At, Settling!Due, SP!Due,
         Settling!Status, SP!Status, Settling!ClaimRows, SP!ClaimRows,
         Settling!storeVars, SP!storeVars, Settling!Cardinality, SP!Cardinality
<1>5. \A k \in Settler : Settling!Take(k) => SP!Take(k)
  BY DEF Settling!Take, SP!Take, Settling!At, SP!At, Settling!storeVars, SP!storeVars
<1>6. \A k \in Settler : Settling!TickDone(k) => SP!TickDone(k)
  BY DEF Settling!TickDone, SP!TickDone, Settling!At, SP!At, Settling!Resting,
         SP!Resting, Settling!storeVars, SP!storeVars
<1>7. \A k \in Settler : Settling!SendToBank(k) => SP!SendToBank(k)
  BY DEF Settling!SendToBank, SP!SendToBank, Settling!At, SP!At, Settling!Current,
         SP!Current, Settling!Goto, SP!Goto, Settling!storeVars, SP!storeVars
<1>8. \A k \in Settler : Settling!MarkPaid(k) => SP!MarkPaid(k)
  BY DEF Settling!MarkPaid, SP!MarkPaid, Settling!At, SP!At, Settling!Paid, SP!Paid,
         Settling!Tell, SP!Tell, Settling!Current, SP!Current, Settling!Goto, SP!Goto,
         Settling!storeVars, SP!storeVars
<1>9. \A k \in Settler : Settling!MarkRetry(k) => SP!MarkRetry(k)
  BY DEF Settling!MarkRetry, SP!MarkRetry, Settling!MarkRetryOf, SP!MarkRetryOf,
         Settling!At, SP!At, Settling!Attempts, SP!Attempts, Settling!Current,
         SP!Current, Settling!Goto, SP!Goto, Settling!storeVars, SP!storeVars
<1>10. \A k \in Settler : Settling!Reverse(k) => SP!Reverse(k)
  BY DEF Settling!Reverse, SP!Reverse, Settling!At, SP!At, Settling!Attempts,
         SP!Attempts, Settling!Current, SP!Current, Settling!Goto, SP!Goto,
         Settling!LockAndPost, SP!LockAndPost, Settling!committedVars, SP!committedVars,
         Settling!Lock, SP!Lock, Settling!Grantable, SP!Grantable, Settling!Blockers,
         SP!Blockers, Settling!Compatible, SP!Compatible, Settling!LockMode,
         SP!LockMode, Settling!InRange, SP!InRange
<1>11. \A k \in Settler : Settling!ReverseCommit(k) => SP!ReverseCommit(k)
  BY DEF Settling!ReverseCommit, SP!ReverseCommit, Settling!At, SP!At,
         Settling!Attempts, SP!Attempts, Settling!Current, SP!Current, Settling!Tell,
         SP!Tell, Settling!Goto, SP!Goto, Settling!CommitTxn, SP!CommitTxn,
         Settling!Closed, SP!Closed, Settling!Nothing, SP!Nothing
<1>12. \A k \in Settler : Settling!ReverseRejected(k) => SP!ReverseRejected(k)
  BY DEF Settling!ReverseRejected, SP!ReverseRejected, Settling!At, SP!At,
         Settling!Attempts, SP!Attempts, Settling!Current, SP!Current, Settling!Abandon,
         SP!Abandon, Settling!Resting, SP!Resting, Settling!Grantable, SP!Grantable,
         Settling!Blockers, SP!Blockers, Settling!Compatible, SP!Compatible,
         Settling!LockMode, SP!LockMode, Settling!InRange, SP!InRange,
         Settling!storeVars, SP!storeVars
<1>13. \A k \in Settler : Settling!Abort(k) => SP!Abort(k)
  BY DEF Settling!Abort, SP!Abort, Settling!Misbehave, SP!Misbehave, Settling!Abandon,
         SP!Abandon, Settling!Resting, SP!Resting, Settling!RollbackTxn, SP!RollbackTxn,
         Settling!Closed, SP!Closed, Settling!Nothing, SP!Nothing,
         Settling!committedVars, SP!committedVars
<1>14. \A k \in Settler : Settling!CrashAfterBank(k) => SP!CrashAfterBank(k)
  BY DEF Settling!CrashAfterBank, SP!CrashAfterBank, Settling!Misbehave, SP!Misbehave,
         Settling!At, SP!At, Settling!Current, SP!Current, Settling!Unrecorded,
         SP!Unrecorded, Settling!Abandon, SP!Abandon, Settling!Resting, SP!Resting,
         Settling!storeVars, SP!storeVars
<1>15. \A k \in Settler : Settling!MarkPaidFails(k) => SP!MarkPaidFails(k)
  BY DEF Settling!MarkPaidFails, SP!MarkPaidFails, Settling!Misbehave, SP!Misbehave,
         Settling!At, SP!At, Settling!Current, SP!Current, Settling!RolledBack,
         SP!RolledBack, Settling!Paid, SP!Paid, Settling!Tell, SP!Tell,
         Settling!Unrecorded, SP!Unrecorded, Settling!Goto, SP!Goto, Settling!storeVars,
         SP!storeVars
<1>16. \A k \in Settler, w \in Wallet : Settling!SweepDebit(k, w) => SP!SweepDebit(k, w)
  BY DEF Settling!SweepDebit, SP!SweepDebit, Settling!At, SP!At, Settling!RowsLeft,
         SP!RowsLeft, Settling!Cardinality, SP!Cardinality, Settling!Status, SP!Status,
         Settling!LockAndPost, SP!LockAndPost, Settling!committedVars, SP!committedVars,
         Settling!Lock, SP!Lock, Settling!Grantable, SP!Grantable, Settling!Blockers,
         SP!Blockers, Settling!Compatible, SP!Compatible, Settling!LockMode,
         SP!LockMode, Settling!InRange, SP!InRange
<1>17. \A k \in Settler, w \in Wallet : Settling!SweepSkip(k, w) => SP!SweepSkip(k, w)
  BY DEF Settling!SweepSkip, SP!SweepSkip, Settling!At, SP!At, Settling!RowsLeft,
         SP!RowsLeft, Settling!Cardinality, SP!Cardinality, Settling!Status, SP!Status,
         Settling!Grantable, SP!Grantable, Settling!Blockers, SP!Blockers,
         Settling!Compatible, SP!Compatible, Settling!LockMode, SP!LockMode,
         Settling!storeVars, SP!storeVars
<1>18. \A p \in Payout : Settling!BecomesDue(p) => SP!BecomesDue(p)
  BY DEF Settling!BecomesDue, SP!BecomesDue, Settling!HeldBy, SP!HeldBy,
         Settling!Status, SP!Status, Settling!Current, SP!Current, Settling!storeVars,
         SP!storeVars
<1>19. \A w \in Wallet : Settling!RegisterAccount(w) => SP!RegisterAccount(w)
  BY DEF Settling!RegisterAccount, SP!RegisterAccount, Settling!storeVars, SP!storeVars
<1> QED
  BY <1>1, <1>2, <1>3, <1>4, <1>5, <1>6, <1>7, <1>8, <1>9,
     <1>10, <1>11, <1>12, <1>13, <1>14, <1>15, <1>16, <1>17, <1>18, <1>19
     DEF Settling!SettlerStep, SP!SettlerStep, Settling!Sweep, SP!Sweep, Settling!Process,
         SP!Process, Settling!Disturbance, SP!Disturbance

(* Each is right about its own.                                            *)
TogetherInv == IInv /\ PP!IInv /\ SP!MoneyInv

(* Whose transaction it is, nobody of the other two has anything in it.    *)
LEMMA OwnTransactions ==
    ASSUME NEW t \in Transfer \cup Request \cup Settler, OthersPending(t)
    PROVE  /\ t \notin Transfer => \A u \in Transfer : SamePending(u)
           /\ t \notin Request => \A u \in Request : /\ dBalance'[u] = dBalance[u]
                                                     /\ dNet'[u] = dNet[u]
           /\ t \notin Settler => \A u \in Settler : /\ dBalance'[u] = dBalance[u]
                                                     /\ dNet'[u] = dNet[u]
<1>1. Transfer \cup Request \cup Settler \subseteq Txn
  BY TransferAssumption, PlatformAssumption
<1> QED
  BY <1>1 DEF OthersPending, SamePending

LEMMA SettlementTurns ==
    ASSUME SP!MoneyInv, SettlementStep
    PROVE  /\ SP!Next
           /\ UNCHANGED storeVars \/ \E k \in Settler : OthersPending(k)
<1> USE SettlementOfPlatform, PlatformAssumption
<1>1. ASSUME NEW k \in Settler, Settling!SettlerStep(k) \/ Settling!Disturbance(k)
      PROVE  SP!Next /\ OthersPending(k)
  <2>1. SP!SettlerStep(k) \/ SP!Disturbance(k)
    BY <1>1, SettlementAsAlone
  <2>2. SP!OthersPending(k)
    BY <2>1, SP!SettlerStaysInside
  <2> QED
    BY <2>1, <2>2, SameOthers DEF SP!Next
<1>2. ASSUME NEW p \in Payout, Settling!BecomesDue(p)
      PROVE  SP!Next /\ UNCHANGED storeVars
  <2>1. SP!BecomesDue(p)
    BY <1>2, SettlementAsAlone
  <2> QED
    BY <2>1 DEF SP!Next, SP!BecomesDue, SP!storeVars, storeVars
<1>3. ASSUME NEW w \in Wallet, Settling!RegisterAccount(w)
      PROVE  SP!Next /\ UNCHANGED storeVars
  <2>1. SP!RegisterAccount(w)
    BY <1>3, SettlementAsAlone
  <2> QED
    BY <2>1 DEF SP!Next, SP!RegisterAccount, SP!storeVars, storeVars
<1> QED
  BY <1>1, <1>2, <1>3 DEF SettlementStep

LEMMA PaymentTurns ==
    ASSUME PP!IInv, PaymentStep
    PROVE  /\ PP!Next
           /\ UNCHANGED storeVars \/ \E r \in Request : OthersPending(r)
<1> USE PaymentsOfPlatform, PlatformAssumption
<1>1. ASSUME NEW r \in Request,
             Paying!Arrive(r) \/ Paying!Step(r) \/ Paying!Disturbance(r)
      PROVE  PP!Next /\ OthersPending(r)
  <2>1. PP!Arrive(r) \/ PP!Step(r) \/ PP!Disturbance(r)
    BY <1>1, PaymentsAsAlone
  <2>2. PP!OthersPending(r)
    BY <2>1, PP!RequestStaysInside
  <2> QED
    BY <2>1, <2>2, SameOthers DEF PP!Next
<1>2. ASSUME NEW i \in Intent, Paying!Create(i)
      PROVE  PP!Next /\ UNCHANGED storeVars
  <2>1. PP!Create(i)
    BY <1>2, PaymentsAsAlone
  <2> QED
    BY <2>1 DEF PP!Next, PP!Create, PP!storeVars, storeVars
<1>3. ASSUME NEW e \in Endpoint, Paying!RegisterEndpoint(e)
      PROVE  PP!Next /\ UNCHANGED storeVars
  <2>1. PP!RegisterEndpoint(e)
    BY <1>3, PaymentsAsAlone
  <2> QED
    BY <2>1 DEF PP!Next, PP!RegisterEndpoint, PP!storeVars, storeVars
<1> QED
  BY <1>1, <1>2, <1>3 DEF PaymentStep

(* What the other two keep when it is none of theirs.                      *)
LEMMA TransfersStand ==
    ASSUME IInv, UNCHANGED transferVars, StoreInv', BooksBalance',
           \A t \in Transfer : SamePending(t)
    PROVE  IInv'
<1>1. RequestTypeOK'
  BY DEF IInv, RequestTypeOK, transferVars
<1>2. \A t \in Transfer : Untouched(t)
  BY DEF Untouched, transferVars
<1> QED
  BY <1>1, <1>2, Bystander DEF IInv

LEMMA PaymentsStand ==
    ASSUME PP!IInv, UNCHANGED paymentVars, StoreInv', BooksBalance',
           \A r \in Request : dBalance'[r] = dBalance[r] /\ dNet'[r] = dNet[r]
    PROVE  PP!IInv'
<1>1. PP!StoreInv' /\ PP!BooksBalance' /\ UNCHANGED PP!paymentVars
  BY SameStore DEF paymentVars, PP!paymentVars
<1> QED
  BY <1>1, PaymentsOfPlatform, PP!OthersMayWrite

LEMMA SettlementStands ==
    ASSUME SP!MoneyInv, UNCHANGED payoutVars, StoreInv', BooksBalance',
           \A k \in Settler : dBalance'[k] = dBalance[k] /\ dNet'[k] = dNet[k]
    PROVE  /\ SP!MoneyInv'
           /\ SP!LeaseInv => SP!LeaseInv'
           /\ \A k \in Settler : SP!Posted(k) => SP!Posted(k)'
           /\ \A p \in Payout, w \in Wallet : SP!Share(p, w)' = SP!Share(p, w)
<1>1. /\ SP!StoreInv' /\ SP!BooksBalance'
      /\ UNCHANGED <<account, payouts, bank, unrecorded, told, settler, faults>>
  BY SameStore DEF payoutVars
<1> QED
  BY <1>1, SettlementOfPlatform, SP!OthersMayWrite

LEMMA PlatformInits == PlatformInit => Init /\ PP!Init /\ SP!Init
<1> SUFFICES ASSUME PlatformInit PROVE Init /\ PP!Init /\ SP!Init
  OBVIOUS
<1>1. Init
  BY DEF PlatformInit
<1>2. PP!Init
  BY DEF PlatformInit, Paying!Init, PP!Init, Paying!StoreInit, PP!StoreInit, Paying!Nothing,
     PP!Nothing, Paying!NoAsk, PP!NoAsk, Paying!NoDraft, PP!NoDraft
<1>3. SP!Init
  BY DEF PlatformInit, Settling!Init, SP!Init, Settling!StoreInit, SP!StoreInit,
     Settling!Nothing, SP!Nothing, Settling!NoPayout, SP!NoPayout, Settling!Resting,
     SP!Resting
<1> QED
  BY <1>1, <1>2, <1>3

LEMMA TogetherInit == PlatformInit => TogetherInv
  BY PlatformInits, PaymentsOfPlatform, SettlementOfPlatform, InitEstablishes,
     PP!InitEstablishes, SP!MoneyInit DEF TogetherInv

LEMMA TogetherNext == TogetherInv /\ [PlatformNext]_platformVars => TogetherInv'
<1> SUFFICES ASSUME TogetherInv, [PlatformNext]_platformVars PROVE TogetherInv'
  OBVIOUS
<1>1. IInv /\ PP!IInv /\ SP!MoneyInv
  BY DEF TogetherInv
<1> USE DEF platformVars
<1>2. CASE UNCHANGED platformVars
  <2>1. StoreInv' /\ BooksBalance'
    BY <1>1, <1>2, StoreUnchanged DEF IInv, storeVars, BooksBalance
  <2>2. /\ \A t \in Transfer : SamePending(t)
        /\ \A t \in Request \cup Settler : dBalance'[t] = dBalance[t] /\ dNet'[t] = dNet[t]
    BY <1>2 DEF storeVars, SamePending
  <2> QED
    BY <1>1, <1>2, <2>1, <2>2, TransfersStand, PaymentsStand, SettlementStands
       DEF TogetherInv
<1>3. ASSUME NEW t \in Transfer, TransferStep(t) PROVE TogetherInv'
  <2>1. /\ Arrive(t) \/ Step(t) \/ Disturbance(t)
        /\ UNCHANGED paymentVars /\ UNCHANGED payoutVars
    BY <1>3 DEF TransferStep
  <2>2. IInv' /\ StoreInv' /\ BooksBalance'
    BY <1>1, <2>1, NextKeeps DEF Next, IInv
  <2>3. OthersPending(t) /\ t \notin Request /\ t \notin Settler
    BY <1>1, <2>1, OthersStand, PlatformAssumption
  <2> QED
    BY <1>1, <2>1, <2>2, <2>3, OwnTransactions, PaymentsStand, SettlementStands
       DEF TogetherInv
<1>4. CASE PaymentStep
  <2>1. UNCHANGED transferVars /\ UNCHANGED payoutVars
    BY <1>4 DEF PaymentStep
  <2>2. PP!IInv' /\ StoreInv' /\ BooksBalance'
    <3>1. PP!IInv'
      BY <1>1, <1>4, PaymentTurns, PaymentsOfPlatform, PP!NextKeeps
    <3> QED
      BY <3>1, SameStore DEF PP!IInv
  <2>3. /\ \A t \in Transfer : SamePending(t)
        /\ \A k \in Settler : dBalance'[k] = dBalance[k] /\ dNet'[k] = dNet[k]
    <3>1. CASE UNCHANGED storeVars
      BY <3>1 DEF storeVars, SamePending
    <3>2. ASSUME NEW r \in Request, OthersPending(r)
          PROVE  /\ \A t \in Transfer : SamePending(t)
                 /\ \A k \in Settler : dBalance'[k] = dBalance[k] /\ dNet'[k] = dNet[k]
      BY <3>2, OwnTransactions, PlatformAssumption
    <3> QED
      BY <1>1, <1>4, <3>1, <3>2, PaymentTurns
  <2> QED
    BY <1>1, <2>1, <2>2, <2>3, TransfersStand, SettlementStands DEF TogetherInv
<1>5. CASE SettlementStep
  <2>1. UNCHANGED transferVars /\ UNCHANGED paymentVars
    BY <1>5 DEF SettlementStep
  <2>2. SP!MoneyInv' /\ StoreInv' /\ BooksBalance'
    <3>1. SP!MoneyInv'
      BY <1>1, <1>5, SettlementTurns, SettlementOfPlatform, SP!MoneyNext
    <3> QED
      BY <3>1, SameStore DEF SP!MoneyInv
  <2>3. /\ \A t \in Transfer : SamePending(t)
        /\ \A r \in Request : dBalance'[r] = dBalance[r] /\ dNet'[r] = dNet[r]
    <3>1. CASE UNCHANGED storeVars
      BY <3>1 DEF storeVars, SamePending
    <3>2. ASSUME NEW k \in Settler, OthersPending(k)
          PROVE  /\ \A t \in Transfer : SamePending(t)
                 /\ \A r \in Request : dBalance'[r] = dBalance[r] /\ dNet'[r] = dNet[r]
      BY <3>2, OwnTransactions, PlatformAssumption
    <3> QED
      BY <1>1, <1>5, <3>1, <3>2, SettlementTurns
  <2> QED
    BY <1>1, <2>1, <2>2, <2>3, TransfersStand, PaymentsStand DEF TogetherInv
<1> QED
  BY <1>2, <1>3, <1>4, <1>5 DEF PlatformNext

LEMMA AlwaysTogether == PlatformSpec => []TogetherInv
  BY TogetherInit, TogetherNext, PTL DEF PlatformSpec

(* The ledger explains every balance whoever writes to it: transfers that  *)
(* retry, confirmations, sweeps and reversals at once, with their faults.  *)
THEOREM BooksBalanceForAll == PlatformSpec => []BooksBalance
<1>1. TogetherInv => BooksBalance
  BY DEF TogetherInv, IInv
<1> QED
  BY <1>1, AlwaysTogether, PTL


(* What a caller is told is what happened to what it asked for, among the  *)
(* others as alone: 201 and 4xx of transfers, 200 and 409 of intents.      *)
THEOREM AnswersHoldForAll == PlatformSpec => [](RepliesAreHonest /\ Paying!AnswersStayTrue)
<1>1. IInv => RepliesAreHonest
  BY DEF IInv, PerTransfer, Honest, RepliesAreHonest
<1>2. PP!IInv => Paying!AnswersStayTrue
  BY DEF PP!IInv, PP!AnswersStayTrue, Paying!AnswersStayTrue, PP!OfIntent, Paying!OfIntent,
     PP!Target, Paying!Target
<1>3. TogetherInv => RepliesAreHonest /\ Paying!AnswersStayTrue
  BY <1>1, <1>2 DEF TogetherInv
<1> QED
  BY <1>3, AlwaysTogether, PTL

(* Settlement among the others: what is leased and what is posted is its   *)
(* own, and nobody else changes what a payout holds.                       *)
LEMMA OthersLeaveSettlement ==
    ASSUME TogetherInv, TogetherInv', [PlatformNext]_platformVars, ~SettlementStep
    PROVE  /\ UNCHANGED payoutVars /\ StoreInv' /\ BooksBalance' /\ SP!MoneyInv
           /\ \A k \in Settler : dBalance'[k] = dBalance[k] /\ dNet'[k] = dNet[k]
<1>1. IInv /\ PP!IInv /\ SP!MoneyInv /\ StoreInv' /\ BooksBalance'
  BY DEF TogetherInv, IInv
<1>2. CASE UNCHANGED platformVars
  BY <1>1, <1>2 DEF platformVars, storeVars
<1>3. ASSUME NEW t \in Transfer, TransferStep(t)
      PROVE  /\ UNCHANGED payoutVars
             /\ \A k \in Settler : dBalance'[k] = dBalance[k] /\ dNet'[k] = dNet[k]
  <2>1. UNCHANGED payoutVars /\ (Arrive(t) \/ Step(t) \/ Disturbance(t))
    BY <1>3 DEF TransferStep
  <2> QED
    BY <1>1, <2>1, OthersStand, OwnTransactions, PlatformAssumption
<1>4. CASE PaymentStep
  <2>1. UNCHANGED payoutVars
    BY <1>4 DEF PaymentStep
  <2>2. \A k \in Settler : dBalance'[k] = dBalance[k] /\ dNet'[k] = dNet[k]
    <3>1. CASE UNCHANGED storeVars
      BY <3>1 DEF storeVars
    <3>2. ASSUME NEW r \in Request, OthersPending(r)
          PROVE  \A k \in Settler : dBalance'[k] = dBalance[k] /\ dNet'[k] = dNet[k]
      BY <3>2, OwnTransactions, PlatformAssumption
    <3> QED
      BY <1>1, <1>4, <3>1, <3>2, PaymentTurns
  <2> QED
    BY <1>1, <2>1, <2>2
<1> QED
  BY <1>1, <1>2, <1>3, <1>4 DEF PlatformNext

LEMMA SettlementAmongOthers ==
    ASSUME "slowSettler" \notin SettlementFaults, TogetherInv, TogetherInv', SP!LeaseInv,
           [PlatformNext]_platformVars
    PROVE  SP!LeaseInv'
<1>1. CASE SettlementStep
  BY <1>1, SettlementTurns, SettlementOfPlatform, SP!LeaseNext DEF TogetherInv
<1>2. CASE ~SettlementStep
  BY <1>2, OthersLeaveSettlement, SettlementStands
<1> QED
  BY <1>1, <1>2

LEMMA SettlementPosts ==
    ASSUME TogetherInv, TogetherInv', SP!LeaseInv, \A k \in Settler : SP!Posted(k),
           [PlatformNext]_platformVars
    PROVE  /\ \A k \in Settler : SP!Posted(k)'
           /\ SettlementStep \/ \A p \in Payout, w \in Wallet : SP!Share(p, w)' = SP!Share(p, w)
<1>1. CASE SettlementStep
  <2>1. SP!Next /\ SP!MoneyInv
    BY <1>1, SettlementTurns DEF TogetherInv
  <2> QED
    BY <1>1, <2>1, SettlementOfPlatform, SP!PostedNext
<1>2. CASE ~SettlementStep
  BY <1>2, OthersLeaveSettlement, SettlementStands
<1> QED
  BY <1>1, <1>2

(* Settlement is as right among transfers and payments as it is alone: the *)
(* bank is asked once, a payout says what the bank did, its merchant is    *)
(* told so, but for as many times as the platform could not record it.     *)
THEOREM SettlementHoldsForAll ==
    ASSUME "slowSettler" \notin SettlementFaults
    PROVE  PlatformSpec =>
               [](Settling!SentAtMostOnce /\ Settling!StatusTellsTheBank /\ Settling!MerchantsAreTold)
<1>1. PlatformInit => SP!LeaseInv
  BY PlatformInits, SettlementOfPlatform, SP!LeaseInit
<1>2. TogetherInv /\ TogetherInv' /\ SP!LeaseInv /\ [PlatformNext]_platformVars => SP!LeaseInv'
  BY SettlementAmongOthers
<1>3. TogetherInv /\ SP!LeaseInv
          => Settling!SentAtMostOnce /\ Settling!StatusTellsTheBank /\ Settling!MerchantsAreTold
  <2> SUFFICES ASSUME SP!MoneyInv, SP!LeaseInv
               PROVE  /\ Settling!SentAtMostOnce /\ Settling!StatusTellsTheBank
                      /\ Settling!MerchantsAreTold
    BY DEF TogetherInv
  <2>1. SP!SentAtMostOnce /\ SP!StatusTellsTheBank /\ SP!MerchantsAreTold
    BY SettlementOfPlatform, SP!LeasesTell
  <2> QED
    BY <2>1 DEF SP!SentAtMostOnce, SP!StatusTellsTheBank, SP!MerchantsAreTold, SP!Status,
       Settling!SentAtMostOnce, Settling!StatusTellsTheBank, Settling!MerchantsAreTold,
       Settling!Status
<1> QED
  BY <1>1, <1>2, <1>3, AlwaysTogether, PTL DEF PlatformSpec

----------------------------------------------------------------------------
(* Where the money is.  What a wallet and its payouts hold is what it was  *)
(* seeded with, what its confirmed intents brought and what transfers      *)
(* moved.                                                                  *)
Credited(i, w) == IF PaysInto[i] = w /\ status[i] = "succeeded" THEN Amount[i] ELSE 0

Brought(w) == Total([i \in Intent |-> Credited(i, w)], Intent)

Accounted(w) == SP!Held(w) = Funds[w] + Brought(w) + MovedInto(w)

AllFinite == IsFiniteSet(Transfer) /\ IsFiniteSet(Intent) /\ IsFiniteSet(Payout)

LEMMA AmountIsInt == \A i \in Intent : Amount[i] \in Int
  BY PlatformAssumption

LEMMA BroughtIsInt ==
    ASSUME IsFiniteSet(Intent), NEW w
    PROVE  Brought(w) \in Int
<1> DEFINE f == [i \in Intent |-> Credited(i, w)]
<1>1. \A i \in Intent : f[i] \in Int
  BY AmountIsInt DEF Credited
<1>2. Total(f, Intent) \in Int
  <2> HIDE DEF f
  <2> QED
    BY <1>1, TotalWithout
<1> QED
  BY <1>2 DEF Brought

LEMMA InitBrought ==
    ASSUME IsFiniteSet(Intent), PP!Init, NEW w
    PROVE  Brought(w) = 0
<1> DEFINE f == [i \in Intent |-> Credited(i, w)]
           g == [T \in SUBSET Intent |-> 0]
<1>1. \A i \in Intent : f[i] = 0
  BY DEF PP!Init, Credited
<1>2. Additive(g, f, Intent)
  <2> HIDE DEF f
  <2> QED
    BY <1>1 DEF Additive
<1>3. Total(f, Intent) = g[Intent]
  <2> HIDE DEF f, g
  <2> QED
    BY <1>2, TotalOf
<1> QED
  BY <1>3 DEF Brought

(* A confirmation brings what its intent says, once.                       *)
Gain(i, w) == IF PaysInto[i] = w THEN Amount[i] ELSE 0

LEMMA GainIsInt == ASSUME NEW i \in Intent, NEW w PROVE Gain(i, w) \in Int
  BY AmountIsInt DEF Gain

LEMMA ConfirmationCounts ==
    ASSUME IsFiniteSet(Intent), NEW w, NEW i \in Intent,
           Credited(i, w) = 0, Credited(i, w)' = Gain(i, w),
           \A j \in Intent \ {i} : Credited(j, w)' = Credited(j, w)
    PROVE  Brought(w)' = Brought(w) + Gain(i, w)
<1> DEFINE f == [j \in Intent |-> Credited(j, w)]
           h == [j \in Intent |-> Credited(j, w)']
           d == Gain(i, w)
<1>1. \A j \in Intent : f[j] \in Int
  BY AmountIsInt DEF Credited
<1>2. f[i] = 0 /\ h[i] = d /\ d \in Int
  BY GainIsInt
<1>3. \A j \in Intent \ {i} : h[j] = f[j]
  OBVIOUS
<1>4. Total(h, Intent) = Total(f, Intent) + d
  <2> HIDE DEF f, h, d
  <2> QED
    BY <1>1, <1>2, <1>3, TermAppears
<1> QED
  BY <1>4 DEF Brought

LEMMA ConfirmationBrings ==
    ASSUME IsFiniteSet(Intent), NEW w \in Wallet, balance[w] \in Int, NEW i \in Intent,
           status[i] # "succeeded",
           \A j \in Intent : status'[j] = "succeeded" <=> j = i \/ status[j] = "succeeded",
           balance' = [balance EXCEPT ![PaysInto[i]] = @ + Amount[i]],
           balance \in [Wallet -> Int]
    PROVE  \E d \in Int : balance'[w] = balance[w] + d /\ Brought(w)' = Brought(w) + d
<1>1. balance'[w] = balance[w] + Gain(i, w) /\ Gain(i, w) \in Int
  BY GainIsInt DEF Gain
<1>2. Credited(i, w) = 0 /\ Credited(i, w)' = Gain(i, w)
  BY DEF Credited, Gain
<1>3. \A j \in Intent \ {i} : Credited(j, w)' = Credited(j, w)
  BY DEF Credited
<1>4. Brought(w)' = Brought(w) + Gain(i, w)
  BY <1>2, <1>3, ConfirmationCounts
<1> QED
  BY <1>1, <1>4

LEMMA BroughtStays ==
    ASSUME \A i \in Intent : status'[i] = "succeeded" <=> status[i] = "succeeded", NEW w
    PROVE  Brought(w)' = Brought(w)
<1>1. \A i \in Intent : Credited(i, w)' = Credited(i, w)
  BY DEF Credited
<1> QED
  BY <1>1 DEF Brought

LEMMA BroughtNext ==
    ASSUME IsFiniteSet(Intent), StoreInv, PP!IInv, PP!Next, NEW w \in Wallet
    PROVE  \E d \in Int : balance'[w] = balance[w] + d /\ Brought(w)' = Brought(w) + d
<1>1. balance \in [Wallet -> Int] /\ balance[w] \in Int
  BY StoreAssumption DEF StoreInv, StoreTypeOK
<1>2. \/ /\ balance' = balance
         /\ \A i \in Intent : status'[i] = "succeeded" <=> status[i] = "succeeded"
      \/ \E i \in Intent :
            /\ status[i] # "succeeded"
            /\ \A j \in Intent :
                  status'[j] = "succeeded" <=> j = i \/ status[j] = "succeeded"
            /\ balance' = [balance EXCEPT ![PaysInto[i]] = @ + Amount[i]]
  BY PaymentsOfPlatform, PP!CreditsAreConfirmed
<1>3. ASSUME balance' = balance,
             \A i \in Intent : status'[i] = "succeeded" <=> status[i] = "succeeded"
      PROVE  balance'[w] = balance[w] + 0 /\ Brought(w)' = Brought(w) + 0
  BY <1>1, <1>3, BroughtStays, BroughtIsInt
<1> QED
  BY <1>1, <1>2, <1>3, ConfirmationBrings

(* The invariant in the words of the model.                                *)
LEMMA PaidIs ==
    ASSUME IsFiniteSet(Intent), NEW w
    PROVE  Paid(w) = Brought(w)
<1> DEFINE S == {i \in Intent : PaysInto[i] = w /\ status[i] = "succeeded"}
           h == [i \in Intent |-> Credited(i, w)]
<1>1. Paid(w) = Total(Amount, S)
  <2>1. Paid(w) = MapThenSumSet(LAMBDA i : Amount[i], S)
    BY DEF Paid
  <2>2. MapThenSumSet(LAMBDA i : Amount[i], S) = Total(Amount, S)
    <3> HIDE DEF S
    <3> QED
      BY DEF MapThenSumSet, MapThenFoldSet, Total, IsSum
  <2> QED
    BY <2>1, <2>2
<1>2. Total(Amount, S) = Total(h, Intent)
  <2>1. S \in SUBSET Intent /\ \A i \in Intent : h[i] = IF i \in S THEN Amount[i] ELSE 0
    BY DEF Credited
  <2> HIDE DEF S, h
  <2> QED
    BY <2>1, AmountIsInt, TotalOfPart
<1> QED
  BY <1>1, <1>2 DEF Brought

LEMMA SameFinite == IsFiniteSet(Payout) => SP!IsFiniteSet(Payout)
  BY DEF IsFiniteSet, SP!IsFiniteSet

LEMMA SameInPayouts ==
    ASSUME NEW w
    PROVE  Settling!InPayouts(w) = SP!InPayouts(w)
  BY DEF Settling!InPayouts, SP!InPayouts, Settling!MapThenSumSet, SP!MapThenSumSet,
     Settling!MapThenFoldSet, SP!MapThenFoldSet, Settling!Status, SP!Status

LEMMA AccountedFor ==
    ASSUME AllFinite, SP!MoneyInv, \A w \in Wallet : Accounted(w)
    PROVE  MoneyIsAccountedFor
<1> SUFFICES ASSUME NEW w \in Wallet
             PROVE  balance[w] + Settling!InPayouts(w)
                        = Funds[w] + Paid(w)
                            + SumFunctionOnSet([t \in Transfer |-> Moved(t, w)], Transfer)
  BY DEF MoneyIsAccountedFor
<1>1. balance[w] + Settling!InPayouts(w) = SP!Held(w)
  BY SettlementOfPlatform, SameFinite, SameInPayouts, SP!InPayoutsIs DEF AllFinite, SP!Held
<1>2. Paid(w) = Brought(w)
  BY PaidIs DEF AllFinite
<1>3. SumFunctionOnSet([t \in Transfer |-> Moved(t, w)], Transfer) = MovedInto(w)
  BY TotalIsSum DEF MovedInto
<1> QED
  BY <1>1, <1>2, <1>3 DEF Accounted

(* Everything is accounted for after a step of any of the three if it was  *)
(* before: settlement exchanges with the wallet what its payouts hold, the *)
(* others put into it what they say they put into it.                      *)
MoneyIInv ==
    /\ TogetherInv
    /\ SP!LeaseInv
    /\ \A k \in Settler : SP!Posted(k)
    /\ \A w \in Wallet : Accounted(w)

LEMMA SumsAreInts ==
    ASSUME AllFinite, IInv, SP!MoneyInv, NEW w \in Wallet
    PROVE  /\ balance[w] \in Int /\ Funds[w] \in Int
           /\ SP!Held(w) \in Int /\ Brought(w) \in Int /\ MovedInto(w) \in Int
<1>1. balance[w] \in Int /\ Funds[w] \in Int
  BY StoreAssumption DEF IInv, StoreInv, StoreTypeOK
<1>2. SP!Held(w) \in Int
  BY SettlementOfPlatform, SameFinite, SP!HeldIsInt DEF AllFinite
<1> QED
  BY <1>1, <1>2, BroughtIsInt, MovedIntoIsInt DEF AllFinite

(* Whoever is not of settlement and puts d into a wallet, puts it into     *)
(* what there is of its money.                                             *)
LEMMA OthersPutIn ==
    ASSUME AllFinite, IInv, SP!MoneyInv, NEW w \in Wallet, NEW d \in Int,
           balance'[w] = balance[w] + d,
           \A p \in Payout : SP!Share(p, w)' = SP!Share(p, w)
    PROVE  SP!Held(w)' = SP!Held(w) + d
<1>1. \A p \in Payout : SP!Share(p, w) \in Int
  BY SettlementOfPlatform, SP!ShareIsInt
<1>2. balance[w] \in Int /\ SP!IsFiniteSet(Payout)
  BY SumsAreInts, SameFinite DEF AllFinite
<1> QED
  BY <1>1, <1>2, SettlementOfPlatform, SP!RowsStay

LEMMA MoneyIInit ==
    ASSUME AllFinite, PlatformInit
    PROVE  MoneyIInv
<1>1. TogetherInv /\ PP!Init /\ SP!Init /\ Init
  BY TogetherInit, PlatformInits DEF PlatformInit
<1>2. SP!LeaseInv /\ \A k \in Settler : SP!Posted(k)
  BY <1>1, SettlementOfPlatform, SP!LeaseInit DEF SP!Init, SP!Posted, SP!Resting, SP!At
<1>3. ASSUME NEW w \in Wallet PROVE Accounted(w)
  <2>1. SP!Held(w) = Funds[w]
    BY <1>1, SettlementOfPlatform, SameFinite, SP!InitHeld DEF AllFinite
  <2>2. Brought(w) = 0 /\ MovedInto(w) = 0 /\ Funds[w] \in Int
    BY <1>1, InitBrought, InitMovedInto DEF AllFinite
  <2> QED
    BY <2>1, <2>2 DEF Accounted
<1> QED
  BY <1>1, <1>2, <1>3 DEF MoneyIInv

LEMMA TransferAccounted ==
    ASSUME AllFinite, MoneyIInv, NEW t \in Transfer, TransferStep(t), NEW w \in Wallet,
           \A p \in Payout : SP!Share(p, w)' = SP!Share(p, w)
    PROVE  Accounted(w)'
<1>1. IInv /\ SP!MoneyInv /\ Accounted(w)
  BY DEF MoneyIInv, TogetherInv
<1>2. Next /\ UNCHANGED paymentVars
  BY DEF TransferStep, Next
<1>3. PICK d \in Int : balance'[w] = balance[w] + d /\ MovedInto(w)' = MovedInto(w) + d
  BY <1>1, <1>2, MovedIntoNext DEF AllFinite
<1>4. SP!Held(w)' = SP!Held(w) + d
  BY <1>1, <1>3, OthersPutIn
<1>5. Brought(w)' = Brought(w)
  BY <1>2, BroughtStays DEF paymentVars
<1> QED
  BY <1>1, <1>3, <1>4, <1>5, SumsAreInts DEF Accounted

LEMMA PaymentAccounted ==
    ASSUME AllFinite, MoneyIInv, PaymentStep, NEW w \in Wallet,
           \A p \in Payout : SP!Share(p, w)' = SP!Share(p, w)
    PROVE  Accounted(w)'
<1>1. IInv /\ PP!IInv /\ SP!MoneyInv /\ Accounted(w)
  BY DEF MoneyIInv, TogetherInv
<1>2. PP!Next /\ UNCHANGED transferVars /\ StoreInv
  BY <1>1, PaymentTurns DEF PaymentStep, IInv
<1>3. PICK d \in Int : balance'[w] = balance[w] + d /\ Brought(w)' = Brought(w) + d
  BY <1>1, <1>2, BroughtNext DEF AllFinite
<1>4. SP!Held(w)' = SP!Held(w) + d
  BY <1>1, <1>3, OthersPutIn
<1>5. MovedInto(w)' = MovedInto(w)
  BY <1>2 DEF transferVars, MovedInto, Moved
<1> QED
  BY <1>1, <1>3, <1>4, <1>5, SumsAreInts DEF Accounted

LEMMA SettlementAccounted ==
    ASSUME AllFinite, MoneyIInv, SettlementStep, SP!MoneyInv', NEW w \in Wallet
    PROVE  Accounted(w)'
<1>1. IInv /\ SP!MoneyInv /\ SP!LeaseInv /\ Accounted(w) /\ \A k \in Settler : SP!Posted(k)
  BY DEF MoneyIInv, TogetherInv
<1>2. SP!Next /\ UNCHANGED transferVars /\ UNCHANGED paymentVars
  BY <1>1, SettlementTurns DEF SettlementStep
<1>3. SP!Held(w)' = SP!Held(w)
  <2>1. PICK d \in Int : SP!Held(w)' = SP!Held(w) + d /\ 0 = 0 + d
    BY <1>1, <1>2, SettlementOfPlatform, SameFinite, SP!HeldNext DEF AllFinite
  <2> QED
    BY <1>1, <2>1, SumsAreInts
<1>4. Brought(w)' = Brought(w) /\ MovedInto(w)' = MovedInto(w)
  BY <1>2, BroughtStays DEF paymentVars, transferVars, MovedInto, Moved
<1> QED
  BY <1>1, <1>3, <1>4 DEF Accounted

LEMMA MoneyINext ==
    ASSUME AllFinite, "slowSettler" \notin SettlementFaults, MoneyIInv, TogetherInv',
           [PlatformNext]_platformVars
    PROVE  MoneyIInv'
<1>1. /\ IInv /\ PP!IInv /\ SP!MoneyInv /\ SP!MoneyInv'
      /\ TogetherInv /\ SP!LeaseInv /\ \A k \in Settler : SP!Posted(k)
  BY DEF MoneyIInv, TogetherInv
<1>2. /\ SP!LeaseInv' /\ \A k \in Settler : SP!Posted(k)'
      /\ SettlementStep \/ \A p \in Payout, w \in Wallet : SP!Share(p, w)' = SP!Share(p, w)
  BY <1>1, SettlementAmongOthers, SettlementPosts
<1>3. ASSUME NEW w \in Wallet PROVE Accounted(w)'
  <2>1. CASE SettlementStep
    BY <1>1, <2>1, SettlementAccounted
  <2>2. CASE ~SettlementStep /\ UNCHANGED platformVars
    <3>1. /\ \A p \in Payout : SP!Share(p, w)' = SP!Share(p, w)
          /\ balance'[w] = balance[w] + 0
      BY <1>1, <1>2, <2>2, SumsAreInts DEF platformVars, storeVars
    <3>2. SP!Held(w)' = SP!Held(w)
      BY <1>1, <3>1, OthersPutIn, SumsAreInts
    <3>3. Brought(w)' = Brought(w) /\ MovedInto(w)' = MovedInto(w)
      BY <2>2, BroughtStays
         DEF platformVars, paymentVars, transferVars, MovedInto, Moved
    <3> QED
      BY <3>2, <3>3 DEF Accounted, MoneyIInv
  <2>3. CASE ~SettlementStep /\ PaymentStep
    BY <1>2, <2>3, PaymentAccounted
  <2>4. ASSUME ~SettlementStep, NEW t \in Transfer, TransferStep(t) PROVE Accounted(w)'
    BY <1>2, <2>4, TransferAccounted
  <2> QED
    BY <2>1, <2>2, <2>3, <2>4 DEF PlatformNext
<1> QED
  BY <1>2, <1>3 DEF MoneyIInv

(* As long as no settler outlives a lease, no money is lost or made        *)
(* between transfers, payments and settlement, although none of them sees  *)
(* the writes of the others coming.                                        *)
THEOREM MoneyAlwaysAccountedFor ==
    ASSUME "slowSettler" \notin SettlementFaults,
           IsFiniteSet(Transfer), IsFiniteSet(Intent), IsFiniteSet(Payout)
    PROVE  PlatformSpec => []MoneyIsAccountedFor
<1> AllFinite
  BY DEF AllFinite
<1>1. PlatformInit => MoneyIInv
  BY MoneyIInit
<1>2. MoneyIInv /\ TogetherInv' /\ [PlatformNext]_platformVars => MoneyIInv'
  BY MoneyINext
<1>3. MoneyIInv => MoneyIsAccountedFor
  BY AccountedFor DEF MoneyIInv, TogetherInv
<1> QED
  BY <1>1, <1>2, <1>3, AlwaysTogether, PTL DEF PlatformSpec
=============================================================================
