--------------------------- MODULE PayoutsProofs ---------------------------
(***************************************************************************)
(* Theorems about Payouts, for any settlers, scopes, payouts, limits and   *)
(* bounds.  MoneyInv, about the rows of the wallets and what a settler has *)
(* pending, holds whatever the faults.  LeaseInv, about what the bank, the *)
(* platform and the merchant know of a payout, holds as long as no settler *)
(* outlives the lease of what it is working on: with "slowSettler" in      *)
(* Faults the promises it carries are false.                               *)
(***************************************************************************)
EXTENDS Payouts, WalletStoreProofs

Work == {"bank", "markPaid", "caught", "reverseCommit"}

(* What settler k has pending, and what it is working on. *)
PerSettler(k) ==
    /\ dNet[k] = dBalance[k]
    /\ settler[k].at \notin {"sweepCommit", "reverseCommit"} => dBalance[k] = Nothing
    /\ \A p \in settler[k].batch : Status(p) # "absent"
    /\ settler[k].at \in Work => Current(k) \in Payout /\ Status(Current(k)) # "absent"
    /\ \A p \in Payout : settler[k].known[p] < MaxAttempts

PerPayout(p) ==
    /\ Status(p) # "absent" => payouts[p].wallet \in Wallet
    /\ Status(p) = "pending" => payouts[p].attempts < MaxAttempts

MoneyInv == /\ StoreInv
            /\ TypeOK
            /\ BooksBalance
            /\ \A k \in Settler : PerSettler(k)
            /\ \A p \in Payout : PerPayout(p)

----------------------------------------------------------------------------
(* A payout that somebody works on is leased and nobody else works on it;  *)
(* it is pending, but for one whose markPaid was committed and not         *)
(* acknowledged; and at each statement it is known what the bank has done  *)
(* and the platform has not recorded.                                      *)
Leased(k) ==
    /\ \A p \in HeldBy(k) : ~payouts[p].due
    /\ \A p \in settler[k].batch : Status(p) = "pending"
    /\ settler[k].at \in Work => Current(k) \notin settler[k].batch
    /\ At(k, "bank") => Status(Current(k)) = "pending"
    /\ At(k, "markPaid") => /\ Status(Current(k)) = "pending"
                            /\ bank[Current(k)] = unrecorded[Current(k)] + 1
    /\ settler[k].at \in {"caught", "reverseCommit"} =>
          /\ Status(Current(k)) \in {"pending", "paid"}
          /\ bank[Current(k)] <= unrecorded[Current(k)]
          /\ Status(Current(k)) = "paid" => unrecorded[Current(k)] > 0

OneHolder == \A j, k \in Settler : j # k => HeldBy(j) \cap HeldBy(k) = {}

InFlight(p) == \E k \in Settler : At(k, "markPaid") /\ Current(k) = p

Known(p) ==
    /\ Status(p) = "absent" => bank[p] = 0 /\ unrecorded[p] = 0
    /\ Status(p) = "pending" /\ ~InFlight(p) => bank[p] = unrecorded[p]
    /\ Status(p) \in {"absent", "pending"} => told[p].paid = 0 /\ told[p].failed = 0
    /\ Status(p) = "paid" => /\ bank[p] \in 1..(unrecorded[p] + 1)
                             /\ told[p].paid = 1 /\ told[p].failed = 0
    /\ Status(p) = "failed" => /\ bank[p] <= unrecorded[p]
                               /\ told[p].failed = 1
                               /\ told[p].paid <= 1 /\ told[p].paid <= unrecorded[p]

LeaseInv == /\ \A k \in Settler : Leased(k)
            /\ OneHolder
            /\ \A p \in Payout : Known(p)

----------------------------------------------------------------------------
(* What a step does to the settlers.                                       *)

Label == {"idle", "sweep", "sweepCommit", "claim", "next", "bank", "markPaid",
          "caught", "reverseCommit"}

Doing == [at: Label, todo: SUBSET Wallet, batch: SUBSET Payout,
          current: Payout \cup {"none"}, known: [Payout -> 0..MaxAttempts]]

PayoutRow == [status: {"absent", "pending", "paid", "failed"},
              wallet: Wallet \cup {"none"}, amount: 0..MaxBalance,
              attempts: 0..MaxAttempts, due: BOOLEAN]

RestTypeOK ==
    /\ account \in [Wallet -> {"none", "good", "bad"}]
    /\ bank \in [Payout -> Nat] /\ unrecorded \in [Payout -> Nat]
    /\ told \in [Payout -> [paid: Nat, failed: Nat]]
    /\ charged \in [Wallet -> 0..MaxCharged]
    /\ faults \in 0..MaxFaults

OnlySettler(k) == /\ settler' \in [Settler -> Doing]
                  /\ \A j \in Settler \ {k} : settler'[j] = settler[j]

SameWork(k) == /\ settler'[k].batch = settler[k].batch
               /\ settler'[k].current = settler[k].current
               /\ settler'[k].known = settler[k].known

LEMMA Types == TypeOK <=> /\ StoreTypeOK /\ RestTypeOK
                          /\ payouts \in [Payout -> PayoutRow] /\ settler \in [Settler -> Doing]
  BY DEF TypeOK, RestTypeOK, PayoutRow, Doing, Label

(* What the invariant gives for one settler, and the payout it works on.   *)
LEMMA Facts ==
    ASSUME MoneyInv, NEW k \in Settler
    PROVE  /\ k \in Txn /\ StoreInv /\ RestTypeOK
           /\ payouts \in [Payout -> PayoutRow] /\ settler \in [Settler -> Doing]
           /\ settler[k] \in Doing
           /\ PerSettler(k)
           /\ settler[k].at \in Work => /\ Current(k) \in Payout
                                        /\ PerPayout(Current(k))
                                        /\ payouts[Current(k)] \in PayoutRow
                                        /\ payouts[Current(k)].wallet \in Wallet
                                        /\ payouts[Current(k)].amount \in 0..MaxBalance
<1>1. /\ k \in Txn /\ StoreInv /\ RestTypeOK
      /\ payouts \in [Payout -> PayoutRow] /\ settler \in [Settler -> Doing]
      /\ settler[k] \in Doing /\ PerSettler(k)
  BY Types, PayoutsAssumption DEF MoneyInv
<1> QED
  BY <1>1 DEF MoneyInv, PerSettler, PerPayout, PayoutRow, Status

(* Moving to another statement touches no other settler and none of the    *)
(* settler's own copies.                                                   *)
LEMMA GotoFrame ==
    ASSUME settler \in [Settler -> Doing], NEW k \in Settler, NEW l \in Label, Goto(k, l)
    PROVE  OnlySettler(k) /\ SameWork(k) /\ settler'[k].at = l
  BY DEF Goto, OnlySettler, SameWork, Doing

(* Nor does any step of a sweep.                                           *)
LEMMA SweepFrame ==
    ASSUME settler \in [Settler -> Doing], NEW k \in Settler, NEW l \in Label,
           \/ l = "sweep" /\ SweepList(k)
           \/ l = "sweep" /\ \E w \in Wallet : SweepSkip(k, w)
           \/ l = "sweepCommit" /\ \E w \in Wallet : SweepDebit(k, w)
    PROVE  OnlySettler(k) /\ SameWork(k) /\ settler'[k].at = l
<1>1. CASE l = "sweepCommit" /\ \E w \in Wallet : SweepDebit(k, w)
  <2>1. PICK w \in Wallet :
           settler' = [settler EXCEPT ![k].at = "sweepCommit", ![k].todo = @ \ {w}]
    BY <1>1 DEF SweepDebit
  <2>2. OnlySettler(k)
    <3>1. settler[k].todo \ {w} \in SUBSET Wallet /\ "sweepCommit" \in Label
      BY DEF Doing, Label
    <3>2. [settler[k] EXCEPT !.at = "sweepCommit", !.todo = @ \ {w}] \in Doing
      BY <3>1 DEF Doing
    <3> QED
      BY <2>1, <3>2 DEF OnlySettler
  <2> QED
    BY <1>1, <2>1, <2>2 DEF SameWork, Doing
<1>2. CASE l = "sweep" /\ \E w \in Wallet : SweepSkip(k, w)
  <2>1. PICK w \in Wallet : settler' = [settler EXCEPT ![k].todo = @ \ {w}]
                             /\ settler[k].at = "sweep"
    BY <1>2 DEF SweepSkip, At
  <2>2. OnlySettler(k)
    <3>1. settler[k].todo \ {w} \in SUBSET Wallet
      BY DEF Doing
    <3>2. [settler[k] EXCEPT !.todo = @ \ {w}] \in Doing
      BY <3>1 DEF Doing
    <3> QED
      BY <2>1, <3>2 DEF OnlySettler
  <2> QED
    BY <1>2, <2>1, <2>2 DEF SameWork, Doing
<1>3. CASE l = "sweep" /\ SweepList(k)
  <2> DEFINE T == {x \in Scope[k] : balance[x] >= MinPayout /\ account[x] # "none"}
  <2>1. settler' = [settler EXCEPT ![k].at = "sweep", ![k].todo = T]
    BY <1>3 DEF SweepList
  <2>2. T \in SUBSET Wallet
    BY PayoutsAssumption
  <2> HIDE DEF T
  <2>3. OnlySettler(k)
    <3>1. [settler[k] EXCEPT !.at = "sweep", !.todo = T] \in Doing
      BY <2>2 DEF Doing, Label
    <3> QED
      BY <2>1, <3>1 DEF OnlySettler
  <2> QED
    BY <1>3, <2>1, <2>3 DEF SameWork, Doing
<1> QED
  BY <1>1, <1>2, <1>3

(* claimDue() returns copies: of the rows it took, the attempts they have. *)
LEMMA ClaimFrame ==
    ASSUME settler \in [Settler -> Doing], payouts \in [Payout -> PayoutRow],
           NEW k \in Settler, NEW rows \in SUBSET Payout, ClaimRows(k, rows)
    PROVE  /\ OnlySettler(k)
           /\ settler'[k].at = "next" /\ settler'[k].batch = rows
           /\ \A p \in Payout : settler'[k].known[p] =
                 IF p \in rows THEN payouts[p].attempts ELSE 0
           /\ payouts' \in [Payout -> PayoutRow]
           /\ \A p \in Payout : /\ payouts'[p].status = payouts[p].status
                                 /\ payouts'[p].wallet = payouts[p].wallet
                                 /\ payouts'[p].attempts = payouts[p].attempts
                                 /\ payouts'[p].due = (payouts[p].due /\ p \notin rows)
<1> DEFINE f == [p \in Payout |-> IF p \in rows THEN payouts[p].attempts ELSE 0]
<1>1. f \in [Payout -> 0..MaxAttempts] /\ \A p \in Payout :
         f[p] = IF p \in rows THEN payouts[p].attempts ELSE 0
  BY PayoutsAssumption DEF PayoutRow
<1> HIDE DEF f
<1>2. settler' = [settler EXCEPT ![k].at = "next", ![k].batch = rows, ![k].known = f]
  BY DEF ClaimRows, f
<1>3. OnlySettler(k) /\ settler'[k].at = "next" /\ settler'[k].batch = rows
      /\ settler'[k].known = f
  <2>1. /\ settler'[k].at = "next" /\ settler'[k].batch = rows /\ settler'[k].known = f
        /\ \A j \in Settler \ {k} : settler'[j] = settler[j]
    BY <1>2 DEF Doing
  <2>2. settler[k] \in Doing /\ "next" \in Label
    BY DEF Label
  <2>3. settler'[k] = [at |-> "next", todo |-> settler[k].todo, batch |-> rows,
                       current |-> settler[k].current, known |-> f]
    BY <1>2, <2>2 DEF Doing
  <2>4. settler'[k] \in Doing
    BY <1>1, <2>2, <2>3 DEF Doing
  <2> QED
    BY <1>2, <2>1, <2>4 DEF OnlySettler
<1>4. payouts' = [p \in Payout |-> IF p \in rows THEN [payouts[p] EXCEPT !.due = FALSE]
                                                ELSE payouts[p]]
  BY DEF ClaimRows
<1>5. ASSUME NEW p \in Payout
      PROVE  /\ payouts'[p] \in PayoutRow
             /\ payouts'[p].status = payouts[p].status
             /\ payouts'[p].wallet = payouts[p].wallet
             /\ payouts'[p].attempts = payouts[p].attempts
             /\ payouts'[p].due = (payouts[p].due /\ p \notin rows)
  BY <1>4 DEF PayoutRow
<1> QED
  BY <1>1, <1>3, <1>4, <1>5

(* The next payout of the batch is taken out of it.                        *)
LEMMA TakeFrame ==
    ASSUME settler \in [Settler -> Doing], NEW k \in Settler, NEW p \in settler[k].batch,
           settler' = [settler EXCEPT ![k].at = "bank", ![k].current = p,
                                      ![k].batch = @ \ {p}]
    PROVE  /\ OnlySettler(k) /\ p \in Payout
           /\ settler'[k].at = "bank" /\ settler'[k].current = p
           /\ settler'[k].batch = settler[k].batch \ {p}
           /\ settler'[k].known = settler[k].known
<1>1. p \in Payout
  BY DEF Doing
<1> QED
  BY <1>1 DEF OnlySettler, Doing, Label

(* A settler whose tick is over, however it ended, holds nothing.          *)
LEMMA RestFrame ==
    ASSUME settler \in [Settler -> Doing], NEW k \in Settler,
           settler' = [settler EXCEPT ![k] = Resting]
    PROVE  /\ OnlySettler(k) /\ settler'[k].at = "idle" /\ settler'[k].batch = {}
           /\ \A p \in Payout : settler'[k].known[p] = 0
<1>1. Resting \in Doing
  BY PayoutsAssumption DEF Resting, Doing, Label
<1> QED
  BY <1>1 DEF OnlySettler, Resting

----------------------------------------------------------------------------
(* The money.                                                              *)

RowsKept == /\ payouts' \in [Payout -> PayoutRow]
            /\ \A p \in Payout : (Status(p) # "absent") => (Status(p)' # "absent")
            /\ \A p \in Payout : PerPayout(p)'

(* A step of settler k is judged by what it does to k, the rows and the    *)
(* store.                                                                  *)
LEMMA MoneyStep ==
    ASSUME MoneyInv, NEW k \in Settler, OnlySettler(k), StoreInv', BooksBalance',
           OthersPending(k), RestTypeOK', RowsKept, PerSettler(k)'
    PROVE  MoneyInv'
<1>1. ASSUME NEW j \in Settler PROVE PerSettler(j)'
  <2>1. CASE j = k
    BY <2>1
  <2>2. CASE j # k
    <3>1. PerSettler(j) /\ j \in Txn /\ settler[j] \in Doing
      BY Facts
    <3>2. /\ settler'[j] = settler[j]
          /\ dBalance'[j] = dBalance[j] /\ dNet'[j] = dNet[j]
      BY <2>2, <3>1 DEF OnlySettler, OthersPending
    <3> QED
      BY <3>1, <3>2 DEF PerSettler, Current, Nothing, RowsKept, Doing
  <2> QED
    BY <2>1, <2>2
<1>2. TypeOK'
  BY Types DEF TypeOK, StoreInv, RestTypeOK, RowsKept, OnlySettler, PayoutRow, Doing, Label
<1> QED
  BY <1>1, <1>2 DEF MoneyInv, RowsKept

LEMMA SameRows == ASSUME MoneyInv, payouts' = payouts PROVE RowsKept
  BY Types DEF MoneyInv, RowsKept, PerPayout, Status

LEMMA Silent ==
    ASSUME MoneyInv, UNCHANGED storeVars
    PROVE  /\ StoreInv' /\ BooksBalance'
           /\ \A k \in Txn : /\ OthersPending(k)
                             /\ dBalance'[k] = dBalance[k] /\ dNet'[k] = dNet[k]
  BY StoreUnchanged DEF MoneyInv, storeVars, BooksBalance, OthersPending

LEMMA SweepMoney ==
    ASSUME MoneyInv, NEW k \in Settler,
           SweepList(k) \/ SweepDone(k) \/ \E w \in Wallet : SweepSkip(k, w)
    PROVE  MoneyInv'
<1>1. /\ UNCHANGED <<storeVars, account, payouts, bank, unrecorded, told, charged, faults>>
      /\ settler[k].at \in {"idle", "sweep"}
  BY DEF SweepList, SweepSkip, SweepDone, At
<1>2. OnlySettler(k) /\ SameWork(k) /\ settler'[k].at \in {"sweep", "claim"}
  BY SweepFrame, GotoFrame, Facts DEF SweepDone, Label
<1>3. RestTypeOK'
  BY <1>1, Facts DEF RestTypeOK
<1>4. PerSettler(k)'
  BY <1>1, <1>2, Facts, Silent DEF PerSettler, SameWork, Work, Status, Nothing
<1> QED
  BY <1>1, <1>2, <1>3, <1>4, Facts, Silent, SameRows, MoneyStep

(* The debit of a sweep and the credit of a reversal, before their COMMIT. *)
LEMMA PostMoney ==
    ASSUME MoneyInv, NEW k \in Settler,
           (\E w \in Wallet : SweepDebit(k, w)) \/ Reverse(k)
    PROVE  MoneyInv'
<1>1. /\ UNCHANGED <<account, payouts, bank, unrecorded, told, charged, faults>>
      /\ \E x \in Wallet, n \in Int : LockAndPost(k, x, n)
      /\ OnlySettler(k) /\ SameWork(k)
      /\ settler'[k].at \in {"sweepCommit", "reverseCommit"}
      /\ settler'[k].at \in Work => settler[k].at \in Work
  <2>1. CASE \E w \in Wallet : SweepDebit(k, w)
    <3>1. PICK w \in Wallet : SweepDebit(k, w)
      BY <2>1
    <3>2. -balance[w] \in Int
      BY Facts, StoreAssumption DEF StoreInv, StoreTypeOK
    <3>3. OnlySettler(k) /\ SameWork(k) /\ settler'[k].at = "sweepCommit"
      BY <3>1, SweepFrame, Facts DEF Label
    <3> QED
      BY <3>1, <3>2, <3>3 DEF SweepDebit, Work
  <2>2. CASE Reverse(k)
    <3>1. /\ settler[k].at = "caught" /\ Goto(k, "reverseCommit")
          /\ LockAndPost(k, payouts[Current(k)].wallet, payouts[Current(k)].amount)
          /\ UNCHANGED <<account, payouts, bank, unrecorded, told, charged, faults>>
      BY <2>2 DEF Reverse, At
    <3>2. payouts[Current(k)].wallet \in Wallet /\ payouts[Current(k)].amount \in Int
      BY <3>1, Facts, StoreAssumption DEF Work
    <3> QED
      BY <3>1, <3>2, GotoFrame, Facts DEF Label, Work
  <2> QED
    BY <2>1, <2>2
<1>2. PICK x \in Wallet, n \in Int : LockAndPost(k, x, n)
  BY <1>1
<1>3. /\ StoreInv' /\ OthersPending(k) /\ UNCHANGED committedVars
      /\ dBalance'[k] = [dBalance[k] EXCEPT ![x] = @ + n]
      /\ dNet'[k] = [dNet[k] EXCEPT ![x] = @ + n]
  <2>1. k \in Txn /\ StoreInv
    BY Facts
  <2> QED
    BY <1>2, <2>1, LockAndPostKeeps
<1>4. BooksBalance' /\ RestTypeOK'
  BY <1>1, <1>3, Facts DEF MoneyInv, BooksBalance, committedVars, RestTypeOK
<1>5. PerSettler(k)'
  BY <1>1, <1>3, Facts DEF PerSettler, SameWork, Status, Current
<1> QED
  BY <1>1, <1>3, <1>4, <1>5, SameRows, MoneyStep

(* createPending: the row has what the wallet lost.                        *)
LEMMA SweepCommitMoney ==
    ASSUME MoneyInv, NEW k \in Settler, SweepCommit(k)
    PROVE  MoneyInv'
<1>1. PICK p \in Payout, w \in Wallet :
          /\ Status(p) = "absent" /\ dBalance[k][w] < 0
          /\ payouts' = [payouts EXCEPT ![p] =
                [status |-> "pending", wallet |-> w, amount |-> -dBalance[k][w],
                 attempts |-> 0, due |-> TRUE]]
  BY DEF SweepCommit
<1>2. /\ CommitTxn(k) /\ Goto(k, "sweep")
      /\ UNCHANGED <<account, bank, unrecorded, told, charged, faults>>
  BY DEF SweepCommit
<1>3. -dBalance[k][w] \in 0..MaxBalance
  <2>1. /\ dBalance[k][w] \in Int /\ balance[w] \in 0..MaxBalance /\ MaxBalance \in Nat
        /\ balance[w] + dBalance[k][w] \in 0..MaxBalance
    BY Facts, StoreAssumption DEF StoreInv, StoreTypeOK, GuardedWrites
  <2> QED
    BY <1>1, <2>1
<1>4. RowsKept
  <2> DEFINE row == [status |-> "pending", wallet |-> w, amount |-> -dBalance[k][w],
                     attempts |-> 0, due |-> TRUE]
  <2>1. row \in PayoutRow /\ row.status = "pending" /\ row.wallet \in Wallet /\ row.attempts = 0
    BY <1>3, PayoutsAssumption DEF PayoutRow
  <2> HIDE DEF row
  <2>2. payouts' = [payouts EXCEPT ![p] = row]
    BY <1>1 DEF row
  <2> QED
    BY <2>1, <2>2, Facts, PayoutsAssumption DEF RowsKept, Status, PerPayout, MoneyInv
<1>5. OnlySettler(k) /\ SameWork(k) /\ settler'[k].at = "sweep"
  BY <1>2, GotoFrame, Facts DEF Label
<1>6. /\ StoreInv' /\ OthersPending(k) /\ BooksBalance'
      /\ dBalance'[k] = Nothing /\ dNet'[k] = Nothing
  BY <1>2, CommitKeeps, CommitBalances, Facts DEF PerSettler, MoneyInv
<1>7. RestTypeOK'
  BY <1>2, Facts DEF RestTypeOK
<1>8. PerSettler(k)'
  BY <1>4, <1>5, <1>6, Facts DEF PerSettler, SameWork, Work, RowsKept, Doing
<1> QED
  BY <1>4, <1>5, <1>6, <1>7, <1>8, MoneyStep

LEMMA ClaimMoney == ASSUME MoneyInv, NEW k \in Settler, ClaimDue(k) PROVE MoneyInv'
<1>1. PICK rows \in SUBSET Due(k) : ClaimRows(k, rows)
  BY DEF ClaimDue
<1>2. rows \in SUBSET Payout /\ \A p \in rows : Status(p) = "pending"
  BY DEF Due
<1>3. /\ UNCHANGED <<storeVars, account, bank, unrecorded, told, charged, faults>>
      /\ settler[k].at = "claim"
  BY <1>1 DEF ClaimDue, ClaimRows, At
<1>4. /\ OnlySettler(k)
      /\ settler'[k].at = "next" /\ settler'[k].batch = rows
      /\ \A p \in Payout : settler'[k].known[p] =
            IF p \in rows THEN payouts[p].attempts ELSE 0
      /\ payouts' \in [Payout -> PayoutRow]
      /\ \A p \in Payout : /\ payouts'[p].status = payouts[p].status
                            /\ payouts'[p].wallet = payouts[p].wallet
                            /\ payouts'[p].attempts = payouts[p].attempts
  BY <1>1, <1>2, ClaimFrame, Facts
<1>5. RowsKept
  BY <1>4 DEF RowsKept, Status, PerPayout, MoneyInv
<1>6. RestTypeOK'
  BY <1>3, Facts DEF RestTypeOK
<1>7. PerSettler(k)'
  <2>1. \A p \in rows : Status(p)' # "absent"
    BY <1>2, <1>4 DEF Status
  <2>2. \A p \in Payout : settler'[k].known[p] < MaxAttempts
    BY <1>2, <1>4, PayoutsAssumption DEF MoneyInv, PerPayout
  <2> QED
    BY <1>3, <1>4, <2>1, <2>2, Facts, Silent DEF PerSettler, Work
<1> QED
  BY <1>3, <1>4, <1>5, <1>6, <1>7, Facts, Silent, MoneyStep

(* What changes of a row when a settler marks it.                          *)
LEMMA MarkFrame ==
    ASSUME payouts \in [Payout -> PayoutRow], NEW q \in Payout,
           NEW s \in {"paid", "failed"}, NEW n \in 0..MaxAttempts,
           \/ payouts' = [payouts EXCEPT ![q].status = s]
           \/ payouts' = [payouts EXCEPT ![q].attempts = n, ![q].due = FALSE]
           \/ payouts' = [payouts EXCEPT ![q].status = s, ![q].attempts = n]
    PROVE  /\ payouts' \in [Payout -> PayoutRow]
           /\ \A p \in Payout \ {q} : payouts'[p] = payouts[p]
           /\ payouts'[q].wallet = payouts[q].wallet
           /\ payouts'[q].status \in {payouts[q].status, s}
           /\ payouts'[q].attempts \in {payouts[q].attempts, n}
<1>1. CASE payouts' = [payouts EXCEPT ![q].status = s]
  BY <1>1 DEF PayoutRow
<1>2. CASE payouts' = [payouts EXCEPT ![q].attempts = n, ![q].due = FALSE]
  <2>1. payouts'[q] = [[payouts[q] EXCEPT !.attempts = n] EXCEPT !.due = FALSE]
    BY <1>2
  <2>2. payouts[q] \in PayoutRow
    OBVIOUS
  <2>3. /\ payouts'[q] \in PayoutRow
        /\ payouts'[q].wallet = payouts[q].wallet /\ payouts'[q].status = payouts[q].status
        /\ payouts'[q].attempts = n
    BY <2>1, <2>2 DEF PayoutRow
  <2>4. /\ \A p \in Payout \ {q} : payouts'[p] = payouts[p]
        /\ payouts' = [p \in Payout |-> payouts'[p]]
    BY <1>2
  <2>5. payouts' \in [Payout -> PayoutRow]
    BY <2>3, <2>4
  <2> QED
    BY <2>3, <2>4, <2>5
<1>3. CASE payouts' = [payouts EXCEPT ![q].status = s, ![q].attempts = n]
  <2> DEFINE f == [payouts EXCEPT ![q].status = s]
  <2>1. /\ f \in [Payout -> PayoutRow] /\ \A p \in Payout \ {q} : f[p] = payouts[p]
        /\ f[q].wallet = payouts[q].wallet /\ f[q].status = s
    BY DEF PayoutRow
  <2>2. payouts' = [f EXCEPT ![q].attempts = n]
    BY <1>3
  <2> HIDE DEF f
  <2> QED
    BY <2>1, <2>2 DEF PayoutRow
<1> QED
  BY <1>1, <1>2, <1>3

(* The updates of a payout go to statuses its settlers reckon with.        *)
LEMMA MarkRows ==
    ASSUME MoneyInv, NEW q \in Payout, Status(q) # "absent",
           NEW s \in {"paid", "failed"}, NEW n \in 0..MaxAttempts,
           \/ payouts' = [payouts EXCEPT ![q].status = s]
           \/ /\ payouts' = [payouts EXCEPT ![q].attempts = n, ![q].due = FALSE]
              /\ n < MaxAttempts
           \/ payouts' = [payouts EXCEPT ![q].status = s, ![q].attempts = n]
    PROVE  RowsKept
<1>1. payouts \in [Payout -> PayoutRow] /\ \A p \in Payout : PerPayout(p)
  BY Types DEF MoneyInv
<1>2. /\ payouts' \in [Payout -> PayoutRow]
      /\ \A p \in Payout \ {q} : payouts'[p] = payouts[p]
      /\ payouts'[q].wallet = payouts[q].wallet
      /\ payouts'[q].status \in {payouts[q].status, s}
      /\ payouts'[q].attempts \in {payouts[q].attempts, n}
  BY <1>1, MarkFrame
<1>3. PerPayout(q)'
  <2>1. CASE payouts' = [payouts EXCEPT ![q].attempts = n, ![q].due = FALSE] /\ n < MaxAttempts
    BY <1>1, <1>2, <2>1 DEF PerPayout, Status
  <2>2. CASE \/ payouts' = [payouts EXCEPT ![q].status = s]
             \/ payouts' = [payouts EXCEPT ![q].status = s, ![q].attempts = n]
    <3>1. payouts'[q].status = s
      BY <1>1, <2>2 DEF PayoutRow
    <3> QED
      BY <1>1, <1>2, <3>1 DEF PerPayout, Status
  <2> QED
    BY <2>1, <2>2
<1> QED
  BY <1>1, <1>2, <1>3 DEF RowsKept, PerPayout, Status

(* The attempts a settler counts are within the limit.                     *)
LEMMA AttemptsInRange ==
    ASSUME MoneyInv, NEW k \in Settler, Current(k) \in Payout
    PROVE  Attempts(k) \in 1..MaxAttempts
  BY Facts, PayoutsAssumption DEF Attempts, PerSettler, Doing

LEMMA TellFrame ==
    ASSUME told \in [Payout -> [paid: Nat, failed: Nat]], NEW p \in Payout,
           NEW e \in {"paid", "failed"}, Tell(p, e)
    PROVE  /\ told' \in [Payout -> [paid: Nat, failed: Nat]]
           /\ \A q \in Payout \ {p} : told'[q] = told[q]
           /\ told'[p].paid = IF e = "paid" THEN told[p].paid + 1 ELSE told[p].paid
           /\ told'[p].failed = IF e = "failed" THEN told[p].failed + 1 ELSE told[p].failed
<1>1. CASE e = "paid"
  BY <1>1 DEF Tell
<1>2. CASE e = "failed"
  BY <1>2 DEF Tell
<1> QED
  BY <1>1, <1>2

(* Steps of processDuePayouts that leave the wallets alone.                *)
LEMMA ProcessMoney ==
    ASSUME MoneyInv, NEW k \in Settler,
           \/ Take(k) \/ TickDone(k) \/ SendToBank(k) \/ MarkPaid(k) \/ MarkRetry(k)
           \/ ReverseRejected(k) \/ CrashAfterBank(k) \/ MarkPaidFails(k)
    PROVE  MoneyInv'
<1>1. /\ UNCHANGED storeVars /\ settler[k].at \in Work \cup {"next"}
      /\ settler[k].at # "reverseCommit"
  BY DEF Take, TickDone, SendToBank, MarkPaid, MarkRetry, MarkRetryOf, ReverseRejected,
     CrashAfterBank, MarkPaidFails, At, Work
<1>2. /\ OnlySettler(k)
      /\ settler'[k].at \in {"idle", "next", "bank", "markPaid", "caught"}
      /\ settler'[k].batch \subseteq settler[k].batch
      /\ settler'[k].at \in Work =>
            \/ settler'[k].current \in settler[k].batch
            \/ settler[k].at \in Work /\ settler'[k].current = settler[k].current
      /\ \A p \in Payout : settler'[k].known[p] \in {0, settler[k].known[p]}
  <2>1. CASE \E l \in {"next", "markPaid", "caught"} : Goto(k, l) /\ settler[k].at \in Work
    <3>1. PICK l \in {"next", "markPaid", "caught"} : Goto(k, l) /\ settler[k].at \in Work
      BY <2>1
    <3> QED
      BY <3>1, GotoFrame, Facts DEF Label, SameWork
  <2>2. CASE settler' = [settler EXCEPT ![k] = Resting]
    BY <2>2, RestFrame, Facts DEF Work
  <2>3. CASE Take(k)
    <3>1. PICK p \in settler[k].batch :
             settler' = [settler EXCEPT ![k].at = "bank", ![k].current = p,
                                        ![k].batch = @ \ {p}]
      BY <2>3 DEF Take
    <3>2. /\ OnlySettler(k) /\ settler'[k].at = "bank" /\ settler'[k].current = p
          /\ settler'[k].batch = settler[k].batch \ {p}
          /\ settler'[k].known = settler[k].known
      BY <3>1, TakeFrame, Facts
    <3> QED
      BY <3>2 DEF Work
  <2> QED
    BY <2>1, <2>2, <2>3 DEF TickDone, SendToBank, MarkPaid, MarkRetry, MarkRetryOf,
       ReverseRejected, CrashAfterBank, MarkPaidFails, Abandon, At, Work
<1>3. RowsKept
  <2>1. CASE payouts' = payouts
    BY <2>1, SameRows
  <2>2. CASE settler[k].at \in Work /\ payouts' = [payouts EXCEPT ![Current(k)].status = "paid"]
    <3>1. 0 \in 0..MaxAttempts /\ Current(k) \in Payout /\ Status(Current(k)) # "absent"
      BY <2>2, Facts, PayoutsAssumption DEF PerSettler
    <3> QED
      BY <2>2, <3>1, MarkRows
  <2>3. CASE /\ settler[k].at \in Work /\ Attempts(k) < MaxAttempts
             /\ payouts' = [payouts EXCEPT ![Current(k)].attempts = Attempts(k),
                                           ![Current(k)].due = FALSE]
    <3>1. Attempts(k) \in 0..MaxAttempts
      BY <2>3, Facts, AttemptsInRange, PayoutsAssumption
    <3> QED
      BY <2>3, <3>1, Facts, MarkRows DEF PerSettler
  <2> QED
    BY <2>1, <2>2, <2>3 DEF Take, TickDone, SendToBank, MarkPaid, MarkRetry, MarkRetryOf,
       ReverseRejected, CrashAfterBank, MarkPaidFails, RolledBack, Paid, At, Work
<1>4. RestTypeOK'
  <2>1. /\ account' = account /\ charged' = charged
        /\ faults' = faults \/ (faults < MaxFaults /\ faults' = faults + 1)
        /\ bank' = bank \/ bank' = [bank EXCEPT ![Current(k)] = @ + 1]
        /\ \/ unrecorded' = unrecorded
           \/ unrecorded' = [unrecorded EXCEPT ![Current(k)] = @ + 1]
    BY DEF Take, TickDone, SendToBank, MarkPaid, MarkRetry, MarkRetryOf, ReverseRejected,
       CrashAfterBank, MarkPaidFails, Misbehave, Unrecorded
  <2>2. /\ faults' \in 0..MaxFaults
        /\ bank' \in [Payout -> Nat] /\ unrecorded' \in [Payout -> Nat]
    BY <2>1, Facts, PayoutsAssumption DEF RestTypeOK
  <2>3. told' = told \/ (settler[k].at \in Work /\ Tell(Current(k), "paid"))
    BY DEF Take, TickDone, SendToBank, MarkPaid, MarkRetry, MarkRetryOf,
       ReverseRejected, CrashAfterBank, MarkPaidFails, Paid, RolledBack, At, Work
  <2>4. told' \in [Payout -> [paid: Nat, failed: Nat]]
    BY <2>3, Facts, TellFrame DEF RestTypeOK
  <2> QED
    BY <2>1, <2>2, <2>4, Facts DEF RestTypeOK
<1>5. PerSettler(k)'
  <2>1. dBalance'[k] = Nothing' /\ dNet'[k] = dBalance'[k]
    BY <1>1, Facts, Silent DEF PerSettler, Work, Nothing
  <2>2. \A p \in Payout : settler'[k].known[p] < MaxAttempts
    BY <1>2, Facts, PayoutsAssumption DEF PerSettler
  <2>3. settler'[k].at \in Work => Current(k)' \in Payout /\ Status(Current(k))' # "absent"
    BY <1>2, <1>3, Facts DEF PerSettler, RowsKept, Current, Doing, Status
  <2>4. \A p \in settler'[k].batch : Status(p)' # "absent"
    BY <1>2, <1>3, Facts DEF PerSettler, RowsKept, Doing
  <2> QED
    BY <2>1, <2>2, <2>3, <2>4 DEF PerSettler
<1> QED
  BY <1>1, <1>2, <1>3, <1>4, <1>5, Facts, Silent, MoneyStep

(* Attempts exhausted: the credit and the failed row appear together.      *)
LEMMA ReverseCommitMoney ==
    ASSUME MoneyInv, NEW k \in Settler, ReverseCommit(k)
    PROVE  MoneyInv'
<1>1. /\ settler[k].at = "reverseCommit" /\ CommitTxn(k)
      /\ payouts' = [payouts EXCEPT ![Current(k)].status = "failed",
                                    ![Current(k)].attempts = Attempts(k)]
      /\ Tell(Current(k), "failed") /\ Goto(k, "next")
      /\ UNCHANGED <<account, bank, unrecorded, charged, faults>>
  BY DEF ReverseCommit, At
<1>2. Current(k) \in Payout /\ Status(Current(k)) # "absent"
  BY <1>1, Facts DEF PerSettler, Work
<1>3. RowsKept
  <2>1. Attempts(k) \in 0..MaxAttempts
    BY <1>2, AttemptsInRange, PayoutsAssumption
  <2> QED
    BY <1>1, <1>2, <2>1, MarkRows
<1>4. OnlySettler(k) /\ SameWork(k) /\ settler'[k].at = "next"
  BY <1>1, GotoFrame, Facts DEF Label
<1>5. /\ StoreInv' /\ OthersPending(k) /\ BooksBalance'
      /\ dBalance'[k] = Nothing /\ dNet'[k] = Nothing
  BY <1>1, CommitKeeps, CommitBalances, Facts DEF PerSettler, MoneyInv
<1>6. RestTypeOK'
  <2>1. told' \in [Payout -> [paid: Nat, failed: Nat]]
    BY <1>1, <1>2, TellFrame, Facts DEF RestTypeOK
  <2> QED
    BY <1>1, <2>1, Facts DEF RestTypeOK
<1>7. PerSettler(k)'
  BY <1>3, <1>4, <1>5, Facts DEF PerSettler, SameWork, Work, RowsKept, PayoutRow, Doing
<1> QED
  BY <1>3, <1>4, <1>5, <1>6, <1>7, MoneyStep

(* A tick that fails, or a process that dies, has committed nothing more.  *)
LEMMA AbortMoney == ASSUME MoneyInv, NEW k \in Settler, Abort(k) PROVE MoneyInv'
<1>1. /\ RollbackTxn(k) /\ settler' = [settler EXCEPT ![k] = Resting]
      /\ faults < MaxFaults /\ faults' = faults + 1
      /\ UNCHANGED <<account, payouts, bank, unrecorded, told, charged>>
  BY DEF Abort, Misbehave, Abandon
<1>2. /\ OnlySettler(k) /\ settler'[k].at = "idle" /\ settler'[k].batch = {}
      /\ \A p \in Payout : settler'[k].known[p] = 0
  BY <1>1, RestFrame, Facts
<1>3. /\ StoreInv' /\ OthersPending(k) /\ UNCHANGED committedVars
      /\ dBalance'[k] = Nothing /\ dNet'[k] = Nothing
  BY <1>1, RollbackKeeps, Facts
<1>4. BooksBalance' /\ RestTypeOK'
  <2>1. faults' \in 0..MaxFaults
    BY <1>1, Facts, PayoutsAssumption DEF RestTypeOK
  <2> QED
    BY <1>1, <1>3, <2>1, Facts DEF MoneyInv, BooksBalance, committedVars, RestTypeOK
<1>5. PerSettler(k)'
  BY <1>2, <1>3, PayoutsAssumption DEF PerSettler, Work, Nothing
<1> QED
  BY <1>1, <1>2, <1>3, <1>4, <1>5, SameRows, MoneyStep

(* A step of nobody, or of somebody else who writes to the wallets: what   *)
(* the settlers have pending and work on stays.                            *)
LEMMA OutsideStep ==
    ASSUME MoneyInv, settler' = settler,
           \A k \in Settler : dBalance'[k] = dBalance[k] /\ dNet'[k] = dNet[k],
           StoreInv', BooksBalance', RestTypeOK', RowsKept
    PROVE  MoneyInv'
<1>1. ASSUME NEW k \in Settler PROVE PerSettler(k)'
  <2>1. PerSettler(k) /\ settler[k] \in Doing
    BY Facts
  <2> QED
    BY <2>1 DEF PerSettler, Current, Nothing, RowsKept, Doing
<1>2. TypeOK'
  BY Types DEF MoneyInv, TypeOK, StoreInv, RestTypeOK, RowsKept, PayoutRow, Doing, Label
<1> QED
  BY <1>1, <1>2 DEF MoneyInv, RowsKept

(* next_attempt_at is reached: only the row becomes due.                   *)
LEMMA DueFrame ==
    ASSUME payouts \in [Payout -> PayoutRow], NEW p \in Payout, BecomesDue(p)
    PROVE  /\ payouts' \in [Payout -> PayoutRow]
           /\ \A q \in Payout \ {p} : payouts'[q] = payouts[q]
           /\ payouts'[p].status = payouts[p].status
           /\ payouts'[p].wallet = payouts[p].wallet
           /\ payouts'[p].attempts = payouts[p].attempts
<1>1. /\ payouts'[p] = [payouts[p] EXCEPT !.due = TRUE]
      /\ \A q \in Payout \ {p} : payouts'[q] = payouts[q]
      /\ payouts' = [q \in Payout |-> payouts'[q]]
  BY DEF BecomesDue
<1>2. payouts[p] \in PayoutRow
  OBVIOUS
<1>3. /\ payouts'[p] \in PayoutRow
      /\ payouts'[p].status = payouts[p].status
      /\ payouts'[p].wallet = payouts[p].wallet
      /\ payouts'[p].attempts = payouts[p].attempts
  BY <1>1, <1>2 DEF PayoutRow
<1>4. payouts' \in [Payout -> PayoutRow]
  BY <1>1, <1>3
<1> QED
  BY <1>1, <1>3, <1>4

LEMMA DueMoney == ASSUME MoneyInv, NEW p \in Payout, BecomesDue(p) PROVE MoneyInv'
<1>1. /\ payouts' \in [Payout -> PayoutRow]
      /\ \A q \in Payout \ {p} : payouts'[q] = payouts[q]
      /\ payouts'[p].status = payouts[p].status
      /\ payouts'[p].wallet = payouts[p].wallet
      /\ payouts'[p].attempts = payouts[p].attempts
  BY DueFrame, Types DEF MoneyInv
<1>2. RowsKept
  BY <1>1 DEF RowsKept, PerPayout, Status, MoneyInv
<1>3. /\ UNCHANGED <<storeVars, account, bank, unrecorded, told, charged, settler, faults>>
  BY DEF BecomesDue
<1>4. RestTypeOK'
  BY <1>3, Types DEF MoneyInv, RestTypeOK
<1> QED
  BY <1>2, <1>3, <1>4, Silent, OutsideStep DEF storeVars, pendingVars

(* A payment writes to a wallet nobody is writing to.                      *)
LEMMA ChargeMoney ==
    ASSUME MoneyInv, NEW w \in Wallet, NEW amount \in 1..MaxCharged, Charge(w, amount)
    PROVE  MoneyInv'
<1>1. /\ charged[w] + amount <= MaxCharged /\ balance[w] + amount <= MaxBalance
      /\ \A k \in Txn : {<<k, w, "update">>, <<k, w, "noKeyUpdate">>} \cap locks = {}
      /\ balance' = [balance EXCEPT ![w] = @ + amount]
      /\ net' = [net EXCEPT ![w] = @ + amount]
      /\ charged' = [charged EXCEPT ![w] = @ + amount]
      /\ UNCHANGED <<version, locks, pendingVars>>
      /\ UNCHANGED <<account, payouts, bank, unrecorded, told, settler, faults>>
  BY DEF Charge
<1>2. amount \in Nat /\ MaxCharged \in Nat /\ MaxBalance \in Nat
  BY PayoutsAssumption, StoreAssumption
<1>3. /\ StoreTypeOK /\ LocksExclude /\ GuardedWrites /\ RestTypeOK /\ BooksBalance
  BY Types DEF MoneyInv, StoreInv
<1>4. StoreTypeOK'
  <2>1. balance' \in [Wallet -> 0..MaxBalance] /\ net' \in [Wallet -> Int]
    BY <1>1, <1>2, <1>3 DEF StoreTypeOK
  <2> QED
    BY <1>1, <1>3, <2>1 DEF StoreTypeOK, pendingVars
<1>5. GuardedWrites'
  <2> SUFFICES ASSUME NEW u \in Txn, NEW x \in Wallet
               PROVE  /\ dBalance'[u][x] # 0 => WriteLocked(u, x)'
                      /\ balance'[x] + dBalance'[u][x] \in 0..MaxBalance
    BY DEF GuardedWrites
  <2>1. dBalance' = dBalance /\ locks' = locks
    BY <1>1 DEF pendingVars
  <2>2. CASE x = w
    <3>1. ~WriteLocked(u, w)
      BY <1>1 DEF WriteLocked
    <3>2. dBalance[u][w] = 0
      BY <1>3, <3>1 DEF GuardedWrites
    <3>3. balance'[w] \in 0..MaxBalance
      BY <1>4 DEF StoreTypeOK
    <3> QED
      BY <2>1, <2>2, <3>2, <3>3, <1>2
  <2>3. CASE x # w
    <3>1. balance'[x] = balance[x]
      BY <1>1, <2>3
    <3> QED
      BY <1>3, <2>1, <3>1 DEF GuardedWrites, WriteLocked
  <2> QED
    BY <2>2, <2>3
<1>6. StoreInv' /\ BooksBalance'
  BY <1>1, <1>3, <1>4, <1>5 DEF StoreInv, LocksExclude, BooksBalance
<1>7. RestTypeOK'
  <2>1. charged' \in [Wallet -> 0..MaxCharged]
    BY <1>1, <1>2, <1>3 DEF RestTypeOK
  <2> QED
    BY <1>1, <1>3, <2>1 DEF RestTypeOK
<1> QED
  BY <1>1, <1>6, <1>7, SameRows, OutsideStep DEF pendingVars

LEMMA RegisterMoney ==
    ASSUME MoneyInv, NEW w \in Wallet, RegisterAccount(w)
    PROVE  MoneyInv'
<1>1. /\ \E kind \in {"good", "bad"} : account' = [account EXCEPT ![w] = kind]
      /\ UNCHANGED <<storeVars, payouts, bank, unrecorded, told, charged, settler, faults>>
  BY DEF RegisterAccount
<1>2. RestTypeOK'
  BY <1>1, Types DEF MoneyInv, RestTypeOK
<1> QED
  BY <1>1, <1>2, Silent, SameRows, OutsideStep DEF storeVars, pendingVars

LEMMA SettlerMoney ==
    ASSUME MoneyInv, NEW k \in Settler, SettlerStep(k) \/ Disturbance(k)
    PROVE  MoneyInv'
<1>1. CASE Sweep(k)
  BY <1>1, SweepMoney, PostMoney, SweepCommitMoney DEF Sweep
<1>2. CASE Process(k)
  BY <1>2, ClaimMoney, ProcessMoney, PostMoney, ReverseCommitMoney DEF Process
<1>3. CASE Disturbance(k)
  BY <1>3, AbortMoney, ProcessMoney DEF Disturbance
<1> QED
  BY <1>1, <1>2, <1>3 DEF SettlerStep

LEMMA MoneyNext == MoneyInv /\ [Next]_vars => MoneyInv'
<1> SUFFICES ASSUME MoneyInv, [Next]_vars PROVE MoneyInv'
  OBVIOUS
<1>1. CASE UNCHANGED vars
  <2>1. UNCHANGED <<storeVars, payouts, settler, account, bank, unrecorded, told,
                    charged, faults>>
    BY <1>1 DEF vars, payoutVars
  <2>2. RestTypeOK'
    BY <2>1, Types DEF MoneyInv, RestTypeOK
  <2> QED
    BY <2>1, <2>2, Silent, SameRows, OutsideStep DEF storeVars, pendingVars
<1>2. CASE Next
  BY <1>2, SettlerMoney, DueMoney, RegisterMoney, ChargeMoney DEF Next
<1> QED
  BY <1>1, <1>2

LEMMA MoneyInit == Init => MoneyInv
<1> SUFFICES ASSUME Init PROVE MoneyInv
  OBVIOUS
<1>1. StoreInv /\ BooksBalance
  BY StoreInitKeeps DEF Init
<1>2. RestTypeOK
  BY PayoutsAssumption DEF Init, RestTypeOK, Nothing
<1>3. payouts \in [Payout -> PayoutRow] /\ \A p \in Payout : Status(p) = "absent"
  BY PayoutsAssumption, StoreAssumption DEF Init, NoPayout, PayoutRow, Status
<1>4. settler \in [Settler -> Doing] /\ \A k \in Settler : settler[k] = Resting
  <2>1. Resting \in Doing
    BY PayoutsAssumption DEF Resting, Doing, Label
  <2> QED
    BY <2>1 DEF Init
<1>5. TypeOK
  BY <1>1, <1>2, <1>3, <1>4, Types DEF StoreInv
<1>6. \A k \in Settler : PerSettler(k)
  <2>1. \A k \in Settler : dBalance[k] = Nothing /\ dNet[k] = Nothing
    BY PayoutsAssumption DEF Init, StoreInit
  <2> QED
    BY <1>4, <2>1, PayoutsAssumption DEF PerSettler, Resting, Work
<1>7. \A p \in Payout : PerPayout(p)
  BY <1>3 DEF PerPayout
<1> QED
  BY <1>1, <1>5, <1>6, <1>7 DEF MoneyInv

(* What a settlement writes is of the type its columns have, and within    *)
(* their limits: the attempts of a payout, and balances under the CHECK    *)
(* and the BIGINT, whatever settlers overlap, abort, crash or are slow.    *)
THEOREM TypeCorrect == Spec => []TypeOK
<1>1. MoneyInv => TypeOK
  BY DEF MoneyInv
<1> QED
  BY <1>1, MoneyInit, MoneyNext, PTL DEF Spec

(* Sweeps, reversals and payments move a balance and its ledger together:  *)
(* what is committed always agrees, whatever settlers overlap, abort,      *)
(* crash or are slow.                                                      *)
THEOREM BooksAlwaysBalance == Spec => []BooksBalance
<1>1. MoneyInv => BooksBalance
  BY DEF MoneyInv
<1> QED
  BY <1>1, MoneyInit, MoneyNext, PTL DEF Spec

----------------------------------------------------------------------------
(* What is known of a payout, while no settler outlives its leases.        *)

PayoutKept(p) == /\ payouts'[p] = payouts[p] /\ bank'[p] = bank[p]
                 /\ unrecorded'[p] = unrecorded[p] /\ told'[p] = told[p]

(* Nobody but k works on the payouts of S. *)
Apart(k, S) == \A j \in Settler \ {k} : S \cap HeldBy(j) = {}

InFlightBy(k, p) == settler[k].at = "markPaid" /\ Current(k) = p

(* What a settler answers for: what is left of its batch, and the current  *)
(* payout.                                                                 *)
LEMMA HeldIs ==
    ASSUME NEW k \in Settler
    PROVE  HeldBy(k) = settler[k].batch
                       \cup (IF settler[k].at \in Work THEN {Current(k)} ELSE {})
  BY DEF HeldBy, Work

(* A step of settler k that changes the payouts Q, which nobody else works *)
(* on, is judged by what it makes of k and of Q.                           *)
LEMMA LeaseStep ==
    ASSUME MoneyInv, LeaseInv, NEW k \in Settler, NEW Q \in SUBSET Payout,
           OnlySettler(k), Apart(k, Q), Apart(k, HeldBy(k)'),
           \A p \in Payout \ Q : PayoutKept(p) /\ (InFlightBy(k, p) => InFlightBy(k, p)'),
           Leased(k)',
           \A p \in Q : Known(p)'
    PROVE  LeaseInv'
<1>1. ASSUME NEW j \in Settler \ {k}
      PROVE  settler'[j] = settler[j] /\ HeldBy(j)' = HeldBy(j)
  BY DEF OnlySettler, HeldBy, Current
<1>2. ASSUME NEW j \in Settler \ {k}
      PROVE  \A p \in HeldBy(j) : p \in Payout => PayoutKept(p)
  BY DEF Apart
<1>3. ASSUME NEW j \in Settler \ {k} PROVE Leased(j)'
  <2>1. /\ settler'[j] = settler[j] /\ HeldBy(j)' = HeldBy(j)
        /\ Leased(j) /\ settler[j].batch \in SUBSET Payout
        /\ settler[j].batch \subseteq HeldBy(j)
    BY <1>1, Facts, HeldIs DEF LeaseInv, Doing
  <2>2. \A p \in HeldBy(j) : p \in Payout /\ PayoutKept(p)
    BY <1>2, Facts, HeldIs DEF Doing
  <2>3. settler[j].at \in Work => Current(j) \in HeldBy(j)
    BY HeldIs
  <2>4. Current(j)' = Current(j)
    BY <2>1 DEF Current
  <2> HIDE DEF Current, HeldBy
  <2> QED
    BY <2>1, <2>2, <2>3, <2>4 DEF Leased, PayoutKept, Status, At, Work
<1>4. OneHolder'
  BY <1>1 DEF OneHolder, LeaseInv, Apart
<1>5. ASSUME NEW p \in Payout \ Q PROVE Known(p)'
  <2>1. PayoutKept(p) /\ Known(p)
    BY DEF LeaseInv
  <2>2. InFlight(p) => InFlight(p)'
    BY <1>1 DEF InFlight, InFlightBy, At, Current
  <2> QED
    BY <2>1, <2>2 DEF PayoutKept, Known, Status
<1> QED
  BY <1>3, <1>4, <1>5 DEF LeaseInv

(* What is known of the payout a settler works on.                         *)
LEMMA Working ==
    ASSUME MoneyInv, LeaseInv, NEW k \in Settler
    PROVE  /\ Leased(k) /\ Apart(k, HeldBy(k))
           /\ settler[k].batch \in SUBSET Payout
           /\ settler[k].at \in Work =>
                 /\ Current(k) \in Payout /\ Current(k) \in HeldBy(k)
                 /\ Known(Current(k)) /\ Current(k) \notin settler[k].batch
                 /\ InFlight(Current(k)) <=> settler[k].at = "markPaid"
                 /\ bank[Current(k)] \in Nat /\ unrecorded[Current(k)] \in Nat
                 /\ told[Current(k)] \in [paid: Nat, failed: Nat]
                 /\ payouts[Current(k)] \in PayoutRow
<1>1. Leased(k) /\ Apart(k, HeldBy(k)) /\ settler[k].batch \in SUBSET Payout
  BY Facts DEF LeaseInv, OneHolder, Apart, Doing
<1>2. ASSUME settler[k].at \in Work
      PROVE  /\ Current(k) \in Payout /\ Current(k) \in HeldBy(k)
             /\ Known(Current(k)) /\ Current(k) \notin settler[k].batch
  BY <1>1, <1>2, Facts, HeldIs DEF LeaseInv, Leased
<1>3. ASSUME settler[k].at \in Work
      PROVE  InFlight(Current(k)) <=> settler[k].at = "markPaid"
  <2>1. \A j \in Settler \ {k} : ~(settler[j].at = "markPaid" /\ Current(j) = Current(k))
    BY <1>1, <1>2, <1>3 DEF Apart, HeldBy
  <2> QED
    BY <2>1 DEF InFlight, At
<1> QED
  BY <1>1, <1>2, <1>3, Facts DEF RestTypeOK

(* Steps that leave every payout as it is.                                 *)
LEMMA QuietLease ==
    ASSUME MoneyInv, LeaseInv, NEW k \in Settler, OnlySettler(k),
           UNCHANGED <<payouts, bank, unrecorded, told>>,
           ~At(k, "markPaid"), HeldBy(k)' \subseteq HeldBy(k), Leased(k)'
    PROVE  LeaseInv'
<1>1. Apart(k, {}) /\ Apart(k, HeldBy(k)')
  BY Working DEF Apart
<1>2. \A p \in Payout : PayoutKept(p) /\ (InFlightBy(k, p) => InFlightBy(k, p)')
  BY DEF PayoutKept, InFlightBy, At
<1> QED
  BY <1>1, <1>2, LeaseStep

(* A step after which a settler works on no payout.                        *)
LEMMA LetGo ==
    ASSUME MoneyInv, LeaseInv, NEW k \in Settler,
           settler'[k].at \notin Work, settler'[k].batch \subseteq settler[k].batch,
           \A p \in settler[k].batch : /\ payouts'[p].status = payouts[p].status
                                        /\ payouts'[p].due = payouts[p].due
    PROVE  HeldBy(k)' \subseteq HeldBy(k) /\ Leased(k)'
<1>1. HeldBy(k)' = settler'[k].batch
  BY DEF HeldBy, Work
<1>2. Leased(k) /\ settler[k].batch \subseteq HeldBy(k)
  BY Working, HeldIs
<1> QED
  BY <1>1, <1>2 DEF Leased, At, Work, Status

(* Steps that take up no payout leave the leases as they are, or give them *)
(* up.                                                                     *)
LEMMA RestLease ==
    ASSUME MoneyInv, LeaseInv, NEW k \in Settler,
           \/ SweepList(k) \/ SweepDone(k) \/ TickDone(k) \/ ReverseRejected(k) \/ Abort(k)
           \/ \E w \in Wallet : SweepSkip(k, w) \/ SweepDebit(k, w)
    PROVE  LeaseInv'
<1>1. /\ UNCHANGED <<payouts, bank, unrecorded, told>> /\ ~At(k, "markPaid")
  BY DEF SweepList, SweepDone, TickDone, ReverseRejected, Abort, SweepSkip, SweepDebit, At
<1>2. /\ OnlySettler(k) /\ settler'[k].at \in {"idle", "sweep", "sweepCommit", "claim"}
      /\ settler'[k].batch \subseteq settler[k].batch
  <2>1. CASE settler' = [settler EXCEPT ![k] = Resting]
    BY <2>1, RestFrame, Facts
  <2>2. CASE SweepDone(k)
    BY <2>2, GotoFrame, Facts DEF SweepDone, SameWork, Label
  <2>3. CASE SweepList(k) \/ \E w \in Wallet : SweepSkip(k, w) \/ SweepDebit(k, w)
    BY <2>3, SweepFrame, Facts DEF SameWork, Label
  <2> QED
    BY <2>1, <2>2, <2>3 DEF TickDone, ReverseRejected, Abort, Abandon
<1>3. HeldBy(k)' \subseteq HeldBy(k) /\ Leased(k)'
  BY <1>1, <1>2, LetGo DEF Work
<1> QED
  BY <1>1, <1>2, <1>3, QuietLease

LEMMA TakeLease == ASSUME MoneyInv, LeaseInv, NEW k \in Settler, Take(k) PROVE LeaseInv'
<1>1. UNCHANGED <<payouts, bank, unrecorded, told>> /\ settler[k].at = "next"
  BY DEF Take, At
<1>2. PICK p \in settler[k].batch :
         settler' = [settler EXCEPT ![k].at = "bank", ![k].current = p, ![k].batch = @ \ {p}]
  BY DEF Take
<1>3. /\ OnlySettler(k) /\ settler'[k].at = "bank" /\ Current(k)' = p
      /\ settler'[k].batch = settler[k].batch \ {p}
  BY <1>2, TakeFrame, Facts DEF Current
<1>4. HeldBy(k)' \subseteq HeldBy(k)
  BY <1>1, <1>3 DEF HeldBy
<1>5. Leased(k)'
  BY <1>1, <1>3, <1>4, Working DEF Leased, At, Status, Work
<1> QED
  BY <1>1, <1>3, <1>4, <1>5, QuietLease DEF At

LEMMA ReverseLease ==
    ASSUME MoneyInv, LeaseInv, NEW k \in Settler, Reverse(k)
    PROVE  LeaseInv'
<1>1. /\ UNCHANGED <<payouts, bank, unrecorded, told>>
      /\ settler[k].at = "caught" /\ Goto(k, "reverseCommit")
  BY DEF Reverse, At
<1>2. OnlySettler(k) /\ SameWork(k) /\ settler'[k].at = "reverseCommit"
  BY <1>1, GotoFrame, Facts DEF Label
<1>3. HeldBy(k)' \subseteq HeldBy(k)
  BY <1>1, <1>2 DEF HeldBy, SameWork, Current
<1>4. Leased(k)'
  BY <1>1, <1>2, <1>3, Working DEF Leased, SameWork, Current, At, Status, Work
<1> QED
  BY <1>1, <1>2, <1>3, <1>4, QuietLease DEF At

(* A step that changes only the payout its settler works on.               *)
LEMMA WorkLease ==
    ASSUME MoneyInv, LeaseInv, NEW k \in Settler, OnlySettler(k), settler[k].at \in Work,
           NEW q, q = Current(k),
           settler'[k].batch \subseteq settler[k].batch,
           settler'[k].at \in Work => settler'[k].current = q,
           \A p \in Payout \ {q} : PayoutKept(p),
           settler'[k].at \in Work => Leased(k)',
           Known(q)'
    PROVE  LeaseInv'
<1>1. /\ q \in Payout /\ q \in HeldBy(k) /\ Apart(k, HeldBy(k))
      /\ q \notin settler[k].batch
  BY Working
<1>2. HeldBy(k)' \subseteq HeldBy(k)
  BY DEF HeldBy, Work, Current
<1>3. Apart(k, {q}) /\ Apart(k, HeldBy(k)')
  BY <1>1, <1>2 DEF Apart
<1>4. Leased(k)'
  <2>1. \A p \in settler[k].batch : PayoutKept(p)
    BY <1>1, Working
  <2> QED
    BY <2>1, LetGo DEF PayoutKept
<1>5. \A p \in Payout \ {q} : InFlightBy(k, p) => InFlightBy(k, p)'
  BY DEF InFlightBy
<1> QED
  BY <1>1, <1>3, <1>4, <1>5, LeaseStep

(* While a settler works on a payout it stays leased.                      *)
LEMMA StillWorks ==
    ASSUME MoneyInv, LeaseInv, NEW k \in Settler, SameWork(k), settler[k].at \in Work,
           NEW q, q = Current(k), settler'[k].at \in Work,
           \A p \in Payout \ {q} : PayoutKept(p), ~payouts'[q].due
    PROVE  /\ \A p \in HeldBy(k)' : ~payouts'[p].due
           /\ \A p \in settler'[k].batch : payouts'[p].status = "pending"
           /\ Current(k)' \notin settler'[k].batch
           /\ Current(k)' = q
<1>1. /\ q \notin settler[k].batch /\ Leased(k) /\ settler[k].batch \in SUBSET Payout
  BY Working
<1>2. settler'[k].batch = settler[k].batch /\ Current(k)' = q
  BY DEF SameWork, Current
<1>3. HeldBy(k)' = settler[k].batch \cup {q} /\ settler[k].batch \subseteq HeldBy(k)
  BY <1>2 DEF HeldBy, Work
<1>4. \A p \in settler[k].batch : payouts'[p] = payouts[p]
  BY <1>1 DEF PayoutKept
<1> QED
  BY <1>1, <1>2, <1>3, <1>4 DEF Leased, Status

(* The bank is asked for a transfer it has not made.                       *)
LEMMA SendLease ==
    ASSUME MoneyInv, LeaseInv, NEW k \in Settler, SendToBank(k)
    PROVE  LeaseInv'
<1>1. PICK q : q = Current(k)
  OBVIOUS
<1>2. /\ settler[k].at = "bank" /\ UNCHANGED <<payouts, unrecorded, told>>
      /\ \/ bank' = [bank EXCEPT ![q] = @ + 1] /\ Goto(k, "markPaid")
         \/ UNCHANGED bank /\ Goto(k, "caught")
  BY <1>1 DEF SendToBank, At
<1>3. /\ q \in Payout /\ Known(q) /\ Status(q) = "pending" /\ ~InFlight(q)
      /\ unrecorded[q] \in Nat /\ bank \in [Payout -> Nat] /\ ~payouts[q].due
  BY <1>1, <1>2, Working, Facts DEF Leased, At, Work, RestTypeOK
<1>4. bank[q] = unrecorded[q] /\ told[q].paid = 0 /\ told[q].failed = 0
  BY <1>3 DEF Known
<1>5. \A p \in Payout \ {q} : PayoutKept(p)
  BY <1>2, <1>3 DEF PayoutKept
<1>6. payouts'[q].status = "pending" /\ told'[q] = told[q] /\ unrecorded'[q] = unrecorded[q]
      /\ ~payouts'[q].due
  BY <1>2, <1>3 DEF Status
<1>7. CASE bank' = [bank EXCEPT ![q] = @ + 1] /\ Goto(k, "markPaid")
  <2>1. OnlySettler(k) /\ SameWork(k) /\ settler'[k].at = "markPaid"
    BY <1>7, GotoFrame, Facts DEF Label
  <2>2. bank'[q] = unrecorded[q] + 1
    BY <1>3, <1>4, <1>7
  <2>3. Current(k)' = q /\ InFlight(q)'
    BY <1>1, <2>1 DEF SameWork, Current, InFlight, At
  <2>4. Known(q)'
    BY <1>4, <1>6, <2>3 DEF Known, Status
  <2>5. Leased(k)'
    BY <1>1, <1>2, <1>5, <1>6, <2>1, <2>2, <2>3, StillWorks DEF Leased, At, Work, Status
  <2> QED
    BY <1>1, <1>2, <1>5, <2>1, <2>4, <2>5, WorkLease DEF SameWork, Work, Current
<1>8. CASE UNCHANGED bank /\ Goto(k, "caught")
  <2>1. OnlySettler(k) /\ SameWork(k) /\ settler'[k].at = "caught" /\ bank'[q] = bank[q]
    BY <1>8, GotoFrame, Facts DEF Label
  <2>2. Current(k)' = q
    BY <1>1, <2>1 DEF SameWork, Current
  <2>3. Known(q)'
    BY <1>4, <1>6, <2>1 DEF Known, Status
  <2>4. Leased(k)'
    BY <1>1, <1>2, <1>3, <1>4, <1>5, <1>6, <2>1, <2>2, StillWorks DEF Leased, At, Work, Status
  <2> QED
    BY <1>1, <1>2, <1>5, <2>1, <2>3, <2>4, WorkLease DEF SameWork, Work, Current
<1> QED
  BY <1>2, <1>7, <1>8

(* markPaid is committed: the row and the event appear together.           *)
LEMMA PaidTells ==
    ASSUME MoneyInv, NEW q \in Payout, Paid(q)
    PROVE  /\ payouts'[q].status = "paid" /\ payouts'[q].due = payouts[q].due
           /\ told'[q].paid = told[q].paid + 1 /\ told'[q].failed = told[q].failed
           /\ \A p \in Payout \ {q} : payouts'[p] = payouts[p] /\ told'[p] = told[p]
<1>1. payouts' = [payouts EXCEPT ![q].status = "paid"] /\ Tell(q, "paid")
  BY DEF Paid
<1>2. payouts \in [Payout -> PayoutRow] /\ told \in [Payout -> [paid: Nat, failed: Nat]]
  BY Types DEF MoneyInv, RestTypeOK
<1>3. /\ payouts'[q].status = "paid" /\ payouts'[q].due = payouts[q].due
      /\ \A p \in Payout \ {q} : payouts'[p] = payouts[p]
  BY <1>1, <1>2 DEF PayoutRow
<1> QED
  BY <1>1, <1>2, <1>3, TellFrame

(* The statements that mark a payout paid, or fail to after the bank made  *)
(* the transfer.                                                           *)
LEMMA PaidLease ==
    ASSUME MoneyInv, LeaseInv, NEW k \in Settler,
           MarkPaid(k) \/ CrashAfterBank(k) \/ MarkPaidFails(k)
    PROVE  LeaseInv'
<1>1. PICK q : q = Current(k)
  OBVIOUS
<1>2. /\ settler[k].at = "markPaid" /\ UNCHANGED bank
      /\ \/ Paid(q) /\ UNCHANGED unrecorded /\ Goto(k, "next")
         \/ UNCHANGED <<payouts, told>> /\ Unrecorded(q) /\ settler' = [settler EXCEPT ![k] = Resting]
         \/ (Paid(q) \/ UNCHANGED <<payouts, told>>) /\ Unrecorded(q) /\ Goto(k, "caught")
  BY <1>1 DEF MarkPaid, CrashAfterBank, MarkPaidFails, At, Abandon, RolledBack
<1>3. /\ q \in Payout /\ Known(q) /\ Status(q) = "pending" /\ bank[q] = unrecorded[q] + 1
      /\ unrecorded \in [Payout -> Nat] /\ unrecorded[q] \in Nat /\ ~payouts[q].due
  BY <1>1, <1>2, Working, Facts DEF Leased, At, Work, RestTypeOK
<1>4. told[q].paid = 0 /\ told[q].failed = 0 /\ bank'[q] = bank[q]
  BY <1>2, <1>3 DEF Known
<1>5. Unrecorded(q) => /\ unrecorded'[q] = bank[q] /\ unrecorded'[q] > 0
                       /\ \A p \in Payout \ {q} : unrecorded'[p] = unrecorded[p]
  BY <1>3 DEF Unrecorded
<1>6. Paid(q) => /\ payouts'[q].status = "paid" /\ ~payouts'[q].due
                 /\ told'[q].paid = 1 /\ told'[q].failed = 0
                 /\ \A p \in Payout \ {q} : payouts'[p] = payouts[p] /\ told'[p] = told[p]
  BY <1>3, <1>4, PaidTells
<1>7. UNCHANGED <<payouts, told>> =>
         /\ payouts'[q].status = "pending" /\ ~payouts'[q].due
         /\ told'[q].paid = 0 /\ told'[q].failed = 0
  BY <1>3, <1>4 DEF Status
<1>8. \A p \in Payout \ {q} : PayoutKept(p)
  BY <1>2, <1>5, <1>6 DEF PayoutKept
<1>9. CASE Paid(q) /\ UNCHANGED unrecorded /\ Goto(k, "next")
  <2>1. OnlySettler(k) /\ SameWork(k) /\ settler'[k].at = "next"
    BY <1>9, GotoFrame, Facts DEF Label
  <2>2. Known(q)'
    BY <1>3, <1>4, <1>6, <1>9 DEF Known, Status
  <2> QED
    BY <1>1, <1>2, <1>8, <2>1, <2>2, WorkLease DEF SameWork, Work
<1>10. CASE /\ UNCHANGED <<payouts, told>> /\ Unrecorded(q)
            /\ settler' = [settler EXCEPT ![k] = Resting]
  <2>1. OnlySettler(k) /\ settler'[k].at = "idle" /\ settler'[k].batch = {}
    BY <1>10, RestFrame, Facts
  <2>2. Known(q)'
    BY <1>4, <1>5, <1>7, <1>10 DEF Known, Status
  <2> QED
    BY <1>1, <1>2, <1>8, <2>1, <2>2, WorkLease DEF Work
<1>11. CASE /\ Paid(q) \/ UNCHANGED <<payouts, told>>
            /\ Unrecorded(q) /\ Goto(k, "caught")
  <2>1. OnlySettler(k) /\ SameWork(k) /\ settler'[k].at = "caught"
    BY <1>11, GotoFrame, Facts DEF Label
  <2>2. Known(q)'
    BY <1>3, <1>4, <1>5, <1>6, <1>7, <1>11 DEF Known, Status
  <2>3. Leased(k)'
    BY <1>1, <1>2, <1>3, <1>4, <1>5, <1>6, <1>7, <1>8, <1>11, <2>1, StillWorks
    DEF Leased, At, Work, Status
  <2> QED
    BY <1>1, <1>2, <1>8, <2>1, <2>2, <2>3, WorkLease DEF SameWork, Work, Current
<1> QED
  BY <1>2, <1>9, <1>10, <1>11

(* The bank's refusal is counted, and the payout left for another attempt. *)
LEMMA RetryLease ==
    ASSUME MoneyInv, LeaseInv, NEW k \in Settler, MarkRetry(k)
    PROVE  LeaseInv'
<1>1. PICK q : q = Current(k)
  OBVIOUS
<1>2. /\ settler[k].at = "caught" /\ UNCHANGED <<bank, unrecorded, told>> /\ Goto(k, "next")
      /\ payouts' = [payouts EXCEPT ![q].attempts = Attempts(k), ![q].due = FALSE]
  BY <1>1 DEF MarkRetry, MarkRetryOf, At
<1>3. /\ q \in Payout /\ Known(q) /\ ~InFlight(q) /\ payouts \in [Payout -> PayoutRow]
  BY <1>1, <1>2, Working, Facts DEF Work
<1>4. /\ payouts'[q].status = payouts[q].status
      /\ \A p \in Payout \ {q} : payouts'[p] = payouts[p]
  <2> DEFINE f == [payouts EXCEPT ![q].attempts = Attempts(k)]
  <2>1. f[q].status = payouts[q].status /\ DOMAIN f = Payout
        /\ \A p \in Payout \ {q} : f[p] = payouts[p]
    BY <1>3 DEF PayoutRow
  <2>2. payouts' = [f EXCEPT ![q].due = FALSE]
    BY <1>2
  <2> HIDE DEF f
  <2> QED
    BY <1>3, <2>1, <2>2
<1>5. OnlySettler(k) /\ SameWork(k) /\ settler'[k].at = "next"
  BY <1>2, GotoFrame, Facts DEF Label
<1>6. Known(q)'
  BY <1>2, <1>3, <1>4 DEF Known, Status
<1>7. \A p \in Payout \ {q} : PayoutKept(p)
  BY <1>2, <1>4 DEF PayoutKept
<1> QED
  BY <1>1, <1>2, <1>5, <1>6, <1>7, WorkLease DEF SameWork, Work

(* The refund of a payout the bank has not made, as far as was recorded.   *)
LEMMA ReverseCommitLease ==
    ASSUME MoneyInv, LeaseInv, NEW k \in Settler, ReverseCommit(k)
    PROVE  LeaseInv'
<1>1. PICK q : q = Current(k)
  OBVIOUS
<1>2. /\ settler[k].at = "reverseCommit" /\ UNCHANGED <<bank, unrecorded>> /\ Goto(k, "next")
      /\ payouts' = [payouts EXCEPT ![q].status = "failed", ![q].attempts = Attempts(k)]
      /\ Tell(q, "failed")
  BY <1>1 DEF ReverseCommit, At
<1>3. /\ q \in Payout /\ Known(q) /\ payouts \in [Payout -> PayoutRow]
      /\ told \in [Payout -> [paid: Nat, failed: Nat]]
      /\ Status(q) \in {"pending", "paid"} /\ bank[q] <= unrecorded[q]
      /\ Status(q) = "paid" => unrecorded[q] > 0
      /\ unrecorded[q] \in Nat
  BY <1>1, <1>2, Working, Facts DEF Work, Leased, RestTypeOK
<1>4. told[q].failed = 0 /\ told[q].paid <= 1 /\ told[q].paid <= unrecorded[q]
  BY <1>3 DEF Known
<1>5. /\ payouts'[q].status = "failed"
      /\ \A p \in Payout \ {q} : payouts'[p] = payouts[p]
  BY <1>2, <1>3 DEF PayoutRow
<1>6. /\ told'[q].failed = 1 /\ told'[q].paid = told[q].paid
      /\ \A p \in Payout \ {q} : told'[p] = told[p]
  BY <1>2, <1>3, <1>4, TellFrame
<1>7. OnlySettler(k) /\ SameWork(k) /\ settler'[k].at = "next"
  BY <1>2, GotoFrame, Facts DEF Label
<1>8. Known(q)'
  BY <1>2, <1>3, <1>4, <1>5, <1>6 DEF Known, Status
<1>9. \A p \in Payout \ {q} : PayoutKept(p)
  BY <1>2, <1>5, <1>6 DEF PayoutKept
<1> QED
  BY <1>1, <1>2, <1>7, <1>8, <1>9, WorkLease DEF SameWork, Work

(* A new payout: nobody works on it and the bank knows nothing of it.      *)
LEMMA SweepCommitLease ==
    ASSUME MoneyInv, LeaseInv, NEW k \in Settler, SweepCommit(k)
    PROVE  LeaseInv'
<1>1. PICK p \in Payout, w \in Wallet :
          /\ Status(p) = "absent"
          /\ payouts' = [payouts EXCEPT ![p] =
                [status |-> "pending", wallet |-> w, amount |-> -dBalance[k][w],
                 attempts |-> 0, due |-> TRUE]]
  BY DEF SweepCommit
<1>2. /\ settler[k].at = "sweepCommit" /\ Goto(k, "sweep")
      /\ UNCHANGED <<bank, unrecorded, told>>
  BY DEF SweepCommit, At
<1>3. OnlySettler(k) /\ SameWork(k) /\ settler'[k].at = "sweep"
  BY <1>2, GotoFrame, Facts DEF Label
<1>4. /\ payouts'[p].status = "pending" /\ \A q \in Payout \ {p} : payouts'[q] = payouts[q]
  BY <1>1, Facts
<1>5. \A j \in Settler : p \notin HeldBy(j)
  BY <1>1, Facts DEF PerSettler, HeldBy, Work
<1>6. \A q \in settler[k].batch : payouts'[q] = payouts[q]
  BY <1>4, <1>5, Facts DEF HeldBy, Doing
<1>7. HeldBy(k)' \subseteq HeldBy(k) /\ Leased(k)'
  BY <1>3, <1>6, LetGo DEF SameWork, Work
<1>8. Known(p)'
  <2>1. Known(p)
    BY DEF LeaseInv
  <2> QED
    BY <1>1, <1>2, <1>4, <2>1 DEF Known, Status
<1>9. Apart(k, {p}) /\ Apart(k, HeldBy(k)')
  BY <1>5, <1>7, Working DEF Apart
<1>10. \A q \in Payout \ {p} : PayoutKept(q) /\ (InFlightBy(k, q) => InFlightBy(k, q)')
  BY <1>2, <1>4 DEF PayoutKept, InFlightBy
<1> QED
  BY <1>3, <1>7, <1>8, <1>9, <1>10, LeaseStep

(* What is due is leased by nobody: whoever claims it is alone with it.    *)
LEMMA ClaimLease ==
    ASSUME MoneyInv, LeaseInv, NEW k \in Settler, ClaimDue(k)
    PROVE  LeaseInv'
<1>1. PICK rows \in SUBSET Due(k) : ClaimRows(k, rows)
  BY DEF ClaimDue
<1>2. rows \in SUBSET Payout
      /\ \A p \in rows : payouts[p].status = "pending" /\ payouts[p].due
  BY DEF Due, Status
<1>3. UNCHANGED <<bank, unrecorded, told>> /\ settler[k].at = "claim"
  BY <1>1 DEF ClaimDue, ClaimRows, At
<1>4. /\ OnlySettler(k)
      /\ settler'[k].at = "next" /\ settler'[k].batch = rows
      /\ \A p \in Payout : /\ payouts'[p].status = payouts[p].status
                            /\ payouts'[p].due = (payouts[p].due /\ p \notin rows)
  BY <1>1, <1>2, ClaimFrame, Facts
<1>5. \A p \in Payout \ rows : payouts'[p] = payouts[p]
  BY <1>1 DEF ClaimRows
<1>6. HeldBy(k)' = rows
  BY <1>4 DEF HeldBy
<1>7. Apart(k, rows)
  BY <1>2 DEF Apart, LeaseInv, Leased
<1>8. Leased(k)'
  BY <1>2, <1>4, <1>6 DEF Leased, At, Work, Status
<1>9. ASSUME NEW p \in rows PROVE Known(p)'
  <2>1. Known(p) /\ payouts'[p].status = "pending" /\ payouts[p].status = "pending"
    BY <1>2, <1>4 DEF LeaseInv
  <2>2. ~InFlight(p)
    BY <1>3, <1>7 DEF InFlight, At, Apart, HeldBy
  <2> QED
    BY <1>3, <2>1, <2>2 DEF Known, Status
<1>10. \A p \in Payout \ rows : PayoutKept(p) /\ (InFlightBy(k, p) => InFlightBy(k, p)')
  BY <1>3, <1>5 DEF PayoutKept, InFlightBy
<1> QED
  BY <1>2, <1>4, <1>6, <1>7, <1>8, <1>9, <1>10, LeaseStep

(* A step of nobody becomes due only to what nobody works on.              *)
LEMMA OutsideLease ==
    ASSUME MoneyInv, LeaseInv, UNCHANGED <<settler, bank, unrecorded, told>>,
           \A p \in Payout : payouts'[p].status = payouts[p].status,
           \A p \in Payout, k \in Settler : p \in HeldBy(k) => payouts'[p] = payouts[p]
    PROVE  LeaseInv'
<1>1. ASSUME NEW k \in Settler PROVE Leased(k)' /\ HeldBy(k)' = HeldBy(k)
  <2>1. HeldBy(k)' = HeldBy(k) /\ Current(k)' = Current(k) /\ settler' = settler
    BY DEF HeldBy, Current
  <2>2. \A p \in HeldBy(k) : p \in Payout /\ payouts'[p] = payouts[p]
    BY Working, Facts, HeldIs DEF Doing
  <2>3. /\ Leased(k) /\ settler[k].batch \subseteq HeldBy(k)
        /\ settler[k].at \in Work => Current(k) \in HeldBy(k)
    BY HeldIs DEF LeaseInv
  <2> HIDE DEF HeldBy, Current
  <2> QED
    BY <2>1, <2>2, <2>3 DEF Leased, At, Status, Work
<1>2. OneHolder'
  BY <1>1 DEF OneHolder, LeaseInv
<1>3. ASSUME NEW p \in Payout PROVE Known(p)'
  <2>1. Known(p) /\ (InFlight(p) <=> InFlight(p)') /\ payouts'[p].status = payouts[p].status
    BY DEF LeaseInv, InFlight, At, Current
  <2> QED
    BY <2>1 DEF Known, Status
<1> QED
  BY <1>1, <1>2, <1>3 DEF LeaseInv

LEMMA SettlerLease ==
    ASSUME MoneyInv, LeaseInv, NEW k \in Settler, SettlerStep(k) \/ Disturbance(k)
    PROVE  LeaseInv'
<1>1. CASE Sweep(k)
  BY <1>1, RestLease, SweepCommitLease DEF Sweep
<1>2. CASE Process(k)
  BY <1>2, ClaimLease, TakeLease, RestLease, SendLease, PaidLease, RetryLease, ReverseLease,
     ReverseCommitLease DEF Process
<1>3. CASE Disturbance(k)
  BY <1>3, RestLease, PaidLease DEF Disturbance
<1> QED
  BY <1>1, <1>2, <1>3 DEF SettlerStep

LEMMA LeaseNext ==
    ASSUME "slowSettler" \notin Faults, MoneyInv, LeaseInv, [Next]_vars
    PROVE  LeaseInv'
<1>1. ASSUME NEW p \in Payout, BecomesDue(p) PROVE LeaseInv'
  <2>1. /\ UNCHANGED <<settler, bank, unrecorded, told>>
        /\ \A k \in Settler : p \notin HeldBy(k)
    BY <1>1 DEF BecomesDue
  <2>2. /\ \A q \in Payout : payouts'[q].status = payouts[q].status
        /\ \A q \in Payout \ {p} : payouts'[q] = payouts[q]
    BY <1>1, DueFrame, Types DEF MoneyInv
  <2> QED
    BY <2>1, <2>2, OutsideLease
<1>2. ASSUME UNCHANGED <<settler, payouts, bank, unrecorded, told>> PROVE LeaseInv'
  BY <1>2, OutsideLease
<1>3. CASE UNCHANGED vars
  BY <1>2, <1>3 DEF vars, payoutVars
<1>4. CASE Next
  BY <1>1, <1>2, <1>4, SettlerLease DEF Next, RegisterAccount, Charge
<1> QED
  BY <1>3, <1>4

LEMMA LeaseInit == Init => LeaseInv
  BY PayoutsAssumption DEF Init, LeaseInv, Leased, OneHolder, Known, HeldBy, Resting, NoPayout,
     At, Work, Status, Current

(* As long as no settler outlives a lease: what the platform has not been  *)
(* able to record is known of every payout, and nobody works on one that   *)
(* another works on.                                                       *)
THEOREM LeaseInductive == ASSUME "slowSettler" \notin Faults PROVE Spec => [](MoneyInv /\ LeaseInv)
<1>1. Init => MoneyInv /\ LeaseInv
  BY MoneyInit, LeaseInit
<1>2. MoneyInv /\ LeaseInv /\ [Next]_vars => (MoneyInv /\ LeaseInv)'
  BY MoneyNext, LeaseNext
<1> QED
  BY <1>1, <1>2, PTL DEF Spec

LEMMA LeasesTell ==
    ASSUME MoneyInv, LeaseInv
    PROVE  SentAtMostOnce /\ StatusTellsTheBank /\ MerchantsAreTold
<1> SUFFICES ASSUME NEW p \in Payout
             PROVE  /\ bank[p] <= 1 + unrecorded[p]
                    /\ Status(p) = "paid" => bank[p] >= 1
                    /\ Status(p) = "failed" => bank[p] <= unrecorded[p]
                    /\ Status(p) \in {"absent", "pending"} => told[p].paid + told[p].failed = 0
                    /\ Status(p) = "paid" => told[p].paid >= 1 /\ told[p].failed = 0
                    /\ Status(p) = "failed" => told[p].failed >= 1
                    /\ told[p].paid + told[p].failed <= 1 + unrecorded[p]
  BY DEF SentAtMostOnce, StatusTellsTheBank, MerchantsAreTold
<1>1. /\ Known(p) /\ bank[p] \in Nat /\ unrecorded[p] \in Nat /\ payouts[p] \in PayoutRow
      /\ told[p].paid \in Nat /\ told[p].failed \in Nat
  BY Types DEF LeaseInv, MoneyInv, RestTypeOK
<1>2. InFlight(p) => bank[p] = unrecorded[p] + 1
  BY DEF InFlight, LeaseInv, Leased
<1>3. bank[p] <= 1 + unrecorded[p]
  BY <1>1, <1>2 DEF Known, PayoutRow, Status
<1>4. /\ Status(p) = "paid" => bank[p] >= 1
      /\ Status(p) = "failed" => bank[p] <= unrecorded[p]
  BY <1>1 DEF Known
<1>5. /\ Status(p) \in {"absent", "pending"} => told[p].paid + told[p].failed = 0
      /\ Status(p) = "paid" => told[p].paid >= 1 /\ told[p].failed = 0
      /\ Status(p) = "failed" => told[p].failed >= 1
      /\ told[p].paid + told[p].failed <= 1 + unrecorded[p]
  BY <1>1 DEF Known, PayoutRow, Status
<1> QED
  BY <1>3, <1>4, <1>5

(* A payout reaches the bank once, and once more only for every transfer   *)
(* the platform could not record: what is due is leased to one settler,    *)
(* which knows of every transfer that was recorded.                        *)
THEOREM SentAtMostOnceAlways ==
    ASSUME "slowSettler" \notin Faults PROVE Spec => []SentAtMostOnce
  BY LeasesTell, LeaseInductive, PTL

(* A payout called paid has left the platform, and one that is refunded as *)
(* failed has not, as far as the platform could record it.                 *)
THEOREM StatusAlwaysTellsTheBank ==
    ASSUME "slowSettler" \notin Faults PROVE Spec => []StatusTellsTheBank
  BY LeasesTell, LeaseInductive, PTL

(* A merchant hears once what became of a payout, and nothing before, but  *)
(* for once more for every transfer the platform failed to record.         *)
THEOREM MerchantsAreAlwaysTold ==
    ASSUME "slowSettler" \notin Faults PROVE Spec => []MerchantsAreTold
  BY LeasesTell, LeaseInductive, PTL

(* The statement that may still follow on a payout knows how it stands: it *)
(* is pending, or its markPaid was committed and not acknowledged.         *)
LEMMA MarksTheLiving ==
    ASSUME MoneyInv, LeaseInv, NEW k \in Settler, NEW p \in Payout,
           Status(p) \in {"paid", "failed"}, unrecorded[p] = 0
    PROVE  settler[k].at \in {"markPaid", "caught", "reverseCommit"} => Current(k) # p
  BY Working DEF Leased, At, Status

(* No settler, with whatever old copy of the row, writes the status or the *)
(* attempts of a payout that is done with.                                 *)
THEOREM TerminalStaysFinal ==
    ASSUME "slowSettler" \notin Faults PROVE Spec => TerminalIsFinal
<1> DEFINE Kept == \A p \in Payout : Status(p) \in {"paid", "failed"} /\ unrecorded[p] = 0
                      => /\ payouts'[p].status = payouts[p].status
                         /\ payouts'[p].attempts = payouts[p].attempts
<1>1. MoneyInv /\ LeaseInv /\ [Next]_vars => Kept
  <2> SUFFICES ASSUME MoneyInv, LeaseInv, [Next]_vars, NEW p \in Payout,
                      Status(p) \in {"paid", "failed"}, unrecorded[p] = 0
               PROVE  /\ payouts'[p].status = payouts[p].status
                      /\ payouts'[p].attempts = payouts[p].attempts
    OBVIOUS
  <2>1. CASE payouts' = payouts
    BY <2>1
  <2>2. CASE \E k \in Settler : ClaimDue(k)
    <3>1. PICK k \in Settler, rows \in SUBSET Payout : ClaimRows(k, rows)
      BY <2>2 DEF ClaimDue, Due
    <3> QED
      BY <3>1, ClaimFrame, Facts
  <2>3. CASE \E k \in Settler : /\ settler[k].at \in {"markPaid", "caught", "reverseCommit"}
                                /\ \A q \in Payout \ {Current(k)} : payouts'[q] = payouts[q]
    BY <2>3, MarksTheLiving
  <2>4. CASE \E q \in Payout : BecomesDue(q)
    BY <2>4, DueFrame, Types DEF MoneyInv
  <2>5. CASE \E k \in Settler : SweepCommit(k)
    BY <2>5, Types DEF SweepCommit, MoneyInv, Status
  <2>6. payouts \in [Payout -> PayoutRow]
    BY Types DEF MoneyInv
  <2>7. CASE \E k \in Settler : MarkPaid(k) \/ MarkPaidFails(k) \/ MarkRetry(k) \/ ReverseCommit(k)
    BY <2>1, <2>3, <2>6, <2>7 DEF MarkPaid, MarkPaidFails, MarkRetry, MarkRetryOf,
       ReverseCommit, Paid, RolledBack, At
  <2>8. CASE UNCHANGED vars
    BY <2>1, <2>8 DEF vars, payoutVars
  <2>9. ASSUME NEW k \in Settler, SettlerStep(k) \/ Disturbance(k)
        PROVE  \/ payouts' = payouts \/ ClaimDue(k) \/ SweepCommit(k)
               \/ MarkPaid(k) \/ MarkPaidFails(k) \/ MarkRetry(k) \/ ReverseCommit(k)
    BY <2>9 DEF SettlerStep, Sweep, Process, Disturbance, SweepList, SweepDone, SweepDebit,
       SweepSkip, Take, TickDone, SendToBank, Reverse, ReverseRejected, Abort, CrashAfterBank
  <2> QED
    BY <2>1, <2>2, <2>4, <2>5, <2>7, <2>8, <2>9 DEF Next, RegisterAccount, Charge
<1>2. TerminalIsFinal <=> [][Kept]_vars
  BY PTL DEF TerminalIsFinal
<1> QED
  BY <1>1, <1>2, LeaseInductive, PTL DEF Spec

----------------------------------------------------------------------------
(* Where the money is.                                                     *)

(* A sweep has the debit of one wallet pending, a reversal the amount of   *)
(* the payout it reverses. *)
Posted(k) ==
    /\ At(k, "sweepCommit") => \E w \in Wallet, n \in Int : dBalance[k] = Only(w, n)
    /\ At(k, "reverseCommit") =>
          dBalance[k] = Only(payouts[Current(k)].wallet, payouts[Current(k)].amount)

SameMoney(p) == /\ payouts'[p].wallet = payouts[p].wallet
                /\ payouts'[p].amount = payouts[p].amount

(* A settler writes in its own transaction only ...                        *)
LEMMA SettlerStaysInside ==
    ASSUME MoneyInv, NEW k \in Settler, SettlerStep(k) \/ Disturbance(k)
    PROVE  OthersPending(k)
<1>1. k \in Txn /\ StoreInv
  BY Facts
<1>2. CASE \/ SweepList(k) \/ SweepDone(k) \/ \E w \in Wallet : SweepSkip(k, w)
           \/ ClaimDue(k) \/ Take(k) \/ TickDone(k) \/ SendToBank(k) \/ MarkPaid(k)
           \/ MarkRetry(k) \/ ReverseRejected(k) \/ CrashAfterBank(k) \/ MarkPaidFails(k)
  <2>1. UNCHANGED storeVars
    BY <1>2 DEF SweepList, SweepDone, SweepSkip, ClaimDue, ClaimRows, Take, TickDone,
       SendToBank, MarkPaid, MarkRetry, MarkRetryOf, ReverseRejected, CrashAfterBank,
       MarkPaidFails
  <2> QED
    BY <1>1, <2>1, OwnWrites
<1>3. CASE Reverse(k) \/ \E w \in Wallet : SweepDebit(k, w)
  BY <1>1, <1>3, OwnWrites DEF Reverse, SweepDebit
<1>4. CASE SweepCommit(k) \/ ReverseCommit(k)
  BY <1>1, <1>4, OwnWrites DEF SweepCommit, ReverseCommit
<1>5. CASE Abort(k)
  BY <1>1, <1>5, OwnWrites DEF Abort
<1> QED
  BY <1>2, <1>3, <1>4, <1>5 DEF SettlerStep, Sweep, Process, Disturbance

(* ... and leaves alone what others do and have pending.                   *)
LEMMA OthersWait ==
    ASSUME MoneyInv, NEW k \in Settler, SettlerStep(k) \/ Disturbance(k),
           NEW j \in Settler \ {k}
    PROVE  settler'[j] = settler[j] /\ dBalance'[j] = dBalance[j]
<1>1. settler \in [Settler -> Doing] /\ j \in Txn /\ k \in Txn
  BY Facts
<1>2. settler'[j] = settler[j]
  BY <1>1 DEF SettlerStep, Sweep, Process, Disturbance, SweepList, SweepDone, SweepDebit,
     SweepSkip, SweepCommit, ClaimDue, ClaimRows, Take, TickDone, SendToBank, MarkPaid,
     MarkRetry, MarkRetryOf, Reverse, ReverseCommit, ReverseRejected, Abort, CrashAfterBank,
     MarkPaidFails, Abandon, Goto
<1>3. OthersPending(k)
  BY SettlerStaysInside
<1> QED
  BY <1>1, <1>2, <1>3 DEF OthersPending

LEMMA PostingIsOnly ==
    ASSUME StoreInv, NEW k \in Txn, NEW x \in Wallet, NEW n \in Int,
           LockAndPost(k, x, n), dBalance[k] = Nothing
    PROVE  dBalance'[k] = Only(x, n)
<1>1. dBalance'[k] = [dBalance[k] EXCEPT ![x] = @ + n]
  BY DEF LockAndPost, StoreInv, StoreTypeOK
<1> QED
  BY <1>1 DEF Nothing, Only

(* A settler is at a COMMIT only with what it posted.                      *)
LEMMA OwnPosting ==
    ASSUME MoneyInv, NEW k \in Settler, SettlerStep(k) \/ Disturbance(k)
    PROVE  Posted(k)'
<1>1. /\ settler \in [Settler -> Doing] /\ k \in Txn /\ StoreInv /\ PerSettler(k)
  BY Facts
<1>2. CASE \E w \in Wallet : SweepDebit(k, w)
  <2>1. PICK w \in Wallet : SweepDebit(k, w)
    BY <1>2
  <2>2. -balance[w] \in Int /\ LockAndPost(k, w, -balance[w])
    BY <2>1, Facts, StoreAssumption DEF StoreInv, StoreTypeOK, SweepDebit
  <2>3. dBalance[k] = Nothing
    BY <1>1, <2>1 DEF SweepDebit, PerSettler, At
  <2>4. PICK n \in Int : LockAndPost(k, w, n)
    BY <2>2
  <2>5. dBalance'[k] = Only(w, n)
    BY <1>1, <2>3, <2>4, PostingIsOnly
  <2>6. settler'[k].at = "sweepCommit"
    BY <2>1, <1>1, SweepFrame DEF Label
  <2> QED
    BY <2>5, <2>6 DEF Posted, At
<1>3. CASE Reverse(k)
  <2> DEFINE x == payouts[Current(k)].wallet
             n == payouts[Current(k)].amount
  <2>1. /\ settler[k].at = "caught" /\ Goto(k, "reverseCommit") /\ LockAndPost(k, x, n)
        /\ payouts' = payouts
    BY <1>3 DEF Reverse, At
  <2>2. x \in Wallet /\ n \in Int
    BY <2>1, Facts, StoreAssumption DEF Work
  <2>3. dBalance[k] = Nothing
    BY <1>1, <2>1 DEF PerSettler
  <2>5. dBalance'[k] = Only(x, n)
    <3> HIDE DEF x, n
    <3>1. PICK y \in Wallet, m \in Int : x = y /\ n = m
      BY <2>2
    <3>2. dBalance'[k] = Only(y, m)
      BY <1>1, <2>1, <2>3, <3>1, PostingIsOnly
    <3> QED
      BY <3>1, <3>2
  <2>6. settler'[k].at = "reverseCommit" /\ settler'[k].current = settler[k].current
    BY <1>1, <2>1, GotoFrame DEF Label, SameWork
  <2> QED
    BY <2>1, <2>5, <2>6 DEF Posted, At, Current
<1>4. ASSUME settler'[k].at \notin {"sweepCommit", "reverseCommit"}
      PROVE  Posted(k)'
  BY <1>4 DEF Posted, At
<1>5. CASE SweepList(k) \/ \E w \in Wallet : SweepSkip(k, w)
  BY <1>1, <1>4, <1>5, SweepFrame DEF Label
<1>6. CASE \/ SweepDone(k) \/ SweepCommit(k) \/ ReverseCommit(k) \/ SendToBank(k)
           \/ MarkPaid(k) \/ MarkRetry(k) \/ MarkPaidFails(k)
  <2>1. \E l \in {"claim", "sweep", "next", "markPaid", "caught"} : Goto(k, l)
    BY <1>6 DEF SweepDone, SweepCommit, ReverseCommit, SendToBank, MarkPaid, MarkRetry,
       MarkRetryOf, MarkPaidFails
  <2> QED
    BY <1>1, <1>4, <2>1 DEF Goto, Doing
<1>7. CASE ClaimDue(k)
  <2>1. PICK rows \in SUBSET Payout : ClaimRows(k, rows)
    BY <1>7 DEF ClaimDue, Due
  <2> QED
    BY <1>1, <1>4, <2>1, ClaimFrame, Facts
<1>9. CASE Take(k)
  <2>1. PICK p \in settler[k].batch :
          settler' = [settler EXCEPT ![k].at = "bank", ![k].current = p,
                                     ![k].batch = @ \ {p}]
    BY <1>9 DEF Take
  <2> QED
    BY <1>1, <1>4, <2>1, TakeFrame
<1>8. CASE TickDone(k) \/ ReverseRejected(k) \/ CrashAfterBank(k) \/ Abort(k)
  BY <1>1, <1>4, <1>8 DEF TickDone, ReverseRejected, CrashAfterBank, Abort, Abandon, Resting
<1> QED
  BY <1>2, <1>3, <1>5, <1>6, <1>7, <1>8, <1>9
     DEF SettlerStep, Sweep, Process, Disturbance

(* Of a payout that exists, neither the wallet nor the amount ever changes.*)
LEMMA MoneyOfRows ==
    ASSUME MoneyInv, LeaseInv, [Next]_vars, NEW p \in Payout
    PROVE  /\ Status(p) # "absent" => SameMoney(p)
           /\ \/ SameMoney(p) /\ (Status(p)' \in {"pending", "paid"} <=>
                                    Status(p) \in {"pending", "paid"})
              \/ \E k \in Settler : SweepCommit(k) \/ ReverseCommit(k)
<1>1. payouts \in [Payout -> PayoutRow]
  BY Types DEF MoneyInv
<1>2. CASE payouts' = payouts
  BY <1>2 DEF SameMoney, Status
<1>3. CASE \E k \in Settler : SweepCommit(k)
  BY <1>1, <1>3 DEF SweepCommit, SameMoney, Status
<1>4. ASSUME NEW k \in Settler, ReverseCommit(k)
      PROVE  SameMoney(p)
  BY <1>1, <1>4 DEF ReverseCommit, SameMoney, PayoutRow
<1>5. ASSUME NEW k \in Settler, ClaimDue(k)
      PROVE  SameMoney(p) /\ Status(p)' = Status(p)
  BY <1>1, <1>5 DEF ClaimDue, ClaimRows, SameMoney, Status, PayoutRow
<1>6. ASSUME NEW k \in Settler, MarkRetry(k)
      PROVE  SameMoney(p) /\ Status(p)' = Status(p)
  BY <1>1, <1>6 DEF MarkRetry, MarkRetryOf, SameMoney, Status, PayoutRow
<1>7. ASSUME NEW k \in Settler, At(k, "markPaid"), Paid(Current(k))
      PROVE  SameMoney(p) /\ (Status(p)' \in {"pending", "paid"} <=>
                              Status(p) \in {"pending", "paid"})
  <2>1. Status(Current(k)) = "pending"
    BY <1>7 DEF LeaseInv, Leased
  <2> QED
    BY <1>1, <1>7, <2>1 DEF Paid, SameMoney, Status, PayoutRow
<1>8. ASSUME NEW q \in Payout, BecomesDue(q)
      PROVE  SameMoney(p) /\ Status(p)' = Status(p)
  BY <1>1, <1>8 DEF BecomesDue, SameMoney, Status, PayoutRow
<1>9. CASE UNCHANGED vars
  BY <1>2, <1>9 DEF vars, payoutVars
<1>10. ASSUME NEW k \in Settler, SettlerStep(k) \/ Disturbance(k)
       PROVE  \/ payouts' = payouts \/ ClaimDue(k) \/ SweepCommit(k) \/ MarkRetry(k)
              \/ ReverseCommit(k) \/ (At(k, "markPaid") /\ Paid(Current(k)))
  BY <1>10 DEF SettlerStep, Sweep, Process, Disturbance, SweepList, SweepDone, SweepDebit,
     SweepSkip, Take, TickDone, SendToBank, Reverse, ReverseRejected, Abort, CrashAfterBank,
     MarkPaid, MarkPaidFails, RolledBack
<1> QED
  BY <1>2, <1>3, <1>4, <1>5, <1>6, <1>7, <1>8, <1>9, <1>10
     DEF Next, RegisterAccount, Charge

(* A sweep or a reversal that is about to commit has posted just its       *)
(* amount, to just its wallet.                                             *)
LEMMA PostedNext ==
    ASSUME MoneyInv, LeaseInv, \A k \in Settler : Posted(k), [Next]_vars, NEW j \in Settler
    PROVE  Posted(j)'
<1>1. ASSUME settler'[j] = settler[j], dBalance'[j] = dBalance[j]
      PROVE  Posted(j)'
  <2>1. CASE At(j, "reverseCommit")
    <3>1. Current(j) \in Payout /\ Status(Current(j)) # "absent"
      BY <2>1, Facts DEF At, Work, PerSettler
    <3>2. SameMoney(Current(j))
      BY <3>1, MoneyOfRows
    <3> QED
      BY <1>1, <2>1, <3>2 DEF Posted, At, Current, SameMoney
  <2>2. CASE ~At(j, "reverseCommit")
    BY <1>1, <2>2 DEF Posted, At
  <2> QED
    BY <2>1, <2>2
<1>2. CASE settler' = settler /\ dBalance' = dBalance
  BY <1>1, <1>2
<1>3. ASSUME NEW k \in Settler, SettlerStep(k) \/ Disturbance(k)
      PROVE  Posted(j)'
  BY <1>1, <1>3, OthersWait, OwnPosting
<1> QED
  BY <1>2, <1>3 DEF Next, vars, payoutVars, storeVars, BecomesDue, RegisterAccount, Charge,
     pendingVars

(* What payout p holds of the money of wallet w. *)
Share(p, w) == IF payouts[p].wallet = w /\ Status(p) \in {"pending", "paid"}
               THEN payouts[p].amount ELSE 0

(* What there is of the money of wallet w, in it and in its payouts. *)
Held(w) == balance[w] + Total([p \in Payout |-> Share(p, w)], Payout)

Conserved(w) == Held(w) = Funds[w] + charged[w]

LEMMA ShareIsInt ==
    ASSUME MoneyInv, NEW p \in Payout, NEW w
    PROVE  Share(p, w) \in Int
<1>1. payouts[p].amount \in Int
  BY Types, StoreAssumption DEF MoneyInv, PayoutRow
<1> QED
  BY <1>1 DEF Share

(* The invariant in the words of the model. *)
LEMMA InPayoutsIs ==
    ASSUME IsFiniteSet(Payout), MoneyInv, NEW w \in Wallet
    PROVE  InPayouts(w) = Total([p \in Payout |-> Share(p, w)], Payout)
<1> DEFINE S == {p \in Payout : payouts[p].wallet = w /\ Status(p) \in {"pending", "paid"}}
           f == [p \in Payout |-> payouts[p].amount]
           h == [p \in Payout |-> Share(p, w)]
<1>1. \A p \in Payout : payouts[p].amount \in Int
  BY Types, StoreAssumption DEF MoneyInv, PayoutRow
<1>2. Total(f, S) = Total(h, Payout)
  <2>1. \A p \in Payout : f[p] \in Int /\ h[p] = IF p \in S THEN f[p] ELSE 0
    BY <1>1 DEF Share
  <2>2. S \in SUBSET Payout
    OBVIOUS
  <2> HIDE DEF S, f, h
  <2> QED
    BY <2>1, <2>2, TotalOfPart
<1>3. ASSUME NEW g
      PROVE  IsSum(g, f, S) <=>
             g = [T \in SUBSET S |->
                    IF T = {} THEN 0
                    ELSE payouts[CHOOSE x \in T : TRUE].amount
                           + g[T \ {CHOOSE x \in T : TRUE}]]
  <2>1. ASSUME NEW T \in SUBSET S, T # {}
        PROVE  f[CHOOSE x \in T : TRUE] = payouts[CHOOSE x \in T : TRUE].amount
    <3>1. (CHOOSE x \in T : TRUE) \in Payout
      BY <2>1
    <3> QED
      BY <3>1
  <2> HIDE DEF S, f
  <2>2. [T \in SUBSET S |-> IF T = {} THEN 0
                            ELSE f[CHOOSE x \in T : TRUE] + g[T \ {CHOOSE x \in T : TRUE}]]
        = [T \in SUBSET S |->
                    IF T = {} THEN 0
                    ELSE payouts[CHOOSE x \in T : TRUE].amount
                           + g[T \ {CHOOSE x \in T : TRUE}]]
    BY <2>1
  <2> QED
    BY <2>2 DEF IsSum
<1>4. InPayouts(w) = Total(f, S)
  <2>1. InPayouts(w) = MapThenSumSet(LAMBDA p : payouts[p].amount, S)
    BY DEF InPayouts
  <2>2. MapThenSumSet(LAMBDA p : payouts[p].amount, S) = Total(f, S)
    <3> DEFINE Sums(g) == g = [T \in SUBSET S |->
                                 IF T = {} THEN 0
                                 ELSE payouts[CHOOSE x \in T : TRUE].amount
                                        + g[T \ {CHOOSE x \in T : TRUE}]]
    <3>1. MapThenSumSet(LAMBDA p : payouts[p].amount, S) = (CHOOSE g : Sums(g))[S]
      BY DEF MapThenSumSet, MapThenFoldSet
    <3>2. \A g : IsSum(g, f, S) <=> Sums(g)
      BY <1>3
    <3> HIDE DEF Sums, f, S
    <3>3. (CHOOSE g : IsSum(g, f, S)) = (CHOOSE g : Sums(g))
      BY <3>2
    <3> QED
      BY <3>1, <3>3 DEF Total
  <2> QED
    BY <2>1, <2>2
<1> QED
  BY <1>2, <1>4

LEMMA HeldIsInt ==
    ASSUME IsFiniteSet(Payout), MoneyInv, NEW w \in Wallet
    PROVE  Held(w) \in Int
<1> DEFINE f == [p \in Payout |-> Share(p, w)]
<1>1. \A p \in Payout : f[p] \in Int
  BY ShareIsInt
<1>2. balance[w] \in Int
  BY StoreAssumption DEF MoneyInv, StoreInv, StoreTypeOK
<1>3. Total(f, Payout) \in Int
  <2> HIDE DEF f
  <2> QED
    BY <1>1, TotalWithout
<1> QED
  BY <1>2, <1>3 DEF Held

(* Before the first sweep, everything is in the wallet.                    *)
LEMMA InitHeld ==
    ASSUME IsFiniteSet(Payout), Init, NEW w \in Wallet
    PROVE  Held(w) = Funds[w] /\ charged[w] = 0
<1> DEFINE f == [p \in Payout |-> Share(p, w)]
           g == [T \in SUBSET Payout |-> 0]
<1>1. \A p \in Payout : f[p] = 0
  BY DEF Init, Share, Status, NoPayout
<1>2. Additive(g, f, Payout)
  <2> HIDE DEF f
  <2> QED
    BY <1>1 DEF Additive
<1>3. Total(f, Payout) = 0
  <2>1. Total(f, Payout) = g[Payout]
    <3> HIDE DEF f, g
    <3> QED
      BY <1>2, TotalOf
  <2> QED
    BY <2>1
<1>4. balance[w] = Funds[w] /\ Funds[w] \in Int /\ charged[w] = 0
  BY StoreAssumption DEF Init, StoreInit, Nothing
<1> QED
  BY <1>3, <1>4 DEF Held

(* What leaves a wallet comes into one payout, and back. *)
LEMMA Exchange ==
    ASSUME IsFiniteSet(Payout), MoneyInv, MoneyInv', NEW w \in Wallet, NEW p \in Payout,
           balance'[w] = balance[w] + Share(p, w) - Share(p, w)',
           \A q \in Payout \ {p} : Share(q, w)' = Share(q, w)
    PROVE  Held(w)' = Held(w)
<1> DEFINE f == [q \in Payout |-> Share(q, w)]
           h == [q \in Payout |-> Share(q, w)']
<1>1. (\A q \in Payout : f[q] \in Int) /\ h[p] \in Int
  <2>1. payouts'[p].amount \in Int
    BY StoreAssumption DEF MoneyInv, TypeOK
  <2> QED
    BY <2>1, ShareIsInt DEF Share
<1>2. \A q \in Payout \ {p} : h[q] = f[q]
  OBVIOUS
<1>3. balance'[w] = balance[w] + f[p] - h[p]
  OBVIOUS
<1>4. balance[w] \in Int
  BY StoreAssumption DEF MoneyInv, StoreInv, StoreTypeOK
<1>5. balance'[w] + Total(h, Payout) = balance[w] + Total(f, Payout)
  <2> HIDE DEF f, h
  <2>1. Total(h, Payout) = Total(f, Payout) - f[p] + h[p]
    BY <1>1, <1>2, TotalChanges
  <2>2. Total(f, Payout) \in Int
    BY <1>1, TotalWithout
  <2> QED
    BY <1>1, <1>3, <1>4, <2>1, <2>2
<1> QED
  BY <1>5 DEF Held

LEMMA SweepExchanges ==
    ASSUME IsFiniteSet(Payout), MoneyInv, MoneyInv', NEW w \in Wallet,
           NEW k \in Settler, Posted(k), SweepCommit(k)
    PROVE  Held(w)' = Held(w)
<1>1. PICK p \in Payout, x \in Wallet :
          /\ Status(p) = "absent" /\ dBalance[k][x] < 0
          /\ payouts' = [payouts EXCEPT ![p] =
                [status |-> "pending", wallet |-> x, amount |-> -dBalance[k][x],
                 attempts |-> 0, due |-> TRUE]]
  BY DEF SweepCommit
<1>2. PICK y \in Wallet, n \in Int : dBalance[k] = Only(y, n)
  BY DEF SweepCommit, Posted
<1>3. x = y /\ dBalance[k][x] = n
  BY <1>1, <1>2 DEF Only
<1>4. dBalance[k][w] = (IF w = x THEN n ELSE 0)
  BY <1>2, <1>3 DEF Only
<1>5. balance'[w] = balance[w] + dBalance[k][w] /\ balance[w] \in Int
  BY StoreAssumption DEF SweepCommit, CommitTxn, MoneyInv, StoreInv, StoreTypeOK
<1>6. payouts \in [Payout -> PayoutRow]
  BY Types DEF MoneyInv
<1>7. Share(p, w) = 0 /\ Share(p, w)' = (IF w = x THEN -n ELSE 0)
  BY <1>1, <1>3, <1>6 DEF Share, Status
<1>8. \A q \in Payout \ {p} : Share(q, w)' = Share(q, w)
  BY <1>1, <1>6 DEF Share, Status
<1>9. balance'[w] = balance[w] + Share(p, w) - Share(p, w)'
  BY <1>4, <1>5, <1>7
<1> QED
  BY <1>8, <1>9, Exchange

LEMMA ReversalExchanges ==
    ASSUME IsFiniteSet(Payout), MoneyInv, MoneyInv', LeaseInv, NEW w \in Wallet,
           NEW k \in Settler, Posted(k), ReverseCommit(k)
    PROVE  Held(w)' = Held(w)
<1>1. PICK p \in Payout : p = Current(k) /\ Status(p) \in {"pending", "paid"}
  BY Facts DEF ReverseCommit, At, Work, LeaseInv, Leased
<1>2. /\ dBalance[k] = Only(payouts[p].wallet, payouts[p].amount) /\ CommitTxn(k)
      /\ payouts' = [payouts EXCEPT ![p].status = "failed", ![p].attempts = Attempts(k)]
  BY <1>1 DEF ReverseCommit, Posted
<1>3. payouts \in [Payout -> PayoutRow]
  BY Types DEF MoneyInv
<1>4. Status(p)' = "failed" /\ \A q \in Payout \ {p} : payouts'[q] = payouts[q]
  BY <1>2, <1>3 DEF Status, PayoutRow
<1>5. Share(p, w)' = 0 /\ \A q \in Payout \ {p} : Share(q, w)' = Share(q, w)
  BY <1>4 DEF Share, Status
<1>6. Share(p, w) = IF payouts[p].wallet = w THEN payouts[p].amount ELSE 0
  BY <1>1 DEF Share
<1>7. dBalance[k][w] = Share(p, w) /\ Share(p, w) \in Int
  BY <1>2, <1>6, ShareIsInt DEF Only
<1>8. balance'[w] = balance[w] + dBalance[k][w] /\ balance[w] \in Int
  BY <1>2, StoreAssumption DEF CommitTxn, MoneyInv, StoreInv, StoreTypeOK
<1>9. balance'[w] = balance[w] + Share(p, w) - Share(p, w)'
  BY <1>5, <1>7, <1>8
<1> QED
  BY <1>5, <1>9, Exchange

(* No step but the commits of a sweep and of a reversal moves money        *)
(* between a wallet and a payout.                                          *)
LEMMA RowsStay ==
    ASSUME NEW w \in Wallet, NEW d \in Int, balance[w] \in Int,
           \A p \in Payout : Share(p, w) \in Int,
           balance'[w] = balance[w] + d,
           \A p \in Payout : Share(p, w)' = Share(p, w), IsFiniteSet(Payout)
    PROVE  Held(w)' = Held(w) + d
<1> DEFINE h == [p \in Payout |-> Share(p, w)']
           f == [p \in Payout |-> Share(p, w)]
<1>1. h = f
  OBVIOUS
<1>2. Total(f, Payout) \in Int
  <2>1. \A p \in Payout : f[p] \in Int
    OBVIOUS
  <2> HIDE DEF f
  <2> QED
    BY <2>1, TotalWithout
<1>3. balance'[w] + Total(h, Payout) = balance[w] + Total(f, Payout) + d
  <2> HIDE DEF f, h
  <2> QED
    BY <1>1, <1>2
<1> QED
  BY <1>3 DEF Held

(* A payment brings in what it says; nothing else comes or goes.           *)
LEMMA HeldNext ==
    ASSUME IsFiniteSet(Payout), MoneyInv, MoneyInv', LeaseInv, NEW w \in Wallet,
           \A k \in Settler : Posted(k), [Next]_vars
    PROVE  \E d \in Int : Held(w)' = Held(w) + d /\ charged'[w] = charged[w] + d
<1>1. /\ balance[w] \in Int /\ charged[w] \in Int /\ Held(w) \in Int
      /\ balance \in [Wallet -> 0..MaxBalance] /\ charged \in [Wallet -> 0..MaxCharged]
  BY HeldIsInt, Types, StoreAssumption, PayoutsAssumption
     DEF MoneyInv, StoreInv, StoreTypeOK, RestTypeOK
<1>2. CASE \E k \in Settler : SweepCommit(k) \/ ReverseCommit(k)
  <2>1. Held(w)' = Held(w) /\ charged' = charged
    BY <1>2, SweepExchanges, ReversalExchanges DEF SweepCommit, ReverseCommit
  <2> QED
    BY <1>1, <2>1
<1>3. CASE ~ \E k \in Settler : SweepCommit(k) \/ ReverseCommit(k)
  <2>1. \A p \in Payout : Share(p, w)' = Share(p, w)
    BY <1>3, MoneyOfRows DEF Share, SameMoney
  <2>2. ASSUME NEW k \in Settler, SettlerStep(k) \/ Disturbance(k)
        PROVE  UNCHANGED <<balance, charged>>
    BY <1>3, <2>2 DEF SettlerStep, Sweep, Process, Disturbance, SweepList, SweepDone,
       SweepDebit, SweepSkip, ClaimDue, ClaimRows, Take, TickDone, SendToBank, MarkPaid,
       MarkRetry, MarkRetryOf, Reverse, ReverseRejected, LockAndPost, RollbackTxn, Abort,
       CrashAfterBank, MarkPaidFails, committedVars, storeVars
  <2>3. ASSUME NEW x \in Wallet, NEW amount \in 1..MaxCharged, Charge(x, amount)
        PROVE  \E d \in Int : balance'[w] = balance[w] + d /\ charged'[w] = charged[w] + d
    <3>1. /\ balance' = [balance EXCEPT ![x] = @ + amount]
          /\ charged' = [charged EXCEPT ![x] = @ + amount] /\ amount \in Int
      BY <2>3, PayoutsAssumption DEF Charge
    <3>2. CASE x = w
      BY <1>1, <3>1, <3>2
    <3>3. CASE x # w
      <4>1. balance'[w] = balance[w] + 0 /\ charged'[w] = charged[w] + 0
        BY <1>1, <3>1, <3>3
      <4> QED
        BY <4>1
    <3> QED
      BY <3>2, <3>3
  <2>4. CASE UNCHANGED <<balance, charged>>
    <3>1. balance'[w] = balance[w] + 0 /\ charged'[w] = charged[w] + 0
      BY <1>1, <2>4
    <3> QED
      BY <1>1, <2>1, <3>1, ShareIsInt, RowsStay
  <2>5. CASE \E x \in Wallet, amount \in 1..MaxCharged : Charge(x, amount)
    BY <1>1, <2>1, <2>3, <2>5, ShareIsInt, RowsStay
  <2> QED
    BY <2>2, <2>4, <2>5 DEF Next, vars, payoutVars, storeVars, RegisterAccount, BecomesDue
<1> QED
  BY <1>2, <1>3

(* As long as no settler outlives a lease, money is in the wallet or in    *)
(* one payout of it: swept once and credited back at most once, however    *)
(* settlers overlap, abort and crash.                                      *)
THEOREM MoneyIsAlwaysConserved ==
    ASSUME "slowSettler" \notin Faults, IsFiniteSet(Payout)
    PROVE  Spec => []MoneyIsConserved
<1> DEFINE C == (\A k \in Settler : Posted(k)) /\ \A w \in Wallet : Conserved(w)
           I == MoneyInv /\ LeaseInv
<1>1. Init => C
  <2>1. ASSUME Init, NEW w \in Wallet PROVE Conserved(w)
    BY <2>1, InitHeld, StoreAssumption DEF Conserved
  <2> QED
    BY <2>1 DEF Init, Posted, Resting, At
<1>2. I /\ I' /\ C /\ [Next]_vars => C'
  <2> SUFFICES ASSUME I, I', C, [Next]_vars PROVE C'
    OBVIOUS
  <2>1. ASSUME NEW k \in Settler PROVE Posted(k)'
    BY PostedNext
  <2>2. ASSUME NEW w \in Wallet PROVE Conserved(w)'
    <3>1. PICK d \in Int : Held(w)' = Held(w) + d /\ charged'[w] = charged[w] + d
      BY HeldNext
    <3>2. Held(w) = Funds[w] + charged[w] /\ Funds[w] \in Int /\ charged[w] \in Int
      BY Types, StoreAssumption, PayoutsAssumption DEF MoneyInv, RestTypeOK, Conserved
    <3> QED
      BY <3>1, <3>2 DEF Conserved
  <2> QED
    BY <2>1, <2>2
<1>3. I /\ C => MoneyIsConserved
  BY InPayoutsIs DEF Conserved, Held, MoneyIsConserved
<1>4. Spec => []I
  BY LeaseInductive
<1> QED
  <2> HIDE DEF C, I
  <2> QED
    BY <1>1, <1>2, <1>3, <1>4, PTL DEF Spec

----------------------------------------------------------------------------
(* Settlement in company: a settler relies on nobody else touching its     *)
(* pending writes, its payouts and its leases, whatever they write to the  *)
(* wallets.                                                                *)
LEMMA OthersMayWrite ==
    ASSUME MoneyInv, StoreInv', BooksBalance',
           UNCHANGED <<account, payouts, bank, unrecorded, told, charged, settler, faults>>,
           \A k \in Settler : dBalance'[k] = dBalance[k] /\ dNet'[k] = dNet[k]
    PROVE  /\ MoneyInv'
           /\ LeaseInv => LeaseInv'
           /\ \A k \in Settler : Posted(k) => Posted(k)'
           /\ \A p \in Payout, w \in Wallet : Share(p, w)' = Share(p, w)
<1>1. RestTypeOK'
  BY Types DEF MoneyInv, RestTypeOK
<1>2. MoneyInv'
  BY <1>1, SameRows, OutsideStep
<1>3. LeaseInv => LeaseInv'
  BY OutsideLease
<1>4. \A k \in Settler : Posted(k) => Posted(k)'
  BY DEF Posted, At, Current, Only
<1> QED
  BY <1>2, <1>3, <1>4 DEF Share, Status
=============================================================================
