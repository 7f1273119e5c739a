--------------------------- MODULE AccountsProofs ---------------------------
(***************************************************************************)
(* What Accounts promises, for any requests, addresses, passwords and      *)
(* faults.  A request changes only what is its own until it inserts a row  *)
(* or signs a token, and by then it is done; the rest of the invariant     *)
(* says what its hash and its caller are while it is on its way.           *)
(***************************************************************************)
EXTENDS Accounts, TLAPS

Hash == [salt: Request, of: Password]

Labels == InStatement \cup {"idle", "hash", "verify", "done"}

Replies == {"none", "noAnswer", "200", "201", "400", "401", "409", "500"}

Typed ==
    /\ pc \in [Request -> Labels]
    /\ ask \in [Request -> Ask \cup {[kind |-> "none"]}]
    /\ caller \in [Request -> Request \cup {"none"}]
    /\ hash \in [Request -> Hash \cup {NoHash}]
    /\ reply \in [Request -> Replies]

(* A merchant's row is of the registration that made it, and the only one  *)
(* of its address.                                                         *)
RowOf(m) ==
    /\ m.id \in Request
    /\ pc[m.id] = "done"
    /\ ask[m.id].kind = "register"
    /\ m.email = NormalizedEmail(m.id)
    /\ m.hash = [salt |-> m.id, of |-> ask[m.id].password]

MerchantRows ==
    /\ \A m \in merchants : RowOf(m)
    /\ \A m, n \in merchants : m.email = n.email => m = n

WalletOf(w) ==
    /\ w.id \in Request
    /\ pc[w.id] = "done"
    /\ ask[w.id].kind = "create"
    /\ w.owner = caller[w.id]
    /\ w.currency = ask[w.id].currency
    /\ \E t \in tokens : t.sub = w.owner

WalletRows ==
    /\ \A w \in wallets : WalletOf(w)
    /\ \A v, w \in wallets : v.owner = w.owner /\ v.currency = w.currency => v = w

TokenOf(t) ==
    /\ t.by \in Request /\ t.sub \in Request
    /\ pc[t.by] = "done" /\ pc[t.sub] = "done"
    /\ NormalizedEmail(t.by) = NormalizedEmail(t.sub)
    /\ ask[t.by].password = ask[t.sub].password

Tokens == \A t \in tokens : TokenOf(t)

(* What request r knows where it is. *)
OnItsWay(r) ==
    /\ pc[r] # "done" => reply[r] = "none"
    /\ pc[r] = "idle" => ask[r].kind = "none"
    /\ pc[r] \in {"hash", "insert"} => ask[r].kind = "register"
    /\ pc[r] = "insert" => hash[r] = [salt |-> r, of |-> ask[r].password]
    /\ pc[r] \in {"find", "verify"} => ask[r].kind = "login"
    /\ pc[r] = "me" => ask[r].kind = "me"
    /\ pc[r] = "verify" =>
          \E m \in merchants :
              m.id = caller[r] /\ m.email = NormalizedEmail(r) /\ m.hash = hash[r]
    /\ pc[r] = "create" => /\ ask[r].kind = "create"
                           /\ \E t \in tokens : t.sub = caller[r]

Answered(r) ==
    /\ reply[r] = "201" => Inserted(r)
    /\ reply[r] = "409" =>
          /\ ~Inserted(r)
          /\ \E s \in Request \ {r} : SameAccount(r, s) /\ Inserted(s)

IInv ==
    /\ Typed
    /\ MerchantRows
    /\ WalletRows
    /\ Tokens
    /\ \A r \in Request : OnItsWay(r) /\ Answered(r)

----------------------------------------------------------------------------
(* What a step of request r leaves alone.                                  *)
OthersKept(r) ==
    \A s \in Request \ {r} :
        /\ pc'[s] = pc[s] /\ ask'[s] = ask[s] /\ caller'[s] = caller[s]
        /\ hash'[s] = hash[s] /\ reply'[s] = reply[s]

TablesGrow(r) ==
    /\ merchants \subseteq merchants' /\ wallets \subseteq wallets'
    /\ tokens \subseteq tokens'
    /\ \A row \in (merchants' \cup wallets') \ (merchants \cup wallets) : row.id = r

(* Of a step of r, the others notice nothing. *)
LEMMA Frame ==
    ASSUME IInv, NEW r \in Request, pc[r] # "done", OthersKept(r), TablesGrow(r)
    PROVE  /\ \A m \in merchants : RowOf(m)'
           /\ \A w \in wallets : WalletOf(w)'
           /\ \A t \in tokens : TokenOf(t)'
           /\ \A s \in Request \ {r} : OnItsWay(s)' /\ Answered(s)'
           /\ ~Inserted(r)
  <1>1. ASSUME NEW m \in merchants PROVE RowOf(m)' /\ m.id # r
    <2>1. RowOf(m)
      BY DEF IInv, MerchantRows
    <2>2. m.id \in Request \ {r}
      BY <2>1 DEF RowOf
    <2> QED
      BY <2>1, <2>2 DEF RowOf, OthersKept, NormalizedEmail
  <1>2. ASSUME NEW w \in wallets PROVE WalletOf(w)' /\ w.id # r
    BY <1>2 DEF IInv, WalletRows, WalletOf, OthersKept, TablesGrow
  <1>3. ASSUME NEW t \in tokens PROVE TokenOf(t)'
    BY <1>3 DEF IInv, Tokens, TokenOf, OthersKept, NormalizedEmail
  <1>4. ~Inserted(r)
    BY <1>1, <1>2 DEF Inserted
  <1>5. ASSUME NEW s \in Request \ {r} PROVE OnItsWay(s)'
    BY <1>5 DEF IInv, OnItsWay, OthersKept, TablesGrow, NormalizedEmail
  <1>6. ASSUME NEW s \in Request \ {r} PROVE Inserted(s)' <=> Inserted(s)
    BY <1>6 DEF Inserted, TablesGrow
  <1>7. ASSUME NEW s \in Request \ {r} PROVE Answered(s)'
    <2>1. CASE reply[s] = "201"
      BY <1>6, <1>7, <2>1 DEF IInv, Answered, OthersKept
    <2>2. CASE reply[s] = "409"
      <3>1. PICK q \in Request \ {s} : SameAccount(s, q) /\ Inserted(q)
        BY <1>7, <2>2 DEF IInv, Answered
      <3>2. q # r
        BY <1>4, <3>1
      <3>3. SameAccount(s, q)' /\ Inserted(q)'
        BY <1>6, <1>7, <3>1, <3>2 DEF SameAccount, OthersKept
      <3>4. ~Inserted(s)'
        BY <1>6, <1>7, <2>2 DEF IInv, Answered
      <3> QED
        BY <1>7, <2>2, <3>1, <3>3, <3>4 DEF Answered, OthersKept
    <2>3. CASE reply[s] \notin {"201", "409"}
      BY <1>7, <2>3 DEF Answered, OthersKept
    <2> QED
      BY <2>1, <2>2, <2>3
  <1> QED
    BY <1>1, <1>2, <1>3, <1>4, <1>5, <1>7

(* A step that inserts and signs nothing only has to put r right. *)
LEMMA OwnStep ==
    ASSUME IInv, NEW r \in Request, pc[r] # "done", OthersKept(r), Typed',
           UNCHANGED <<merchants, wallets, tokens>>, OnItsWay(r)',
           reply'[r] = "201" => FALSE,
           reply'[r] = "409" =>
               \E s \in Request \ {r} : SameAccount(r, s)' /\ Inserted(s)
    PROVE  IInv'
  <1>1. TablesGrow(r)
    BY DEF TablesGrow
  <1>2. ~Inserted(r)' /\ \A s \in Request : Inserted(s)' <=> Inserted(s)
    BY <1>1, Frame DEF Inserted
  <1>3. Answered(r)'
    BY <1>2 DEF Answered
  <1>4. MerchantRows' /\ WalletRows' /\ Tokens'
    BY <1>1, Frame DEF IInv, MerchantRows, WalletRows, Tokens
  <1> QED
    BY <1>1, <1>3, <1>4, Frame DEF IInv

----------------------------------------------------------------------------
USE AccountsAssumption

LEMMA AskType ==
    \A a \in Ask : /\ a.kind \in {"register", "login", "me", "list", "create"}
                   /\ a.kind \in {"register", "login"} => a.password \in Password
  BY DEF AccountsAssumption

LEMMA InitCorrect == Init => IInv
  <1> SUFFICES ASSUME Init PROVE IInv
    OBVIOUS
  <1>1. Typed
    BY DEF Init, Typed, Labels, InStatement, Replies
  <1>2. \A r \in Request : OnItsWay(r) /\ Answered(r)
    BY DEF Init, OnItsWay, Answered
  <1> QED
    BY <1>1, <1>2 DEF Init, IInv, MerchantRows, WalletRows, Tokens

(* Requests that come in: with credentials, with a token, or with neither. *)
LEMMA ReceiveStep ==
    ASSUME IInv, NEW r \in Request, Receive(r)
    PROVE  IInv'
  <1>0. pc[r] = "idle" /\ reply[r] = "none" /\ Typed
    BY DEF IInv, OnItsWay, Receive, Arrive, Authenticate, Unauthenticated, Invalid
  <1>1. CASE Arrive(r)
    <2>1. PICK a \in Ask : /\ a.kind \in {"register", "login"}
                           /\ ask' = [ask EXCEPT ![r] = a]
                           /\ pc' = [pc EXCEPT ![r] = Authenticating[a.kind]]
      BY <1>1 DEF Arrive, Goto, Authenticating
    <2>2. UNCHANGED <<merchants, wallets, tokens, caller, hash, reply>>
      BY <1>1 DEF Arrive, tableVars, tokenVars
    <2>3. Typed' /\ OthersKept(r)
      BY <1>0, <2>1, <2>2 DEF Typed, OthersKept, Authenticating, Labels, InStatement
    <2>4. OnItsWay(r)' /\ reply'[r] = "none"
      BY <1>0, <2>1, <2>2 DEF Typed, OnItsWay, Authenticating
    <2> QED
      BY <1>0, <2>2, <2>3, <2>4, OwnStep
  <1>2. CASE Authenticate(r)
    <2>1. PICK a \in Ask, t \in tokens :
              /\ a.kind \in {"me", "create", "list"}
              /\ ask' = [ask EXCEPT ![r] = a]
              /\ caller' = [caller EXCEPT ![r] = t.sub]
              /\ pc' = [pc EXCEPT ![r] = Protected[a.kind]]
      BY <1>2 DEF Authenticate, Goto, Protected
    <2>2. UNCHANGED <<merchants, wallets, tokens, hash, reply>>
      BY <1>2 DEF Authenticate, tableVars, tokenVars
    <2>3. t.sub \in Request
      BY DEF IInv, Tokens, TokenOf
    <2>4. Typed' /\ OthersKept(r)
      BY <1>0, <2>1, <2>2, <2>3 DEF Typed, OthersKept, Protected, Labels, InStatement
    <2>5. OnItsWay(r)' /\ reply'[r] = "none"
      BY <1>0, <2>1, <2>2 DEF Typed, OnItsWay, Protected
    <2> QED
      BY <1>0, <2>2, <2>4, <2>5, OwnStep
  <1>3. CASE Unauthenticated(r) \/ Invalid(r)
    <2>1. /\ pc' = [pc EXCEPT ![r] = "done"]
          /\ \E code \in {"400", "401"} : reply' = [reply EXCEPT ![r] = code]
          /\ ask' = ask \/ \E a \in Ask : ask' = [ask EXCEPT ![r] = a]
      BY <1>3 DEF Unauthenticated, Invalid, Answer, Goto, StatusOf, TokenStatusOf
    <2>2. UNCHANGED <<merchants, wallets, tokens, caller, hash>>
      BY <1>3 DEF Unauthenticated, Invalid, tableVars, tokenVars
    <2>3. Typed' /\ OthersKept(r)
      BY <1>0, <2>1, <2>2 DEF Typed, OthersKept, Labels, Replies
    <2>4. OnItsWay(r)' /\ reply'[r] \in {"400", "401"}
      BY <1>0, <2>1, <2>2 DEF Typed, OnItsWay
    <2> QED
      BY <1>0, <2>2, <2>3, <2>4, OwnStep
  <1> QED
    BY <1>1, <1>2, <1>3 DEF Receive

(* Steps and faults that answer r with a status that claims nothing, or do  *)
(* not answer it, and write to no table.                                   *)
LEMMA SilentAnswer ==
    ASSUME IInv, NEW r \in Request, pc[r] # "done", NEW code \in Replies \ {"201", "409"}, Answer(r, code),
           ask' = ask, caller' \in [Request -> Request \cup {"none"}],
           hash' \in [Request -> Hash \cup {NoHash}],
           \A s \in Request \ {r} : caller'[s] = caller[s] /\ hash'[s] = hash[s],
           UNCHANGED <<merchants, wallets, tokens>>
    PROVE  IInv'
  <1>1. Typed
    BY DEF IInv
  <1>2. Typed' /\ OthersKept(r)
    BY <1>1 DEF Typed, OthersKept, Answer, Goto, Labels
  <1>3. OnItsWay(r)' /\ reply'[r] = code
    BY <1>1 DEF Typed, OnItsWay, Answer, Goto
  <1> QED
    BY <1>2, <1>3, OwnStep

LEMMA HashPasswordStep ==
    ASSUME IInv, NEW r \in Request, HashPassword(r)
    PROVE  IInv'
  <1>1. /\ pc[r] = "hash" /\ pc' = [pc EXCEPT ![r] = "insert"]
        /\ hash' = [hash EXCEPT ![r] = [salt |-> r, of |-> ask[r].password]]
        /\ UNCHANGED <<merchants, wallets, tokens, ask, caller, reply>>
    BY DEF HashPassword, Goto, tableVars, tokenVars
  <1>2. Typed /\ ask[r].kind = "register" /\ reply[r] = "none"
    BY <1>1 DEF IInv, OnItsWay
  <1>3. ask[r].password \in Password
    BY <1>2, AskType DEF Typed
  <1>4. Typed' /\ OthersKept(r)
    BY <1>1, <1>2, <1>3 DEF Typed, OthersKept, Labels, InStatement, Hash
  <1>5. OnItsWay(r)' /\ reply'[r] = "none"
    BY <1>1, <1>2 DEF Typed, OnItsWay
  <1> QED
    BY <1>1, <1>4, <1>5, OwnStep

(* The two INSERTs, whatever their clients are told but 409. *)
LEMMA MerchantInserted ==
    ASSUME IInv, NEW r \in Request, pc[r] = "insert", ~EmailTaken(r),
           merchants' = merchants \cup {NewMerchant(r)},
           UNCHANGED <<wallets, tokens, ask, caller, hash>>,
           NEW code \in Replies \ {"409"}, Answer(r, code)
    PROVE  IInv'
  <1> DEFINE m == NewMerchant(r)
  <1>1. Typed /\ ask[r].kind = "register" /\ hash[r] = [salt |-> r, of |-> ask[r].password]
    BY DEF IInv, OnItsWay
  <1>2. Typed' /\ OthersKept(r)
    BY <1>1 DEF Typed, OthersKept, Answer, Goto, Labels
  <1>3. pc'[r] = "done" /\ reply'[r] = code
    BY <1>1 DEF Typed, Answer, Goto
  <1>4. m.id = r /\ m.email = NormalizedEmail(r) /\ m.hash = hash[r]
    BY DEF NewMerchant
  <1>5. TablesGrow(r)
    BY <1>4 DEF TablesGrow
  <1>6. ASSUME NEW n \in {m} PROVE RowOf(n)'
    BY <1>1, <1>3, <1>4, <1>6 DEF RowOf, NormalizedEmail
  <1>7. \A n \in merchants : n.email # m.email
    BY <1>4 DEF EmailTaken
  <1>8. MerchantRows'
    <2>1. ASSUME NEW n \in merchants' PROVE RowOf(n)'
      <3>1. CASE n \in merchants
        BY <1>2, <1>5, <3>1, Frame
      <3>2. CASE n \in {m}
        BY <1>6, <3>2
      <3> QED
        BY <3>1, <3>2
    <2>2. \A n, p \in merchants' : n.email = p.email => n = p
      BY <1>7 DEF IInv, MerchantRows
    <2> QED
      BY <2>1, <2>2 DEF MerchantRows
  <1>9. WalletRows' /\ Tokens'
    BY <1>2, <1>5, Frame DEF IInv, WalletRows, Tokens
  <1>10. OnItsWay(r)' /\ Answered(r)'
    BY <1>3, <1>4 DEF OnItsWay, Answered, Inserted
  <1> QED
    BY <1>2, <1>5, <1>8, <1>9, <1>10, Frame DEF IInv

LEMMA WalletInserted ==
    ASSUME IInv, NEW r \in Request, pc[r] = "create", ~HasWallet(r),
           wallets' = wallets \cup {NewWallet(r)},
           UNCHANGED <<merchants, tokens, ask, caller, hash>>,
           NEW code \in Replies \ {"409"}, Answer(r, code)
    PROVE  IInv'
  <1> DEFINE w == NewWallet(r)
  <1>1. Typed /\ ask[r].kind = "create" /\ \E t \in tokens : t.sub = caller[r]
    BY DEF IInv, OnItsWay
  <1>2. Typed' /\ OthersKept(r)
    BY <1>1 DEF Typed, OthersKept, Answer, Goto, Labels
  <1>3. pc'[r] = "done" /\ reply'[r] = code
    BY <1>1 DEF Typed, Answer, Goto
  <1>4. w.id = r /\ w.owner = caller[r] /\ w.currency = ask[r].currency
    BY DEF NewWallet
  <1>5. TablesGrow(r)
    BY <1>4 DEF TablesGrow
  <1>6. ASSUME NEW v \in {w} PROVE WalletOf(v)'
    BY <1>1, <1>3, <1>4, <1>6 DEF WalletOf
  <1>7. \A v \in wallets : ~(v.owner = w.owner /\ v.currency = w.currency)
    BY <1>4 DEF HasWallet
  <1>8. WalletRows'
    <2>1. ASSUME NEW v \in wallets' PROVE WalletOf(v)'
      <3>1. CASE v \in wallets
        BY <1>2, <1>5, <3>1, Frame
      <3>2. CASE v \in {w}
        BY <1>6, <3>2
      <3> QED
        BY <3>1, <3>2
    <2>2. \A u, v \in wallets' : u.owner = v.owner /\ u.currency = v.currency => u = v
      BY <1>7 DEF IInv, WalletRows
    <2> QED
      BY <2>1, <2>2 DEF WalletRows
  <1>9. MerchantRows' /\ Tokens'
    BY <1>2, <1>5, Frame DEF IInv, MerchantRows, Tokens
  <1>10. OnItsWay(r)' /\ Answered(r)'
    BY <1>3, <1>4 DEF OnItsWay, Answered, Inserted
  <1> QED
    BY <1>2, <1>5, <1>8, <1>9, <1>10, Frame DEF IInv

LEMMA InsertMerchantStep ==
    ASSUME IInv, NEW r \in Request, InsertMerchant(r)
    PROVE  IInv'
  <1>1. /\ pc[r] = "insert"
        /\ UNCHANGED <<wallets, tokens, ask, caller, hash>>
    BY DEF InsertMerchant, tokenVars
  <1>2. CASE ~EmailTaken(r)
    <2>1. merchants' = merchants \cup {NewMerchant(r)} /\ Answer(r, "201")
      BY <1>2 DEF InsertMerchant
    <2> QED
      BY <1>1, <1>2, <2>1, MerchantInserted DEF Replies
  <1>3. CASE EmailTaken(r)
    <2>1. merchants' = merchants /\ Answer(r, "409")
      BY <1>3 DEF InsertMerchant, StatusOf
    <2>2. Typed /\ ask[r].kind = "register"
      BY <1>1 DEF IInv, OnItsWay
    <2>3. Typed' /\ OthersKept(r)
      BY <1>1, <2>1, <2>2 DEF Typed, OthersKept, Answer, Goto, Labels, Replies
    <2>4. OnItsWay(r)' /\ reply'[r] = "409"
      BY <1>1, <2>1, <2>2 DEF Typed, OnItsWay, Answer, Goto
    <2>5. PICK m \in merchants : m.email = NormalizedEmail(r)
      BY <1>3 DEF EmailTaken
    <2>6. RowOf(m)
      BY DEF IInv, MerchantRows
    <2>7. m.id \in Request \ {r} /\ Inserted(m.id)
      BY <1>1, <2>6 DEF RowOf, Inserted
    <2>8. SameAccount(r, m.id)'
      BY <1>1, <2>2, <2>5, <2>6 DEF RowOf, SameAccount, NormalizedEmail
    <2> QED
      BY <1>1, <2>1, <2>3, <2>4, <2>7, <2>8, OwnStep
  <1> QED
    BY <1>2, <1>3

LEMMA CreateWalletStep ==
    ASSUME IInv, NEW r \in Request, CreateWallet(r)
    PROVE  IInv'
  <1>1. /\ pc[r] = "create"
        /\ UNCHANGED <<merchants, tokens, ask, caller, hash>>
    BY DEF CreateWallet, tokenVars
  <1>2. CASE ~HasWallet(r)
    <2>1. wallets' = wallets \cup {NewWallet(r)} /\ Answer(r, "201")
      BY <1>2 DEF CreateWallet
    <2> QED
      BY <1>1, <1>2, <2>1, WalletInserted DEF Replies
  <1>3. CASE HasWallet(r)
    <2>1. wallets' = wallets /\ Answer(r, "409")
      BY <1>3 DEF CreateWallet, StatusOf
    <2>2. Typed /\ ask[r].kind = "create"
      BY <1>1 DEF IInv, OnItsWay
    <2>3. Typed' /\ OthersKept(r)
      BY <1>1, <2>1, <2>2 DEF Typed, OthersKept, Answer, Goto, Labels, Replies
    <2>4. OnItsWay(r)' /\ reply'[r] = "409"
      BY <1>1, <2>1, <2>2 DEF Typed, OnItsWay, Answer, Goto
    <2>5. PICK w \in wallets : w.owner = caller[r] /\ w.currency = ask[r].currency
      BY <1>3 DEF HasWallet
    <2>6. WalletOf(w)
      BY DEF IInv, WalletRows
    <2>7. w.id \in Request \ {r} /\ Inserted(w.id)
      BY <1>1, <2>6 DEF WalletOf, Inserted
    <2>8. SameAccount(r, w.id)'
      BY <1>1, <2>2, <2>5, <2>6 DEF WalletOf, SameAccount
    <2> QED
      BY <1>1, <2>1, <2>3, <2>4, <2>7, <2>8, OwnStep
  <1> QED
    BY <1>2, <1>3

LEMMA FindByEmailStep ==
    ASSUME IInv, NEW r \in Request, FindByEmail(r)
    PROVE  IInv'
  <1>1. /\ pc[r] = "find" /\ UNCHANGED <<merchants, wallets, tokens, ask>>
    BY DEF FindByEmail, tableVars, tokenVars
  <1>2. Typed /\ ask[r].kind = "login" /\ reply[r] = "none"
    BY <1>1 DEF IInv, OnItsWay
  <1>3. CASE EmailTaken(r)
    <2>1. PICK m \in merchants : /\ m.email = NormalizedEmail(r)
                                 /\ caller' = [caller EXCEPT ![r] = m.id]
                                 /\ hash' = [hash EXCEPT ![r] = m.hash]
      BY <1>3 DEF FindByEmail
    <2>2. reply' = reply /\ pc' = [pc EXCEPT ![r] = "verify"]
      BY <1>3 DEF FindByEmail, Goto
    <2>3. RowOf(m)
      BY DEF IInv, MerchantRows
    <2>4. ask[m.id].password \in Password
      BY <1>2, <2>3, AskType DEF Typed, RowOf
    <2>5. m.id \in Request /\ m.hash \in Hash
      BY <2>3, <2>4 DEF RowOf, Hash
    <2>6. Typed' /\ OthersKept(r)
      BY <1>1, <1>2, <2>1, <2>2, <2>5 DEF Typed, OthersKept, Labels
    <2>7. OnItsWay(r)' /\ reply'[r] = "none"
      BY <1>1, <1>2, <2>1, <2>2 DEF Typed, OnItsWay, NormalizedEmail
    <2> QED
      BY <1>1, <2>6, <2>7, OwnStep
  <1>4. CASE ~EmailTaken(r)
    <2>1. Answer(r, "401") /\ UNCHANGED <<caller, hash>>
      BY <1>4 DEF FindByEmail, StatusOf
    <2> QED
      BY <1>1, <1>2, <2>1, SilentAnswer DEF Typed, Replies
  <1> QED
    BY <1>3, <1>4

(* A token is signed for the merchant whose hash the password verifies:    *)
(* hers was the same password.                                             *)
LEMMA VerifyPasswordStep ==
    ASSUME IInv, NEW r \in Request, VerifyPassword(r)
    PROVE  IInv'
  <1>1. pc[r] = "verify" /\ UNCHANGED <<merchants, wallets, ask, caller, hash>>
    BY DEF VerifyPassword, tableVars
  <1>2. Typed /\ ask[r].kind = "login" /\ reply[r] = "none"
    BY <1>1 DEF IInv, OnItsWay
  <1>3. CASE ~Verifies(ask[r].password, hash[r])
    <2>1. Answer(r, "401") /\ UNCHANGED tokens
      BY <1>3 DEF VerifyPassword, StatusOf
    <2> QED
      BY <1>1, <1>2, <2>1, SilentAnswer DEF Typed, Replies
  <1>4. CASE Verifies(ask[r].password, hash[r])
    <2> DEFINE t == [sub |-> caller[r], by |-> r]
    <2>1. Answer(r, "200") /\ tokens' = tokens \cup {t}
      BY <1>4 DEF VerifyPassword
    <2>2. Typed' /\ OthersKept(r)
      BY <1>1, <1>2, <2>1 DEF Typed, OthersKept, Answer, Goto, Labels, Replies
    <2>3. TablesGrow(r)
      BY <1>1, <2>1 DEF TablesGrow
    <2>4. pc'[r] = "done" /\ reply'[r] = "200"
      BY <1>2, <2>1 DEF Typed, Answer, Goto
    <2>5. PICK m \in merchants :
              m.id = caller[r] /\ m.email = NormalizedEmail(r) /\ m.hash = hash[r]
      BY <1>1 DEF IInv, OnItsWay
    <2>6. RowOf(m) /\ RowOf(m)'
      BY <1>1, <2>2, <2>3, Frame DEF IInv, MerchantRows
    <2>7. ask[r].password = ask[caller[r]].password
      BY <1>4, <2>5, <2>6 DEF RowOf, Verifies
    <2>8. ASSUME NEW u \in {t} PROVE TokenOf(u)'
      <3>1. u.by = r /\ u.sub = m.id
        BY <2>5, <2>8
      <3> QED
        BY <1>1, <2>4, <2>5, <2>6, <2>7, <3>1 DEF TokenOf, RowOf, NormalizedEmail
    <2>9. ASSUME NEW u \in tokens' PROVE TokenOf(u)'
      <3>1. CASE u \in tokens
        BY <1>1, <2>2, <2>3, <3>1, Frame
      <3>2. CASE u \in {t}
        BY <2>8, <3>2
      <3> QED
        BY <2>1, <3>1, <3>2
    <2>10. MerchantRows' /\ WalletRows' /\ Tokens'
      BY <1>1, <2>2, <2>3, <2>9, Frame DEF IInv, MerchantRows, WalletRows, Tokens
    <2>11. OnItsWay(r)' /\ Answered(r)'
      BY <2>4 DEF OnItsWay, Answered
    <2> QED
      BY <1>1, <2>2, <2>3, <2>10, <2>11, Frame DEF IInv
  <1> QED
    BY <1>3, <1>4

LEMMA FaultStep ==
    ASSUME IInv, NEW r \in Request, Fails(r) \/ AnswerLost(r)
    PROVE  IInv'
  <1>1. Typed
    BY DEF IInv
  <1>2. CASE Fails(r)
    <2>1. /\ \E code \in {"500", "noAnswer"} : Answer(r, code)
          /\ pc[r] # "done" /\ UNCHANGED <<merchants, wallets, tokens, ask, caller, hash>>
      BY <1>2 DEF Fails, InStatement, tableVars, tokenVars
    <2> QED
      BY <1>1, <2>1, SilentAnswer DEF Typed, Replies
  <1>3. CASE AnswerLost(r)
    <2>1. \E code \in {"500", "noAnswer"} : Answer(r, code)
      BY <1>3 DEF AnswerLost
    <2>2. UNCHANGED <<tokens, ask, caller, hash>>
      BY <1>3 DEF AnswerLost, tokenVars
    <2>3. CASE /\ pc[r] = "insert" /\ ~EmailTaken(r)
               /\ merchants' = merchants \cup {NewMerchant(r)} /\ UNCHANGED wallets
      BY <2>1, <2>2, <2>3, MerchantInserted DEF Replies
    <2>4. CASE /\ pc[r] = "create" /\ ~HasWallet(r)
               /\ wallets' = wallets \cup {NewWallet(r)} /\ UNCHANGED merchants
      BY <2>1, <2>2, <2>4, WalletInserted DEF Replies
    <2> QED
      BY <1>3, <2>3, <2>4 DEF AnswerLost
  <1> QED
    BY <1>2, <1>3

LEMMA ReadStep ==
    ASSUME IInv, NEW r \in Request, GetById(r) \/ ListByMerchant(r)
    PROVE  IInv'
  <1>1. /\ pc[r] # "done" /\ \E code \in {"200", "401"} : Answer(r, code)
        /\ UNCHANGED <<merchants, wallets, tokens, ask, caller, hash>>
    BY DEF GetById, ListByMerchant, StatusOf, tableVars, tokenVars
  <1>2. Typed
    BY DEF IInv
  <1> QED
    BY <1>1, <1>2, SilentAnswer DEF Typed, Replies

LEMMA NextCorrect == IInv /\ [Next]_vars => IInv'
  <1> SUFFICES ASSUME IInv, [Next]_vars PROVE IInv'
    OBVIOUS
  <1>1. ASSUME NEW r \in Request, Receive(r) PROVE IInv'
    BY <1>1, ReceiveStep
  <1>2. ASSUME NEW r \in Request, Step(r) PROVE IInv'
    BY <1>2, HashPasswordStep, InsertMerchantStep, FindByEmailStep, VerifyPasswordStep,
       CreateWalletStep, ReadStep DEF Step
  <1>3. ASSUME NEW r \in Request, Fails(r) \/ AnswerLost(r) PROVE IInv'
    BY <1>3, FaultStep
  <1>4. CASE (\E t \in tokens : Expire(t)) \/ Terminated \/ UNCHANGED vars
    <2>1. UNCHANGED <<merchants, wallets, tokens, pc, ask, caller, hash, reply>>
      BY <1>4 DEF Expire, Terminated, vars, tableVars, tokenVars
    <2> QED
      BY <2>1 DEF IInv, Typed, MerchantRows, RowOf, WalletRows, WalletOf, Tokens, TokenOf,
                  OnItsWay, Answered, Inserted, SameAccount, NormalizedEmail
  <1> QED
    BY <1>1, <1>2, <1>3, <1>4 DEF Next

LEMMA Invariance == Spec => []IInv
  BY InitCorrect, NextCorrect, PTL DEF Spec

----------------------------------------------------------------------------
(* Tokens and wallets go back to the password of the registration that     *)
(* made the account: auth.service.ts and the UNIQUE of migration 0001.     *)
THEOREM SessionsStayEarned == Spec => []SessionsAreEarned
  <1>1. IInv => SessionsAreEarned
    BY DEF IInv, Tokens, TokenOf, WalletRows, WalletOf, SessionsAreEarned
  <1> QED
    BY <1>1, Invariance, PTL

(* Two rows of one account would be one row.                               *)
LEMMA OneRow ==
    ASSUME IInv, NEW r \in Request, NEW s \in Request,
           SameAccount(r, s), Inserted(r), Inserted(s)
    PROVE  r = s
  <1>1. CASE ask[r].kind = "register"
    <2>1. PICK m \in merchants, n \in merchants : m.id = r /\ n.id = s
      BY <1>1 DEF SameAccount, Inserted, IInv, WalletRows, WalletOf
    <2>2. RowOf(m) /\ RowOf(n)
      BY DEF IInv, MerchantRows
    <2>3. m.email = n.email
      BY <1>1, <2>1, <2>2 DEF RowOf, SameAccount, NormalizedEmail
    <2> QED
      BY <2>1, <2>3 DEF IInv, MerchantRows
  <1>2. CASE ask[r].kind = "create"
    <2>1. PICK v \in wallets, w \in wallets : v.id = r /\ w.id = s
      BY <1>2 DEF SameAccount, Inserted, IInv, MerchantRows, RowOf
    <2>2. WalletOf(v) /\ WalletOf(w)
      BY DEF IInv, WalletRows
    <2>3. v.owner = w.owner /\ v.currency = w.currency
      BY <1>2, <2>1, <2>2 DEF WalletOf, SameAccount
    <2> QED
      BY <2>1, <2>3 DEF IInv, WalletRows
  <1> QED
    BY <1>1, <1>2 DEF SameAccount

(* 201 is told to the one whose row it is, 409 only after another's.       *)
THEOREM RepliesStayTrue == Spec => []RepliesAreTrue
  <1>1. IInv => RepliesAreTrue
    <2> SUFFICES ASSUME IInv, NEW r \in Request
                 PROVE  /\ reply[r] = "201" =>
                             /\ Inserted(r)
                             /\ \A s \in Request \ {r} : SameAccount(r, s) => ~Inserted(s)
                        /\ reply[r] = "409" =>
                             /\ ~Inserted(r)
                             /\ \E s \in Request \ {r} : SameAccount(r, s) /\ Inserted(s)
      BY DEF RepliesAreTrue
    <2>1. Answered(r)
      BY DEF IInv
    <2> QED
      BY <2>1, OneRow DEF Answered
  <1> QED
    BY <1>1, Invariance, PTL

(* Who refuses a login, and on what grounds. *)
LEMMA RefusedLogin ==
    ASSUME IInv, [Next]_vars, NEW r \in Request, ask[r].kind = "login",
           reply[r] = "none", reply'[r] = "401"
    PROVE  \/ pc[r] = "find" /\ ~EmailTaken(r)
           \/ pc[r] = "verify" /\ ~Verifies(ask[r].password, hash[r])
  <1>0. Typed /\ \A q \in Request : OnItsWay(q)
    BY DEF IInv
  <1>1. ASSUME NEW q \in Request, Receive(q) PROVE FALSE
    <2>1. pc[q] = "idle" /\ (reply' = reply \/ \E code \in Replies : Answer(q, code))
      BY <1>1 DEF Receive, Arrive, Authenticate, Unauthenticated, Invalid, StatusOf,
                  TokenStatusOf, Replies
    <2> QED
      BY <1>0, <2>1 DEF Typed, OnItsWay, Answer
  <1>2. ASSUME NEW q \in Request, Step(q)
        PROVE  \/ pc[r] = "find" /\ ~EmailTaken(r)
               \/ pc[r] = "verify" /\ ~Verifies(ask[r].password, hash[r])
    <2>1. CASE HashPassword(q) \/ ListByMerchant(q) \/ InsertMerchant(q) \/ CreateWallet(q)
      <3>1. reply' = reply \/ \E code \in {"200", "201", "409"} : Answer(q, code)
        BY <2>1 DEF HashPassword, ListByMerchant, InsertMerchant, CreateWallet, StatusOf
      <3> QED
        BY <1>0, <3>1 DEF Typed, Answer
    <2>2. CASE GetById(q)
      <3>1. pc[q] = "me" /\ \E code \in Replies : Answer(q, code)
        BY <2>2 DEF GetById, StatusOf, Replies
      <3> QED
        BY <1>0, <3>1 DEF Typed, OnItsWay, Answer
    <2>3. CASE FindByEmail(q)
      <3>1. /\ pc[q] = "find"
            /\ reply' = reply \/ (~EmailTaken(q) /\ Answer(q, "401"))
        BY <2>3 DEF FindByEmail, StatusOf
      <3> QED
        BY <1>0, <3>1 DEF Typed, Answer
    <2>4. CASE VerifyPassword(q)
      <3>1. /\ pc[q] = "verify"
            /\ \/ Answer(q, "200")
               \/ ~Verifies(ask[q].password, hash[q]) /\ Answer(q, "401")
        BY <2>4 DEF VerifyPassword, StatusOf
      <3> QED
        BY <1>0, <3>1 DEF Typed, Answer
    <2> QED
      BY <1>2, <2>1, <2>2, <2>3, <2>4 DEF Step
  <1>3. ASSUME NEW q \in Request, Fails(q) \/ AnswerLost(q) PROVE FALSE
    <2>1. \E code \in {"500", "noAnswer"} : Answer(q, code)
      BY <1>3 DEF Fails, AnswerLost
    <2> QED
      BY <1>0, <2>1 DEF Typed, Answer
  <1>4. CASE (\E t \in tokens : Expire(t)) \/ Terminated \/ UNCHANGED vars
    BY <1>4 DEF Expire, Terminated, vars
  <1> QED
    BY <1>1, <1>2, <1>3, <1>4 DEF Next

(* Whoever was told 201 is never refused, in whatever case she types her    *)
(* address.                                                                *)
THEOREM RegisteredAreLetIn == Spec => RegisteredCanLogIn
  <1>1. ASSUME IInv, [Next]_vars, NEW r \in Request, NEW s \in Request,
               ask[r].kind = "login", reply[r] = "none", reply'[r] = "401",
               ask[s].kind = "register", reply[s] = "201",
               Normal[ask[s].email] = Normal[ask[r].email]
        PROVE  ask[s].password # ask[r].password
    <2>1. PICK m \in merchants : m.id = s
      BY <1>1 DEF IInv, Answered, Inserted, WalletRows, WalletOf
    <2>2. RowOf(m)
      BY <1>1 DEF IInv, MerchantRows
    <2>3. m.email = NormalizedEmail(r)
      BY <1>1, <2>1, <2>2 DEF RowOf, NormalizedEmail
    <2>4. pc[r] = "verify" /\ ~Verifies(ask[r].password, hash[r])
      BY <1>1, <2>3, RefusedLogin DEF EmailTaken
    <2>5. PICK n \in merchants : n.email = NormalizedEmail(r) /\ n.hash = hash[r]
      BY <1>1, <2>4 DEF IInv, OnItsWay
    <2>6. n = m
      BY <1>1, <2>3, <2>5 DEF IInv, MerchantRows
    <2> QED
      BY <2>1, <2>2, <2>4, <2>5, <2>6 DEF RowOf, Verifies
  <1>2. IInv /\ [Next]_vars =>
           [\A r, s \in Request :
              /\ ask[r].kind = "login" /\ reply[r] = "none" /\ reply'[r] = "401"
              /\ ask[s].kind = "register" /\ reply[s] = "201"
              => \/ Normal[ask[s].email] # Normal[ask[r].email]
                 \/ ask[s].password # ask[r].password]_vars
    BY <1>1
  <1> QED
    BY <1>2, Invariance, PTL DEF Spec, RegisteredCanLogIn
=============================================================================
