------------------------------ MODULE Accounts ------------------------------
(***************************************************************************)
(* Merchants, their sessions and their wallets: the routers auth.routes.ts *)
(* and wallet.routes.ts down to merchant.repository.ts and the create and  *)
(* listByMerchant of wallet.repository.ts.  Each request runs one          *)
(* autocommitted statement; between the reading of its body, the hashing   *)
(* of a password (bcrypt, off the event loop) and that statement other     *)
(* requests run.                                                           *)
(***************************************************************************)
EXTENDS Naturals

CONSTANTS
    Request,
    Email,        \* as typed
    Normal,       \* toLowerCase()
    Password,
    Currency,     \* SUPPORTED_CURRENCIES
    Ask,          \* the requests: what is asked with which body
    MaxFaults,    \* bound: faults in a behaviour
    Faults        \* what the environment may do: see Fault

Fault == {"dbError",   \* a statement fails and is not executed
          "ackLost",   \* it is executed and its answer is lost
          "crash"}     \* the API process dies

ASSUME AccountsAssumption ==
    /\ Normal \in [Email -> Email]
    /\ \A e \in Email : Normal[Normal[e]] = Normal[e]
    /\ Ask \subseteq
          [kind: {"register", "login"}, email: Email, password: Password]
              \cup [kind: {"me", "list"}] \cup [kind: {"create"}, currency: Currency]
    /\ MaxFaults \in Nat
    /\ Faults \subseteq Fault

VARIABLES
    merchants,   \* the rows of merchants
    wallets,     \* the rows of wallets: whose, in which currency
    tokens,      \* the tokens that were signed: for whom, and on whose request
    expired,     \* those that are over an hour old
    pc,          \* what request r does next
    ask,         \* what it asks
    caller,      \* req.merchant.id
    hash,        \* the hash it made or was given to compare with
    reply,       \* the HTTP status it was answered with
    faults       \* faults so far

tableVars == <<merchants, wallets>>
tokenVars == <<tokens, expired>>
vars == <<tableVars, tokenVars, pc, ask, caller, hash, reply, faults>>

(* gen_random_uuid(): the id of a row is the request that inserted it. *)
Merchant == Request
NoHash == [salt |-> "none", of |-> "none"]

Init ==
    /\ merchants = {}
    /\ wallets = {}
    /\ tokens = {}
    /\ expired = {}
    /\ pc = [r \in Request |-> "idle"]
    /\ ask = [r \in Request |-> [kind |-> "none"]]
    /\ caller = [r \in Request |-> "none"]
    /\ hash = [r \in Request |-> NoHash]
    /\ reply = [r \in Request |-> "none"]
    /\ faults = 0

----------------------------------------------------------------------------
Goto(r, label) == pc' = [pc EXCEPT ![r] = label]

(* The statusCode of the domain errors. *)
StatusOf == [EmailAlreadyExists |-> "409", Validation |-> "400",
             InvalidCredentials |-> "401", Unauthorized |-> "401",
             WalletAlreadyExists |-> "409"]

TokenStatusOf == [InvalidToken |-> "401", ExpiredToken |-> "401"]

Answer(r, status) ==
    /\ Goto(r, "done")
    /\ reply' = [reply EXCEPT ![r] = status]

(* Which handler a request enters: with credentials, or with a token.      *)
Authenticating == [register |-> "hash", login |-> "find"]
Protected == [me |-> "me", create |-> "create", list |-> "list"]

Arrive(r) ==
    /\ pc[r] = "idle"
    /\ \E a \in Ask :
          /\ a.kind \in DOMAIN Authenticating
          /\ ask' = [ask EXCEPT ![r] = a]
          /\ Goto(r, Authenticating[a.kind])
    /\ UNCHANGED <<tableVars, tokenVars, caller, hash, reply, faults>>

(* authenticate: who is asking is what the token says; no row is looked at. *)
Authenticate(r) ==
    /\ pc[r] = "idle"
    /\ \E a \in Ask, t \in tokens \ expired :
          /\ a.kind \in DOMAIN Protected
          /\ ask' = [ask EXCEPT ![r] = a]
          /\ caller' = [caller EXCEPT ![r] = t.sub]
          /\ Goto(r, Protected[a.kind])
    /\ UNCHANGED <<tableVars, tokenVars, hash, reply, faults>>

(* No token, one that was not signed here, or one that is too old. *)
Unauthenticated(r) ==
    /\ pc[r] = "idle"
    /\ \E a \in Ask :
          /\ a.kind \in DOMAIN Protected
          /\ ask' = [ask EXCEPT ![r] = a]
    /\ \/ Answer(r, StatusOf.Unauthorized)
       \/ Answer(r, TokenStatusOf.InvalidToken)
       \/ expired # {} /\ Answer(r, TokenStatusOf.ExpiredToken)
    /\ UNCHANGED <<tableVars, tokenVars, caller, hash, faults>>

(* validateBody: not an address, too short a password, another currency. *)
Invalid(r) ==
    /\ pc[r] = "idle"
    /\ Answer(r, StatusOf.Validation)
    /\ UNCHANGED <<tableVars, tokenVars, ask, caller, hash, faults>>

----------------------------------------------------------------------------
(* POST /auth/register *)
AsTyped(r) == ask[r].email                \* mutant: no toLowerCase

NormalizedEmail(r) == Normal[ask[r].email]

(* Salted, so that no two hashes are the same. *)
HashPassword(r) ==
    /\ pc[r] = "hash"
    /\ hash' = [hash EXCEPT ![r] = [salt |-> r, of |-> ask[r].password]]
    /\ Goto(r, "insert")
    /\ UNCHANGED <<tableVars, tokenVars, ask, caller, reply, faults>>

NeverTaken(r) == FALSE                    \* mutant: no UNIQUE on email

EmailTaken(r) == \E m \in merchants : m.email = NormalizedEmail(r)

NewMerchant(r) == [id |-> r, email |-> NormalizedEmail(r), hash |-> hash[r]]

UpsertMerchant(r) ==                      \* mutant: ON CONFLICT DO UPDATE
    /\ pc[r] = "insert"
    /\ merchants' = IF EmailTaken(r)
                    THEN {[m EXCEPT !.hash = IF m.email = NormalizedEmail(r)
                                             THEN hash[r] ELSE @] : m \in merchants}
                    ELSE merchants \cup {NewMerchant(r)}
    /\ Answer(r, IF EmailTaken(r) THEN StatusOf.EmailAlreadyExists ELSE "201")
    /\ UNCHANGED <<wallets, tokenVars, ask, caller, hash, faults>>

InsertMerchant(r) ==
    /\ pc[r] = "insert"
    /\ IF EmailTaken(r)
       THEN Answer(r, StatusOf.EmailAlreadyExists) /\ UNCHANGED merchants
       ELSE Answer(r, "201") /\ merchants' = merchants \cup {NewMerchant(r)}
    /\ UNCHANGED <<wallets, tokenVars, ask, caller, hash, faults>>

----------------------------------------------------------------------------
(* POST /auth/login, and GET /auth/me *)
FindByEmail(r) ==
    /\ pc[r] = "find"
    /\ IF EmailTaken(r)
       THEN /\ \E m \in merchants :
                  /\ m.email = NormalizedEmail(r)
                  /\ caller' = [caller EXCEPT ![r] = m.id]
                  /\ hash' = [hash EXCEPT ![r] = m.hash]
            /\ Goto(r, "verify")
            /\ UNCHANGED reply
       ELSE Answer(r, StatusOf.InvalidCredentials) /\ UNCHANGED <<caller, hash>>
    /\ UNCHANGED <<tableVars, tokenVars, ask, faults>>

(* bcrypt.compare: the salt is in the hash. *)
Verifies(plain, h) == h = [salt |-> h.salt, of |-> plain]

(* The comparison is over, and in the same continuation the token signed.  *)
VerifyPassword(r) ==
    /\ pc[r] = "verify"
    /\ IF Verifies(ask[r].password, hash[r])
       THEN /\ Answer(r, "200")
            /\ tokens' = tokens \cup {[sub |-> caller[r], by |-> r]}
       ELSE Answer(r, StatusOf.InvalidCredentials) /\ UNCHANGED tokens
    /\ UNCHANGED <<tableVars, expired, ask, caller, hash, faults>>

GetById(r) ==
    /\ pc[r] = "me"
    /\ Answer(r, IF \E m \in merchants : m.id = caller[r] THEN "200"
                                                          ELSE StatusOf.Unauthorized)
    /\ UNCHANGED <<tableVars, tokenVars, ask, caller, hash, faults>>

----------------------------------------------------------------------------
(* POST /wallets and GET /wallets *)
HasWallet(r) ==
    \E w \in wallets : w.owner = caller[r] /\ w.currency = ask[r].currency

NewWallet(r) == [id |-> r, owner |-> caller[r], currency |-> ask[r].currency]

CreateWallet(r) ==
    /\ pc[r] = "create"
    /\ IF HasWallet(r)
       THEN Answer(r, StatusOf.WalletAlreadyExists) /\ UNCHANGED wallets
       ELSE Answer(r, "201") /\ wallets' = wallets \cup {NewWallet(r)}
    /\ UNCHANGED <<merchants, tokenVars, ask, caller, hash, faults>>

ListByMerchant(r) ==
    /\ pc[r] = "list"
    /\ Answer(r, "200")
    /\ UNCHANGED <<tableVars, tokenVars, ask, caller, hash, faults>>

----------------------------------------------------------------------------
(* An hour passes. *)
Expire(t) ==
    /\ expired' = expired \cup {t}
    /\ t \notin expired
    /\ UNCHANGED <<tableVars, tokens, pc, ask, caller, hash, reply, faults>>

Misbehave(f) == f \in Faults /\ faults < MaxFaults /\ faults' = faults + 1

InStatement == {"insert", "find", "me", "create", "list"}

(* Nothing was executed. *)
Fails(r) ==
    /\ \/ pc[r] \in InStatement /\ Misbehave("dbError") /\ Answer(r, "500")
       \/ pc[r] \notin {"idle", "done"} /\ Misbehave("crash") /\ Answer(r, "noAnswer")
    /\ UNCHANGED <<tableVars, tokenVars, ask, caller, hash>>

(* The INSERT was, although nobody is told so.                             *)
AnswerLost(r) ==
    /\ \/ /\ pc[r] = "insert" /\ ~EmailTaken(r)
          /\ merchants' = merchants \cup {NewMerchant(r)}
          /\ UNCHANGED wallets
       \/ /\ pc[r] = "create" /\ ~HasWallet(r)
          /\ wallets' = wallets \cup {NewWallet(r)}
          /\ UNCHANGED merchants
    /\ \/ Misbehave("ackLost") /\ Answer(r, "500")
       \/ Misbehave("crash") /\ Answer(r, "noAnswer")
    /\ UNCHANGED <<tokenVars, ask, caller, hash>>

Receive(r) == Arrive(r) \/ Authenticate(r) \/ Unauthenticated(r) \/ Invalid(r)

Step(r) == \/ HashPassword(r) \/ InsertMerchant(r)
           \/ FindByEmail(r) \/ VerifyPassword(r) \/ GetById(r)
           \/ CreateWallet(r) \/ ListByMerchant(r)

Terminated == (\A r \in Request : pc[r] = "done") /\ UNCHANGED vars

Next == \/ \E r \in Request : Receive(r) \/ Step(r) \/ Fails(r) \/ AnswerLost(r)
        \/ \E t \in tokens : Expire(t)
        \/ Terminated

Spec == Init /\ [][Next]_vars

----------------------------------------------------------------------------
(* migrations/0001: "no two merchants can share an email - even if two     *)
(* signups race".  An account stays with whoever registered it first: a    *)
(* token for it was signed only for the password of that registration,     *)
(* and a wallet opened only with such a token, whatever other              *)
(* registrations of the address were hashing or inserting meanwhile.       *)
SessionsAreEarned ==
    /\ \A t \in tokens :
          /\ NormalizedEmail(t.by) = NormalizedEmail(t.sub)
          /\ ask[t.by].password = ask[t.sub].password
    /\ \A w \in wallets : \E t \in tokens : t.sub = w.owner

(* Of registrations of one address and of wallets in one currency, one is  *)
(* told 201; 409 is told only to those who came after another request's    *)
(* row, and a 500 or no answer at all leaves it open.                      *)
SameAccount(r, s) ==
    /\ ask[r].kind = ask[s].kind
    /\ CASE ask[r].kind = "register" -> Normal[ask[r].email] = Normal[ask[s].email]
         [] ask[r].kind = "create" -> /\ caller[r] = caller[s]
                                      /\ ask[r].currency = ask[s].currency
         [] OTHER -> FALSE

Inserted(r) == \E row \in merchants \cup wallets : row.id = r

RepliesAreTrue ==
    \A r \in Request :
        /\ reply[r] = "201" =>
              /\ Inserted(r)
              /\ \A s \in Request \ {r} : SameAccount(r, s) => ~Inserted(s)
        /\ reply[r] = "409" =>
              /\ ~Inserted(r)
              /\ \E s \in Request \ {r} : SameAccount(r, s) /\ Inserted(s)

(* Whoever was told 201 can log in from then on, however the address is    *)
(* spelled: a login is refused only while no registration of its address   *)
(* with its password is in the table.                                      *)
RegisteredCanLogIn ==
    [][\A r, s \in Request :
          /\ ask[r].kind = "login" /\ reply[r] = "none" /\ reply'[r] = "401"
          /\ ask[s].kind = "register" /\ reply[s] = "201"
          => \/ Normal[ask[s].email] # Normal[ask[r].email]
             \/ ask[s].password # ask[r].password]_vars
=============================================================================
