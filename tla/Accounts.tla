------------------------------ MODULE Accounts ------------------------------
(***************************************************************************)
(* User accounts and their keys: the users service (users/service.go) over *)
(* the users table (users/postgres/users.go), and the auth service it      *)
(* calls over gRPC (auth/service.go, auth/jwt/tokenizer.go,                *)
(* auth/postgres/key.go).                                                  *)
(*                                                                         *)
(* A token is its claims, since a JWT signed with the service's secret     *)
(* cannot be made elsewhere.  A password is stored as itself: bcrypt's     *)
(* Compare succeeds exactly on the password that was hashed.  Requests of  *)
(* the users service that make several calls (to the table, to auth, to    *)
(* the mail agent) take one step per call, so that the requests of several *)
(* clients interleave between the calls; the other requests are one step.  *)
(* Time is counted in ticks.                                               *)
(***************************************************************************)
EXTENDS Naturals, FiniteSets

CONSTANTS
    Emails,           \* addresses that pass isEmail
    Passwords,        \* passwords clients use
    Short,            \* those with fewer than minPassLen characters
    KeyIDs,           \* ids the uuid provider gives to API keys
    Client,           \* clients with a request at the users service
    LoginDuration, RecoveryDuration,   \* lifetimes of the temporary keys
    KeyDurations,     \* lifetimes asked for API keys, besides "never"
    MaxTime,          \* bound: the clock stops there
    MaxLoad,          \* bound: tokens issued plus requests in progress
    None              \* an absent value: no row, empty string, zero time

ASSUME DurationsAssumption ==
    /\ {LoginDuration, RecoveryDuration, MaxTime} \cup KeyDurations \subseteq Nat
    /\ Short \subseteq Passwords
    /\ None \notin Emails \cup Passwords \cup KeyIDs \cup Nat

VARIABLES
    users,   \* [Emails -> the password of the row, or None]
    keys,    \* rows of the keys table
    tokens,  \* the tokens issued so far
    mail,    \* reset mails sent: address and token
    now,     \* the clock
    req,     \* [Client -> its request in progress, or None]
    seen,    \* the token auth identified last, None when it refused it
    past,    \* history: the passwords each account has had
    gone     \* history: what Revoke was asked to remove, as <<issuer, id>>

vars == <<users, keys, tokens, mail, now, req, seen, past, gone>>

(* The id of a user is a uuid made at registration and never changed or    *)
(* removed, so the e-mail address stands for it too.                       *)
Issuers == Emails \cup {None}
KeyTypes == {"UserKey", "RecoveryKey", "APIKey"}
Token == [type : KeyTypes, issuer : Issuers, subject : Issuers,
          exp : Nat \cup {None}, id : KeyIDs \cup {None}]
KeyRow == [id : KeyIDs, issuer : Issuers, subject : Issuers, exp : Nat \cup {None}]

(***************************************************************************)
(* auth                                                                    *)
(***************************************************************************)
Expired(t) == t.exp # None /\ now > t.exp

(* tokenizer.Parse of a token the service signed, by its outcome.          *)
Parse(t) ==
    CASE ~Expired(t) -> "ok"
      [] Expired(t) /\ t.type = "APIKey" -> "ErrAPIKeyExpired"
      [] OTHER -> "ErrKeyExpired"

(* Only a user key that names its issuer may issue, revoke and retrieve.   *)
Login(t) == Parse(t) = "ok" /\ t.type = "UserKey" /\ t.issuer # None

(* Identify: a valid token of any type is accepted on its claims alone; an *)
(* expired API key has its row removed.                                    *)
Identify(t) ==
    /\ seen' = IF Parse(t) = "ok" THEN t ELSE None
    /\ keys' = IF Parse(t) = "ErrAPIKeyExpired"
                 THEN {k \in keys : ~(k.issuer = t.issuer /\ k.id = t.id)}
                 ELSE keys

TmpKeyOfLastIdentified(type, issuer, subject) ==
    [type |-> type, issuer |-> issuer, subject |-> IF seen # None THEN seen.subject ELSE subject,
     id |-> None, exp |-> now + (IF type = "RecoveryKey" THEN RecoveryDuration ELSE LoginDuration)]

(* tmpKey: user and recovery keys are signed and never stored.             *)
TmpKey(type, issuer, subject) ==
    [type |-> type, issuer |-> issuer, subject |-> subject, id |-> None,
     exp |-> now + (IF type = "RecoveryKey" THEN RecoveryDuration ELSE LoginDuration)]

Load == Cardinality(tokens) + Cardinality({c \in Client : req[c] # None})
CanIssue == Load < MaxLoad

(* POST /keys of type UserKey needs no token; it names no issuer and no    *)
(* subject.                                                                *)
IssueUserKey ==
    /\ CanIssue
    /\ tokens' = tokens \cup {TmpKey("UserKey", None, None)}
    /\ UNCHANGED <<users, keys, mail, now, req, seen, past, gone>>

(* POST /keys of type APIKey: the row is saved under a new id, then the    *)
(* token is signed.                                                        *)
IssueAPIKey(t, id, exp) ==
    /\ CanIssue
    /\ Login(t)
    /\ \A k \in tokens : k.id # id
    /\ keys' = keys \cup {[id |-> id, issuer |-> t.issuer, subject |-> t.subject, exp |-> exp]}
    /\ tokens' = tokens \cup {[type |-> "APIKey", issuer |-> t.issuer,
                               subject |-> t.subject, exp |-> exp, id |-> id]}
    /\ UNCHANGED <<users, mail, now, req, seen, past, gone>>

RemoveAnyIssuer(issuer, id) == {k \in keys : k.id # id}

(* DELETE of the row with this id among the issuer's; no row is no error.  *)
RemoveKey(issuer, id) == {k \in keys : ~(k.issuer = issuer /\ k.id = id)}

Revoke(t, id) ==
    /\ Login(t)
    /\ keys' = RemoveKey(t.issuer, id)
    /\ gone' = gone \cup {<<t.issuer, id>>}
    /\ UNCHANGED <<users, tokens, mail, now, req, seen, past>>

(* The gRPC call another service makes on behalf of a user.                *)
IdentifyCall(t) ==
    /\ Identify(t)
    /\ UNCHANGED <<users, tokens, mail, now, req, past, gone>>

(***************************************************************************)
(* users                                                                   *)
(***************************************************************************)
Request == [op : {"login", "forgot", "reset", "change"},
            pc : {"identify", "retrieve", "issue", "send", "update"},
            email : Issuers, pass : Passwords \cup {None},
            old : Passwords \cup {None}, token : Token \cup {None}]

Begin(c, r) ==
    /\ req[c] = None /\ Load < MaxLoad
    /\ req' = [req EXCEPT ![c] = r]

Goto(c, pc) == req' = [req EXCEPT ![c].pc = pc]
End(c) == req' = [req EXCEPT ![c] = None]

(* Register: Validate, then one INSERT; a taken address is ErrConflict.    *)
Register(e, p) ==
    /\ p \notin Short
    /\ users[e] = None
    /\ users' = [users EXCEPT ![e] = p]
    /\ past' = [past EXCEPT ![e] = @ \cup {p}]
    /\ UNCHANGED <<keys, tokens, mail, now, req, seen, gone>>

StartLogin(c, e, p) ==
    /\ Begin(c, [op |-> "login", pc |-> "retrieve", email |-> e, pass |-> None,
                 old |-> p, token |-> None])
    /\ UNCHANGED <<users, keys, tokens, mail, now, seen, past, gone>>

(* GenerateResetToken *)
StartForgot(c, e) ==
    /\ Begin(c, [op |-> "forgot", pc |-> "retrieve", email |-> e, pass |-> None,
                 old |-> None, token |-> None])
    /\ UNCHANGED <<users, keys, tokens, mail, now, seen, past, gone>>

(* ResetPassword: any kind of token, and no check of the new password but  *)
(* the request's (not empty, equal to its confirmation).                   *)
StartReset(c, t, p) ==
    /\ Begin(c, [op |-> "reset", pc |-> "identify", email |-> None, pass |-> p,
                 old |-> None, token |-> t])
    /\ UNCHANGED <<users, keys, tokens, mail, now, seen, past, gone>>

(* ChangePassword; passwChangeReq.validate wants a new password of at      *)
(* least minPassLen characters.                                            *)
StartChange(c, t, p, old) ==
    /\ p \notin Short
    /\ Begin(c, [op |-> "change", pc |-> "identify", email |-> None, pass |-> p,
                 old |-> old, token |-> t])
    /\ UNCHANGED <<users, keys, tokens, mail, now, seen, past, gone>>

(* The gRPC call to auth: the account is the subject of the token.         *)
IdentifyStep(c) ==
    /\ req[c] # None /\ req[c].pc = "identify"
    /\ Identify(req[c].token)
    /\ IF seen' # None
         THEN req' = [req EXCEPT ![c].pc = "retrieve", ![c].email = req[c].token.subject]
         ELSE End(c)
    /\ UNCHANGED <<users, tokens, mail, now, past, gone>>

CompareAny(r) == users[r.email] # None

(* RetrieveByEmail, followed for a login and a change by Compare with the  *)
(* password read.  A reset reads the row only to see that it exists.       *)
Compare(r) == users[r.email] = r.old

RetrieveStep(c) ==
    /\ req[c] # None /\ req[c].pc = "retrieve"
    /\ LET r == req[c]
           found == r.email \in Emails /\ users[r.email] # None
       IN  IF ~found \/ (r.op \in {"login", "change"} /\ ~Compare(r))
             THEN End(c)
             ELSE Goto(c, IF r.op = "reset" THEN "update" ELSE "issue")
    /\ UNCHANGED <<users, keys, tokens, mail, now, seen, past, gone>>

(* auth.Issue for the row read: a user key, or the recovery key to mail.   *)
(* ChangePassword logs in too, and drops the key.                          *)
IssueStep(c) ==
    /\ req[c] # None /\ req[c].pc = "issue"
    /\ CanIssue
    /\ LET r == req[c]
           t == TmpKey(IF r.op = "forgot" THEN "RecoveryKey" ELSE "UserKey", r.email, r.email)
       IN  /\ tokens' = tokens \cup {t}
           /\ CASE r.op = "login" -> End(c)
                [] r.op = "change" -> Goto(c, "update")
                [] OTHER -> req' = [req EXCEPT ![c].pc = "send", ![c].token = t]
    /\ UNCHANGED <<users, keys, mail, now, seen, past, gone>>

SendPasswordReset(c) ==
    /\ req[c] # None /\ req[c].pc = "send"
    /\ mail' = mail \cup {[to |-> req[c].email, token |-> req[c].token]}
    /\ End(c)
    /\ UNCHANGED <<users, keys, tokens, now, seen, past, gone>>

(* UPDATE users SET password = :password WHERE email = :email              *)
UpdatePassword(c) ==
    /\ req[c] # None /\ req[c].pc = "update"
    /\ users' = [users EXCEPT ![req[c].email] = req[c].pass]
    /\ past' = [past EXCEPT ![req[c].email] = @ \cup {req[c].pass}]
    /\ End(c)
    /\ UNCHANGED <<keys, tokens, mail, now, seen, gone>>

(* A call of the request fails (the database, auth or the mail host does   *)
(* not answer): the handler returns the error and undoes nothing.          *)
CallFails(c) ==
    /\ req[c] # None
    /\ End(c)
    /\ UNCHANGED <<users, keys, tokens, mail, now, seen, past, gone>>

Tick ==
    /\ now < MaxTime
    /\ now' = now + 1
    /\ UNCHANGED <<users, keys, tokens, mail, req, seen, past, gone>>

(***************************************************************************)
Init ==
    /\ users = [e \in Emails |-> None]
    /\ keys = {} /\ tokens = {} /\ mail = {} /\ gone = {}
    /\ now = 0
    /\ req = [c \in Client |-> None]
    /\ seen = None
    /\ past = [e \in Emails |-> {}]

AuthNext ==
    \/ IssueUserKey
    \/ \E t \in tokens : IdentifyCall(t)
    \/ \E t \in tokens, id \in KeyIDs :
          \/ Revoke(t, id)
          \/ \E d \in KeyDurations : IssueAPIKey(t, id, now + d)
          \/ IssueAPIKey(t, id, None)

Step(c) ==
    \/ IdentifyStep(c) \/ RetrieveStep(c) \/ IssueStep(c)
    \/ SendPasswordReset(c) \/ UpdatePassword(c) \/ CallFails(c)

UsersNext ==
    \/ \E e \in Emails, p \in Passwords : Register(e, p)
    \/ \E c \in Client :
          \/ \E e \in Emails : StartForgot(c, e) \/ \E p \in Passwords : StartLogin(c, e, p)
          \/ \E t \in tokens, p \in Passwords :
                StartReset(c, t, p) \/ \E old \in Passwords : StartChange(c, t, p, old)
          \/ Step(c)

Next == AuthNext \/ UsersNext \/ Tick

Spec == Init /\ [][Next]_vars

(***************************************************************************)
(* Properties                                                              *)
(***************************************************************************)
TypeOK ==
    /\ users \in [Emails -> Passwords \cup {None}]
    /\ keys \subseteq KeyRow
    /\ tokens \subseteq Token
    /\ mail \subseteq [to : Issuers, token : Token]
    /\ now \in Nat
    /\ req \in [Client -> Request \cup {None}]
    /\ seen \in Token \cup {None}
    /\ past \in [Emails -> SUBSET Passwords]
    /\ gone \subseteq Issuers \X KeyIDs

(* Whoever a token names has an account, and issuer and subject agree: no  *)
(* interleaving of logins, resets and key requests makes a token of one    *)
(* user carry the address of another, and only a key issued without a      *)
(* token names nobody.  A recovery key goes to the address it is for.      *)
TokensNameUsers ==
    /\ \A t \in tokens :
          /\ t.issuer = t.subject
          /\ t.issuer = None => t.type = "UserKey"
          /\ t.issuer # None => users[t.issuer] # None
    /\ \A m \in mail : m.token.type = "RecoveryKey" /\ m.token.subject = m.to

(* The keys table holds exactly the API keys that were neither revoked by  *)
(* their own issuer nor found expired: no other user's Revoke and no       *)
(* clean-up of another key takes a row away, and each row belongs to a     *)
(* registered user.                                                        *)
KeyTableExact ==
    /\ \A k \in keys : \E t \in tokens :
          t.type = "APIKey" /\ t.id = k.id /\ t.issuer = k.issuer /\ t.exp = k.exp
    /\ \A k \in keys : k.issuer # None
    /\ \A t \in tokens : t.type = "APIKey" =>
          \/ \E k \in keys : k.id = t.id /\ k.issuer = t.issuer
          \/ <<t.issuer, t.id>> \in gone
          \/ Expired(t)

(* A stored password changes only at the end of a request whose token was  *)
(* issued to that very account, and a ChangePassword only for somebody who *)
(* gave a password the account really had (perhaps no longer the current   *)
(* one: the row is compared in an earlier step than it is written).        *)
PasswordChangesAuthorised ==
    [][\A e \in Emails : users[e] # None /\ users'[e] # users[e] =>
          \E c \in Client :
             /\ req[c] # None /\ req[c].pc = "update"
             /\ req[c].token \in tokens /\ req[c].token.subject = e
             /\ req[c].op = "change" => req[c].old \in past[e]]_vars

(* auth/README.md: validating an API key "requires a query to the          *)
(* database", the reason being that these are the keys that can be         *)
(* revoked.  So a key that was accepted is in the table.                   *)
AcceptedKeysStored ==
    [][seen' # seen /\ seen' # None /\ seen'.type = "APIKey" =>
          \E k \in keys : k.id = seen'.id /\ k.issuer = seen'.issuer]_vars
=============================================================================
