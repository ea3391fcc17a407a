------------------------ MODULE AccountsGroupsProofs ------------------------
(***************************************************************************)
(* Proofs about accounts and keys, for any users, passwords, keys and      *)
(* clients, and whatever time it is; and about groups, for any groups,     *)
(* members and owners, in each of the three repositories.                  *)
(***************************************************************************)
EXTENDS Accounts, Groups, FiniteSetTheorems, TLAPS

-----------------------------------------------------------------------------
(* Accounts and keys.                                                      *)

(* What a request carries at each of its calls.  A request with a token    *)
(* carries one that was issued, and goes on for the account the token is   *)
(* for; past the look-up the account exists; a change has compared a       *)
(* password the account has had.  The arguments are the request, the rows, *)
(* the tokens and the passwords in the history.                            *)
RequestOK(r, rows, issued, had) ==
    /\ r.op \in {"login", "forgot"} => r.pc \in {"retrieve", "issue", "send"}
    /\ r.op \in {"reset", "change"} =>
          /\ r.pc \in {"identify", "retrieve", "update"} \/ (r.op = "change" /\ r.pc = "issue")
          /\ r.token \in issued
          /\ r.pass \in Passwords
          /\ r.pc # "identify" => r.email = r.token.subject
    /\ r.pc \in {"issue", "send", "update"} => r.email \in Emails /\ rows[r.email] # None
    /\ r.pc = "send" =>
          r.op = "forgot" /\ r.token \in issued
          /\ r.token.type = "RecoveryKey" /\ r.token.subject = r.email
    /\ r.op = "change" /\ r.pc \in {"issue", "update"} => r.old \in had[r.email]

RequestsOK == \A c \in Client : req[c] # None => RequestOK(req[c], users, tokens, past)

(* The history has what is stored.                                         *)
PastKept == \A e \in Emails : users[e] # None => users[e] \in past[e]

(* The id of an API key is given once.                                     *)
KeyIDsUnique ==
    /\ \A t \in tokens : t.type = "APIKey" => t.id \in KeyIDs
    /\ \A t, u \in tokens : t.type = "APIKey" /\ u.type = "APIKey" /\ t.id = u.id => t = u

AccountsInv ==
    /\ TypeOK
    /\ TokensNameUsers
    /\ KeyIDsUnique
    /\ KeyTableExact
    /\ RequestsOK
    /\ PastKept

USE DurationsAssumption

LEMMA InitInv == Init => AccountsInv
BY DEF Init, AccountsInv, TypeOK, TokensNameUsers, KeyIDsUnique, KeyTableExact,
       RequestsOK, PastKept

-----------------------------------------------------------------------------
(* Identify, whoever calls it, with a token that was issued.               *)
LEMMA IdentifyInv ==
    ASSUME AccountsInv, NEW t \in tokens, Identify(t),
           UNCHANGED <<tokens, now, gone>>
    PROVE  KeyTableExact' /\ keys' \subseteq keys /\ seen' \in Token \cup {None}
<1>1. keys' \subseteq keys /\ seen' \in Token \cup {None}
    BY DEF Identify, AccountsInv, TypeOK
<1>2. ASSUME NEW u \in tokens, u.type = "APIKey"
      PROVE  \/ \E k \in keys' : k.id = u.id /\ k.issuer = u.issuer
             \/ <<u.issuer, u.id>> \in gone
             \/ Expired(u)
    <2>1. CASE \E k \in keys : k.id = u.id /\ k.issuer = u.issuer
        <3>1. PICK k \in keys : k.id = u.id /\ k.issuer = u.issuer
            BY <2>1
        <3>2. CASE k \in keys'
            BY <3>1, <3>2
        <3>3. CASE k \notin keys'
            <4>1. Parse(t) = "ErrAPIKeyExpired" /\ k.issuer = t.issuer /\ k.id = t.id
                BY <3>1, <3>3 DEF Identify
            <4>2. Expired(t) /\ t.type = "APIKey"
                BY <4>1 DEF Parse
            <4>3. t = u
                BY <1>2, <3>1, <4>1, <4>2 DEF AccountsInv, KeyIDsUnique
            <4>4. QED
                BY <4>2, <4>3
        <3>4. QED
            BY <3>2, <3>3
    <2>2. QED
        BY <1>2, <2>1 DEF AccountsInv, KeyTableExact
<1>3. \A u \in tokens : Expired(u)' = Expired(u)
    BY DEF Expired
<1>4. QED
    BY <1>1, <1>2, <1>3 DEF AccountsInv, KeyTableExact

(* The request part of the invariant does not mind more tokens.            *)
LEMMA RequestsKept ==
    ASSUME AccountsInv, UNCHANGED <<users, past, req>>, tokens \subseteq tokens'
    PROVE  RequestsOK'
BY DEF AccountsInv, RequestsOK, RequestOK

LEMMA IssueUserKeyInv ==
    ASSUME AccountsInv, IssueUserKey
    PROVE  AccountsInv'
<1> DEFINE t == TmpKey("UserKey", None, None)
<1>1. t \in Token /\ t.type = "UserKey" /\ t.issuer = None /\ t.subject = None
    BY DEF AccountsInv, TypeOK, TmpKey, Token, KeyTypes, Issuers
<1>2. tokens' = tokens \cup {t} /\ UNCHANGED <<users, keys, mail, now, req, seen, past, gone>>
    BY DEF IssueUserKey
<1> HIDE DEF t
<1>3. TypeOK' /\ PastKept'
    BY <1>1, <1>2 DEF AccountsInv, TypeOK, PastKept
<1>4. TokensNameUsers' /\ KeyIDsUnique'
    BY <1>1, <1>2 DEF AccountsInv, TokensNameUsers, KeyIDsUnique
<1>5. KeyTableExact'
    BY <1>1, <1>2 DEF AccountsInv, KeyTableExact, Expired
<1>6. RequestsOK'
    BY <1>2, RequestsKept
<1>7. QED
    BY <1>3, <1>4, <1>5, <1>6 DEF AccountsInv

LEMMA IssueAPIKeyInv ==
    ASSUME AccountsInv, NEW t \in tokens, NEW id \in KeyIDs, NEW exp \in Nat \cup {None},
           IssueAPIKey(t, id, exp)
    PROVE  AccountsInv'
<1> DEFINE row == [id |-> id, issuer |-> t.issuer, subject |-> t.subject, exp |-> exp]
           u == [type |-> "APIKey", issuer |-> t.issuer, subject |-> t.subject,
                 exp |-> exp, id |-> id]
<1>1. /\ t \in Token /\ t.issuer # None
      /\ \A v \in tokens : v.id # id
      /\ keys' = keys \cup {row} /\ tokens' = tokens \cup {u}
      /\ UNCHANGED <<users, mail, now, req, seen, past, gone>>
    BY DEF IssueAPIKey, Login, AccountsInv, TypeOK
<1>2. /\ row \in KeyRow /\ row.id = id /\ row.issuer = t.issuer /\ row.exp = exp
      /\ u \in Token /\ u.type = "APIKey" /\ u.id = id /\ u.issuer = t.issuer
      /\ u.subject = t.subject /\ u.exp = exp
    BY <1>1 DEF KeyRow, Token, KeyTypes
<1>3. t.issuer = t.subject /\ users[t.issuer] # None
    BY <1>1 DEF AccountsInv, TokensNameUsers
<1> HIDE DEF row, u
<1>4. TypeOK' /\ PastKept'
    BY <1>1, <1>2 DEF AccountsInv, TypeOK, PastKept
<1>5. TokensNameUsers' /\ KeyIDsUnique'
    BY <1>1, <1>2, <1>3 DEF AccountsInv, TokensNameUsers, KeyIDsUnique
<1>6. KeyTableExact'
    BY <1>1, <1>2 DEF AccountsInv, KeyTableExact, Expired
<1>7. RequestsOK'
    BY <1>1, RequestsKept
<1>8. QED
    BY <1>4, <1>5, <1>6, <1>7 DEF AccountsInv

LEMMA RevokeInv ==
    ASSUME AccountsInv, NEW t \in tokens, NEW id \in KeyIDs, Revoke(t, id)
    PROVE  AccountsInv'
<1>1. /\ keys' = {k \in keys : ~(k.issuer = t.issuer /\ k.id = id)}
      /\ gone' = gone \cup {<<t.issuer, id>>}
      /\ UNCHANGED <<users, tokens, mail, now, req, seen, past>>
    BY DEF Revoke, RemoveKey
<1>2. t.issuer \in Issuers
    BY DEF AccountsInv, TypeOK, Token
<1>3. TypeOK' /\ PastKept'
    BY <1>1, <1>2 DEF AccountsInv, TypeOK, PastKept
<1>4. TokensNameUsers' /\ KeyIDsUnique'
    BY <1>1 DEF AccountsInv, TokensNameUsers, KeyIDsUnique
<1>5. KeyTableExact'
    BY <1>1 DEF AccountsInv, KeyTableExact, Expired
<1>6. RequestsOK'
    BY <1>1, RequestsKept
<1>7. QED
    BY <1>3, <1>4, <1>5, <1>6 DEF AccountsInv

LEMMA IdentifyCallInv ==
    ASSUME AccountsInv, NEW t \in tokens, IdentifyCall(t)
    PROVE  AccountsInv'
<1>1. Identify(t) /\ UNCHANGED <<users, tokens, mail, now, req, past, gone>>
    BY DEF IdentifyCall
<1>2. KeyTableExact' /\ keys' \subseteq keys /\ seen' \in Token \cup {None}
    BY <1>1, IdentifyInv
<1>3. TypeOK' /\ PastKept'
    BY <1>1, <1>2 DEF AccountsInv, TypeOK, PastKept
<1>4. TokensNameUsers' /\ KeyIDsUnique'
    BY <1>1 DEF AccountsInv, TokensNameUsers, KeyIDsUnique
<1>5. RequestsOK'
    BY <1>1, RequestsKept
<1>6. QED
    BY <1>2, <1>3, <1>4, <1>5 DEF AccountsInv

-----------------------------------------------------------------------------
(* A step that only moves one request on.                                  *)
LEMMA RequestMoves ==
    ASSUME AccountsInv, NEW c \in Client, NEW r \in Request \cup {None},
           req' = [req EXCEPT ![c] = r],
           r # None => RequestOK(r, users, tokens, past),
           UNCHANGED <<users, keys, tokens, mail, now, seen, past, gone>>
    PROVE  AccountsInv'
<1>1. TypeOK' /\ PastKept'
    BY DEF AccountsInv, TypeOK, PastKept
<1>2. TokensNameUsers' /\ KeyIDsUnique'
    BY DEF AccountsInv, TokensNameUsers, KeyIDsUnique
<1>3. KeyTableExact'
    BY DEF AccountsInv, KeyTableExact, Expired
<1>4. ASSUME NEW d \in Client, req'[d] # None PROVE RequestOK(req'[d], users, tokens, past)
    BY <1>4 DEF AccountsInv, TypeOK, RequestsOK
<1>5. RequestsOK'
    BY <1>4 DEF RequestsOK, RequestOK
<1>6. QED
    BY <1>1, <1>2, <1>3, <1>5 DEF AccountsInv

LEMMA StartInv ==
    ASSUME AccountsInv, NEW c \in Client,
           \/ \E e \in Emails : StartForgot(c, e) \/ \E p \in Passwords : StartLogin(c, e, p)
           \/ \E t \in tokens, p \in Passwords :
                 StartReset(c, t, p) \/ \E old \in Passwords : StartChange(c, t, p, old)
    PROVE  AccountsInv'
<1>1. ASSUME NEW e \in Emails, StartForgot(c, e) PROVE AccountsInv'
    <2> DEFINE r == [op |-> "forgot", pc |-> "retrieve", email |-> e, pass |-> None,
                     old |-> None, token |-> None]
    <2>1. r \in Request /\ RequestOK(r, users, tokens, past)
        BY DEF Request, Issuers, RequestOK
    <2>2. QED
        BY <1>1, <2>1, RequestMoves DEF StartForgot, Begin
<1>2. ASSUME NEW e \in Emails, NEW p \in Passwords, StartLogin(c, e, p) PROVE AccountsInv'
    <2> DEFINE r == [op |-> "login", pc |-> "retrieve", email |-> e, pass |-> None,
                     old |-> p, token |-> None]
    <2>1. r \in Request /\ RequestOK(r, users, tokens, past)
        BY DEF Request, Issuers, RequestOK
    <2>2. QED
        BY <1>2, <2>1, RequestMoves DEF StartLogin, Begin
<1>3. ASSUME NEW t \in tokens, NEW p \in Passwords, StartReset(c, t, p) PROVE AccountsInv'
    <2> DEFINE r == [op |-> "reset", pc |-> "identify", email |-> None, pass |-> p,
                     old |-> None, token |-> t]
    <2>1. t \in Token
        BY DEF AccountsInv, TypeOK
    <2>2. r \in Request /\ RequestOK(r, users, tokens, past)
        BY <2>1 DEF Request, Issuers, RequestOK
    <2>3. QED
        BY <1>3, <2>2, RequestMoves DEF StartReset, Begin
<1>4. ASSUME NEW t \in tokens, NEW p \in Passwords, NEW old \in Passwords,
             StartChange(c, t, p, old)
      PROVE  AccountsInv'
    <2> DEFINE r == [op |-> "change", pc |-> "identify", email |-> None, pass |-> p,
                     old |-> old, token |-> t]
    <2>1. t \in Token
        BY DEF AccountsInv, TypeOK
    <2>2. r \in Request /\ RequestOK(r, users, tokens, past)
        BY <2>1 DEF Request, Issuers, RequestOK
    <2>3. QED
        BY <1>4, <2>2, RequestMoves DEF StartChange, Begin
<1>5. QED
    BY <1>1, <1>2, <1>3, <1>4

LEMMA RetrieveStepInv ==
    ASSUME AccountsInv, NEW c \in Client, RetrieveStep(c)
    PROVE  AccountsInv'
<1> DEFINE r == req[c]
           found == r.email \in Emails /\ users[r.email] # None
           to == IF r.op = "reset" THEN "update" ELSE "issue"
           s == [r EXCEPT !.pc = to]
<1>1. r # None /\ r.pc = "retrieve" /\ r \in Request /\ RequestOK(r, users, tokens, past)
    BY DEF RetrieveStep, AccountsInv, TypeOK, RequestsOK
<1>2. UNCHANGED <<users, keys, tokens, mail, now, seen, past, gone>>
    BY DEF RetrieveStep
<1>3. CASE ~found \/ (r.op \in {"login", "change"} /\ ~Compare(r))
    BY <1>2, <1>3, RequestMoves DEF RetrieveStep, End
<1>4. CASE found /\ (r.op \in {"login", "change"} => Compare(r))
    <2>1. req' = [req EXCEPT ![c] = s]
        BY <1>4 DEF RetrieveStep, Goto
    <2>2. s \in Request
        BY <1>1 DEF Request
    <2>3. r.op = "change" => r.old \in past[r.email]
        BY <1>4 DEF Compare, AccountsInv, PastKept
    <2>4. RequestOK(s, users, tokens, past)
        BY <1>1, <1>4, <2>3 DEF RequestOK, Request
    <2>5. QED
        BY <1>2, <2>1, <2>2, <2>4, RequestMoves
<1>5. QED
    BY <1>3, <1>4

LEMMA CallFailsInv ==
    ASSUME AccountsInv, NEW c \in Client, CallFails(c)
    PROVE  AccountsInv'
BY RequestMoves DEF CallFails, End

LEMMA IdentifyStepInv ==
    ASSUME AccountsInv, NEW c \in Client, IdentifyStep(c)
    PROVE  AccountsInv'
<1> DEFINE r == req[c]
           s == [r EXCEPT !.pc = "retrieve", !.email = r.token.subject]
<1>1. r # None /\ r.pc = "identify" /\ r \in Request /\ RequestOK(r, users, tokens, past)
    BY DEF IdentifyStep, AccountsInv, TypeOK, RequestsOK
<1>2. r.op \in {"reset", "change"} /\ r.token \in tokens /\ r.token \in Token
    BY <1>1 DEF RequestOK, Request, AccountsInv, TypeOK
<1>3. Identify(r.token) /\ UNCHANGED <<users, tokens, mail, now, past, gone>>
    BY DEF IdentifyStep
<1>4. KeyTableExact' /\ keys' \subseteq keys /\ seen' \in Token \cup {None}
    BY <1>2, <1>3, IdentifyInv
<1>5. PICK n \in {s, None} : req' = [req EXCEPT ![c] = n]
    BY DEF IdentifyStep, End
<1>6. s \in Request /\ RequestOK(s, users, tokens, past)
    BY <1>1, <1>2 DEF RequestOK, Request, Token
<1> HIDE DEF s
<1>7. TypeOK' /\ PastKept'
    BY <1>3, <1>4, <1>5, <1>6 DEF AccountsInv, TypeOK, PastKept
<1>8. TokensNameUsers' /\ KeyIDsUnique'
    BY <1>3 DEF AccountsInv, TokensNameUsers, KeyIDsUnique
<1>9. ASSUME NEW d \in Client, req'[d] # None PROVE RequestOK(req'[d], users, tokens, past)
    BY <1>5, <1>6, <1>9 DEF AccountsInv, TypeOK, RequestsOK
<1>10. RequestsOK'
    BY <1>3, <1>9 DEF RequestsOK, RequestOK
<1>11. QED
    BY <1>4, <1>7, <1>8, <1>10 DEF AccountsInv

LEMMA IssueStepInv ==
    ASSUME AccountsInv, NEW c \in Client, IssueStep(c)
    PROVE  AccountsInv'
<1> DEFINE r == req[c]
           type == IF r.op = "forgot" THEN "RecoveryKey" ELSE "UserKey"
           t == TmpKey(type, r.email, r.email)
           toUpdate == [r EXCEPT !.pc = "update"]
           toSend == [r EXCEPT !.pc = "send", !.token = t]
<1>1. r # None /\ r.pc = "issue" /\ r \in Request /\ RequestOK(r, users, tokens, past)
    BY DEF IssueStep, AccountsInv, TypeOK, RequestsOK
<1>2. r.email \in Emails /\ users[r.email] # None
    BY <1>1 DEF RequestOK
<1>3. tokens' = tokens \cup {t} /\ UNCHANGED <<users, keys, mail, now, seen, past, gone>>
    BY DEF IssueStep
<1>4. /\ t \in Token /\ t.type = type /\ t.issuer = r.email /\ t.subject = r.email
      /\ t.type # "APIKey"
    BY <1>2 DEF TmpKey, Token, KeyTypes, Issuers, AccountsInv, TypeOK
<1>5. \/ req' = [req EXCEPT ![c] = None]
      \/ r.op = "change" /\ req' = [req EXCEPT ![c] = toUpdate]
      \/ r.op \notin {"login", "change"} /\ req' = [req EXCEPT ![c] = toSend]
    BY DEF IssueStep, End, Goto
<1> HIDE DEF t
<1>6. PICK n \in Request \cup {None} :
         req' = [req EXCEPT ![c] = n] /\ (n # None => RequestOK(n, users', tokens', past'))
    <2>1. CASE req' = [req EXCEPT ![c] = None]
        BY <2>1
    <2>2. CASE r.op = "change" /\ req' = [req EXCEPT ![c] = toUpdate]
        <3>1. toUpdate \in Request
            BY <1>1 DEF Request
        <3>2. RequestOK(toUpdate, users', tokens', past')
            BY <1>1, <1>3, <2>2 DEF RequestOK, Request
        <3>3. QED
            BY <2>2, <3>1, <3>2
    <2>3. CASE r.op \notin {"login", "change"} /\ req' = [req EXCEPT ![c] = toSend]
        <3>1. r.op = "forgot"
            BY <1>1, <2>3 DEF Request, RequestOK
        <3>2. toSend \in Request
            BY <1>1, <1>4 DEF Request
        <3>3. RequestOK(toSend, users', tokens', past')
            BY <1>1, <1>2, <1>3, <1>4, <3>1 DEF RequestOK, Request
        <3>4. QED
            BY <2>3, <3>2, <3>3
    <2>4. QED
        BY <1>5, <2>1, <2>2, <2>3
<1>7. TypeOK' /\ PastKept'
    BY <1>3, <1>4, <1>6 DEF AccountsInv, TypeOK, PastKept
<1>8. TokensNameUsers'
    BY <1>2, <1>3, <1>4 DEF AccountsInv, TokensNameUsers
<1>9. KeyIDsUnique'
    BY <1>3, <1>4 DEF AccountsInv, KeyIDsUnique
<1>10. KeyTableExact'
    BY <1>3, <1>4 DEF AccountsInv, KeyTableExact, Expired
<1>11. ASSUME NEW d \in Client, req'[d] # None PROVE RequestOK(req'[d], users', tokens', past')
    <2>1. CASE d = c
        BY <1>6, <1>11, <2>1 DEF AccountsInv, TypeOK
    <2>2. CASE d # c
        <3>1. req'[d] = req[d] /\ RequestOK(req[d], users, tokens, past)
            BY <1>6, <1>11, <2>2 DEF AccountsInv, TypeOK, RequestsOK
        <3>2. QED
            BY <1>3, <3>1 DEF RequestOK
    <2>3. QED
        BY <2>1, <2>2
<1>12. RequestsOK'
    BY <1>11 DEF RequestsOK
<1>13. QED
    BY <1>7, <1>8, <1>9, <1>10, <1>12 DEF AccountsInv

LEMMA SendPasswordResetInv ==
    ASSUME AccountsInv, NEW c \in Client, SendPasswordReset(c)
    PROVE  AccountsInv'
<1> DEFINE r == req[c]
           m == [to |-> r.email, token |-> r.token]
<1>1. r # None /\ r.pc = "send" /\ r \in Request /\ RequestOK(r, users, tokens, past)
    BY DEF SendPasswordReset, AccountsInv, TypeOK, RequestsOK
<1>2. /\ r.email \in Issuers /\ r.token \in Token
      /\ r.token.type = "RecoveryKey" /\ r.token.subject = r.email
    BY <1>1 DEF RequestOK, Request, AccountsInv, TypeOK
<1>3. /\ mail' = mail \cup {m} /\ req' = [req EXCEPT ![c] = None]
      /\ UNCHANGED <<users, keys, tokens, now, seen, past, gone>>
    BY DEF SendPasswordReset, End
<1>4. TypeOK' /\ PastKept'
    BY <1>2, <1>3 DEF AccountsInv, TypeOK, PastKept
<1>5. TokensNameUsers' /\ KeyIDsUnique'
    BY <1>2, <1>3 DEF AccountsInv, TokensNameUsers, KeyIDsUnique
<1>6. KeyTableExact'
    BY <1>3 DEF AccountsInv, KeyTableExact, Expired
<1>7. RequestsOK'
    BY <1>3 DEF AccountsInv, TypeOK, RequestsOK, RequestOK
<1>8. QED
    BY <1>4, <1>5, <1>6, <1>7 DEF AccountsInv

(* A row is written, by a registration or by the last call of a request.   *)
LEMMA PasswordStored ==
    ASSUME AccountsInv, NEW e \in Emails, NEW p \in Passwords,
           users' = [users EXCEPT ![e] = p],
           past' = [past EXCEPT ![e] = @ \cup {p}],
           \/ UNCHANGED req
           \/ \E c \in Client : req' = [req EXCEPT ![c] = None],
           UNCHANGED <<keys, tokens, mail, now, seen, gone>>
    PROVE  AccountsInv'
<1>1. TypeOK' /\ PastKept'
    BY DEF AccountsInv, TypeOK, PastKept
<1>2. \A f \in Emails : users[f] # None => users'[f] # None
    BY DEF AccountsInv, TypeOK
<1>3. \A t \in tokens : t.issuer # None => t.issuer \in Emails
    BY DEF AccountsInv, TypeOK, Token, Issuers
<1>4. TokensNameUsers' /\ KeyIDsUnique'
    BY <1>2, <1>3 DEF AccountsInv, TokensNameUsers, KeyIDsUnique
<1>5. KeyTableExact'
    BY DEF AccountsInv, KeyTableExact, Expired
<1>6. \A f \in Emails : past[f] \subseteq past'[f]
    BY DEF AccountsInv, TypeOK
<1>7. ASSUME NEW d \in Client, req'[d] # None PROVE RequestOK(req'[d], users', tokens', past')
    <2>1. req'[d] = req[d] /\ RequestOK(req[d], users, tokens, past)
        BY <1>7 DEF AccountsInv, TypeOK, RequestsOK
    <2>2. req[d].pc \in {"issue", "send", "update"} => req[d].email \in Emails
        BY <2>1 DEF RequestOK
    <2>3. QED
        BY <1>2, <1>6, <2>1, <2>2 DEF RequestOK
<1>8. RequestsOK'
    BY <1>7 DEF RequestsOK
<1>9. QED
    BY <1>1, <1>4, <1>5, <1>8 DEF AccountsInv

(* The last call of a reset or a change.                                   *)
LEMMA UpdateCarries ==
    ASSUME AccountsInv, NEW c \in Client, UpdatePassword(c)
    PROVE  /\ req[c] # None /\ req[c].pc = "update"
           /\ req[c].email \in Emails /\ req[c].pass \in Passwords
           /\ req[c].token \in tokens /\ req[c].token.subject = req[c].email
           /\ req[c].op = "change" => req[c].old \in past[req[c].email]
<1>1. /\ req[c] # None /\ req[c].pc = "update" /\ req[c] \in Request
      /\ RequestOK(req[c], users, tokens, past)
    BY DEF UpdatePassword, AccountsInv, TypeOK, RequestsOK
<1>2. QED
    BY <1>1 DEF RequestOK, Request

LEMMA TickInv ==
    ASSUME AccountsInv, Tick
    PROVE  AccountsInv'
<1>1. now \in Nat /\ now' = now + 1
    BY DEF Tick, AccountsInv, TypeOK
<1>2. \A t \in tokens : Expired(t) => Expired(t)'
    BY <1>1 DEF Expired, AccountsInv, TypeOK, Token
<1>3. TypeOK' /\ PastKept'
    BY <1>1 DEF Tick, AccountsInv, TypeOK, PastKept
<1>4. TokensNameUsers' /\ KeyIDsUnique'
    BY DEF Tick, AccountsInv, TokensNameUsers, KeyIDsUnique
<1>5. KeyTableExact'
    BY <1>2 DEF Tick, AccountsInv, KeyTableExact
<1>6. RequestsOK'
    BY RequestsKept DEF Tick
<1>7. QED
    BY <1>3, <1>4, <1>5, <1>6 DEF AccountsInv

LEMMA NextInv == AccountsInv /\ [Next]_vars => AccountsInv'
<1> SUFFICES ASSUME AccountsInv, [Next]_vars PROVE AccountsInv'
    OBVIOUS
<1>1. CASE AuthNext
    <2>1. ASSUME NEW t \in tokens, NEW id \in KeyIDs, NEW d \in KeyDurations,
                 IssueAPIKey(t, id, now + d)
          PROVE  AccountsInv'
        <3>1. now + d \in Nat
            BY DEF AccountsInv, TypeOK
        <3>2. QED
            BY <2>1, <3>1, IssueAPIKeyInv
    <2>2. QED
        BY <1>1, <2>1, IssueUserKeyInv, IdentifyCallInv, RevokeInv, IssueAPIKeyInv
           DEF AuthNext
<1>2. CASE UsersNext
    <2>1. ASSUME NEW e \in Emails, NEW p \in Passwords, Register(e, p) PROVE AccountsInv'
        BY <2>1, PasswordStored DEF Register
    <2>2. ASSUME NEW c \in Client, UpdatePassword(c) PROVE AccountsInv'
        BY <2>2, UpdateCarries, PasswordStored DEF UpdatePassword, End
    <2>3. ASSUME NEW c \in Client, Step(c) PROVE AccountsInv'
        BY <2>2, <2>3, IdentifyStepInv, RetrieveStepInv, IssueStepInv,
           SendPasswordResetInv, CallFailsInv DEF Step
    <2>4. QED
        BY <1>2, <2>1, <2>3, StartInv DEF UsersNext
<1>3. CASE UNCHANGED vars
    BY <1>3 DEF vars, AccountsInv, TypeOK, TokensNameUsers, KeyIDsUnique, KeyTableExact,
                Expired, RequestsOK, RequestOK, PastKept
<1>4. QED
    BY <1>1, <1>2, <1>3, TickInv DEF Next

-----------------------------------------------------------------------------
(* No interleaving of logins, resets and key requests issues a token that  *)
(* names somebody without an account, or one user as issuer and another as *)
(* subject (auth/service.go, users/service.go).                            *)
THEOREM TokensAreUsers == Spec => []TokensNameUsers
<1>1. AccountsInv => TokensNameUsers
    BY DEF AccountsInv
<1>2. QED
    BY InitInv, NextInv, <1>1, PTL DEF Spec

(* The keys table holds the API keys that were neither revoked by their    *)
(* issuer nor found expired, and no others (auth/postgres/key.go).         *)
THEOREM KeysAccounted == Spec => []KeyTableExact
<1>1. AccountsInv => KeyTableExact
    BY DEF AccountsInv
<1>2. QED
    BY InitInv, NextInv, <1>1, PTL DEF Spec

(* A stored password changes only through a request with a token of that   *)
(* account, and by a change only for somebody who knew a password of it    *)
(* (users/service.go, ResetPassword and ChangePassword).                   *)
THEOREM PasswordsGuarded == Spec => PasswordChangesAuthorised
<1> DEFINE Authorised ==
        \A e \in Emails : users[e] # None /\ users'[e] # users[e] =>
          \E c \in Client :
             /\ req[c] # None /\ req[c].pc = "update"
             /\ req[c].token \in tokens /\ req[c].token.subject = e
             /\ req[c].op = "change" => req[c].old \in past[e]
<1>1. AccountsInv /\ [Next]_vars => [Authorised]_vars
    <2> SUFFICES ASSUME AccountsInv, Next, NEW e \in Emails,
                        users[e] # None, users'[e] # users[e]
                 PROVE  \E c \in Client :
                           /\ req[c] # None /\ req[c].pc = "update"
                           /\ req[c].token \in tokens /\ req[c].token.subject = e
                           /\ req[c].op = "change" => req[c].old \in past[e]
        BY DEF vars
    <2>1. ASSUME NEW f \in Emails, NEW p \in Passwords, Register(f, p) PROVE FALSE
        BY <2>1 DEF Register, AccountsInv, TypeOK
    <2>2. PICK c \in Client : UpdatePassword(c)
        BY <2>1 DEF Next, AuthNext, UsersNext, Tick, Step, IssueUserKey, IdentifyCall, Revoke,
               IssueAPIKey, StartForgot, StartLogin, StartReset, StartChange,
               IdentifyStep, RetrieveStep, IssueStep, SendPasswordReset, CallFails
    <2>3. req[c].email = e
        BY <2>2, UpdateCarries DEF UpdatePassword, AccountsInv, TypeOK
    <2>4. QED
        BY <2>2, <2>3, UpdateCarries
<1>2. QED
    BY InitInv, NextInv, <1>1, PTL DEF Spec, PasswordChangesAuthorised

-----------------------------------------------------------------------------
(* Groups.                                                                 *)

USE GroupsAssumption

(* Groups form a forest: no set of groups holds the parents of all its     *)
(* members.                                                                *)
Acyclic ==
    \A S \in SUBSET DOMAIN groups : S # {} => \E g \in S : groups[g].parent \notin S

(* A path is the parent's path and the group's own label.                  *)
Label(g) == IF repo = "things" THEN g ELSE groups[g].name
PathsGrow ==
    repo # "users" =>
        \A g \in DOMAIN groups : groups[g].path = NewPath(groups[g].parent, Label(g))

GroupsInv ==
    /\ GroupsTypeOK
    /\ GroupIntegrity
    /\ Acyclic
    /\ PathsGrow

-----------------------------------------------------------------------------
(* A group is in its subtree, and with a group its children are.           *)
LEMMA SubtreeClosed ==
    ASSUME NEW f, NEW g \in DOMAIN f
    PROVE  /\ g \in F!Subtree(f, g)
           /\ F!Subtree(f, g) \subseteq DOMAIN f
           /\ \A h \in DOMAIN f : f[h] \in F!Subtree(f, g) => h \in F!Subtree(f, g)
BY DEF F!Subtree, F!HasChildren

LEMMA GroupsInitInv == GroupsInit => GroupsInv
<1> SUFFICES ASSUME GroupsInit PROVE GroupsInv
    OBVIOUS
<1>1. DOMAIN groups = {}
    BY DEF GroupsInit
<1>2. QED
    BY <1>1 DEF GroupsInit, GroupsInv, GroupsTypeOK, GroupIntegrity, Acyclic, PathsGrow

(* A row whose path is the parent's and its own label is inserted.         *)
LEMMA InsertInv ==
    ASSUME GroupsInv, NEW g \in GroupIDs, NEW p \in GroupIDs \cup {NoGroup},
           NEW o \in Owners, NEW name \in Names, NEW path \in Seq(GroupIDs \cup Names),
           Insert(g, New(p, o, name, path)),
           repo # "users" => path = NewPath(p, IF repo = "things" THEN g ELSE name)
    PROVE  GroupsInv'
<1> DEFINE r == New(p, o, name, path)
<1>1. r \in Group /\ r.parent = p /\ r.name = name /\ r.path = path
    BY DEF New, Group
<1> HIDE DEF r
<1>2. /\ g \notin DOMAIN groups /\ p \in DOMAIN groups \cup {NoGroup}
      /\ groups' = [h \in DOMAIN groups \cup {g} |-> IF h = g THEN r ELSE groups[h]]
      /\ UNCHANGED <<repo, relations, members>>
    BY <1>1 DEF Insert, r
<1>3. /\ DOMAIN groups' = DOMAIN groups \cup {g} /\ groups'[g] = r
      /\ \A h \in DOMAIN groups : groups'[h] = groups[h]
    BY <1>2
<1>4. GroupsTypeOK'
    BY <1>1, <1>2, <1>3 DEF GroupsInv, GroupsTypeOK
<1>5. GroupIntegrity'
    BY <1>1, <1>2, <1>3 DEF GroupsInv, GroupIntegrity
<1>6. Acyclic'
  <2> SUFFICES ASSUME NEW S \in SUBSET DOMAIN groups', S # {}
               PROVE  \E h \in S : groups'[h].parent \notin S
      BY DEF Acyclic
  <2>1. CASE S \ {g} = {}
      BY <1>1, <1>2, <1>3, <2>1
  <2>2. CASE S \ {g} # {}
    <3>1. PICK h \in S \ {g} : groups[h].parent \notin S \ {g}
        BY <1>3, <2>2 DEF GroupsInv, Acyclic
    <3>2. h \in DOMAIN groups /\ groups[h].parent # g
        BY <1>2, <1>3, <3>1 DEF GroupsInv, GroupIntegrity
    <3>3. QED
        BY <1>3, <3>1, <3>2
  <2>3. QED
      BY <2>1, <2>2
<1>7. PathsGrow'
  <2> SUFFICES ASSUME repo # "users", NEW h \in DOMAIN groups'
               PROVE  groups'[h].path = NewPath(groups[h].parent, Label(h))'
      BY <1>2 DEF PathsGrow
  <2>1. CASE h = g
      BY <1>1, <1>2, <1>3, <2>1 DEF NewPath, Label
  <2>2. CASE h # g
    <3>1. h \in DOMAIN groups /\ groups[h].parent \in DOMAIN groups \cup {NoGroup}
        BY <1>3, <2>2 DEF GroupsInv, GroupIntegrity
    <3>2. QED
        BY <1>2, <1>3, <3>1 DEF GroupsInv, PathsGrow, NewPath, Label
  <2>3. QED
      BY <2>1, <2>2
<1>8. QED
    BY <1>4, <1>5, <1>6, <1>7 DEF GroupsInv

(* Update leaves places and paths as they are; labels too, for only things *)
(* and users rename.                                                       *)
LEMMA RenameInv ==
    ASSUME GroupsInv, NEW g \in GroupIDs, NEW name \in Names, Rename(g, name), repo # "auth"
    PROVE  GroupsInv'
<1>1. /\ g \in DOMAIN groups /\ groups' = [groups EXCEPT ![g].name = name]
      /\ UNCHANGED <<repo, relations, members>>
    BY DEF Rename
<1>2. groups[g] \in Group
    BY <1>1 DEF GroupsInv, GroupsTypeOK
<1>3. /\ DOMAIN groups' = DOMAIN groups
      /\ \A h \in DOMAIN groups :
            /\ groups[h] \in Group => groups'[h] \in Group
            /\ groups'[h].parent = groups[h].parent
            /\ groups'[h].path = groups[h].path
    BY <1>1, <1>2 DEF Group, GroupsInv, GroupsTypeOK
<1>4. GroupsTypeOK' /\ GroupIntegrity' /\ Acyclic'
    BY <1>1, <1>3 DEF GroupsInv, GroupsTypeOK, GroupIntegrity, Acyclic
<1>5. PathsGrow'
  <2> SUFFICES ASSUME repo # "users", NEW h \in DOMAIN groups'
               PROVE  groups'[h].path = NewPath(groups[h].parent, Label(h))'
      BY <1>1 DEF PathsGrow
  <2>1. repo = "things"
      BY DEF GroupsInv, GroupsTypeOK
  <2>2. groups[h].parent = NoGroup \/ groups[h].parent \in DOMAIN groups
      BY <1>3 DEF GroupsInv, GroupIntegrity
  <2>3. QED
      BY <1>1, <1>3, <2>1, <2>2 DEF GroupsInv, PathsGrow, NewPath, Label
<1>6. QED
    BY <1>4, <1>5 DEF GroupsInv

(* A subtree goes: no parent and no end of a membership was in it.         *)
LEMMA RemoveInv ==
    ASSUME GroupsInv, NEW g \in DOMAIN groups, RemoveRows(Cascade(g))
    PROVE  GroupsInv'
<1> DEFINE cut == Cascade(g)
<1>1. /\ groups' = [h \in DOMAIN groups \ cut |-> groups[h]]
      /\ relations' = {r \in relations : r[2] \notin cut}
      /\ UNCHANGED <<repo, members>>
    BY DEF RemoveRows
<1>2. \A h \in DOMAIN groups : groups[h].parent \in cut => h \in cut
    BY SubtreeClosed DEF parent, Cascade
<1> HIDE DEF cut
<1>3. /\ DOMAIN groups' = DOMAIN groups \ cut
      /\ \A h \in DOMAIN groups' : groups'[h] = groups[h]
    BY <1>1
<1>4. GroupsTypeOK' /\ GroupIntegrity'
    BY <1>1, <1>2, <1>3 DEF GroupsInv, GroupsTypeOK, GroupIntegrity
<1>5. Acyclic'
    BY <1>3 DEF GroupsInv, Acyclic
<1>6. PathsGrow'
  <2> SUFFICES ASSUME repo # "users", NEW h \in DOMAIN groups'
               PROVE  groups'[h].path = NewPath(groups[h].parent, Label(h))'
      BY <1>1 DEF PathsGrow
  <2>1. groups'[h].parent = NoGroup \/ groups'[h].parent \in DOMAIN groups'
      BY <1>4 DEF GroupIntegrity
  <2>2. QED
      BY <1>1, <1>3, <2>1 DEF GroupsInv, PathsGrow, NewPath, Label
<1>7. QED
    BY <1>4, <1>5, <1>6 DEF GroupsInv

(* Memberships change, and groups do not.                                  *)
LEMMA MembersInv ==
    ASSUME GroupsInv, UNCHANGED <<repo, groups>>,
           members' \subseteq members, relations' \subseteq members' \X DOMAIN groups
    PROVE  GroupsInv'
<1>1. GroupsTypeOK' /\ GroupIntegrity'
    BY DEF GroupsInv, GroupsTypeOK, GroupIntegrity
<1>2. Acyclic' /\ PathsGrow'
    BY DEF GroupsInv, Acyclic, PathsGrow, NewPath, Label
<1>3. QED
    BY <1>1, <1>2 DEF GroupsInv

LEMMA GroupsNextInv == GroupsInv /\ [GroupsNext]_groupsVars => GroupsInv'
<1> SUFFICES ASSUME GroupsInv, [GroupsNext]_groupsVars PROVE GroupsInv'
    OBVIOUS
<1>0. ASSUME NEW p \in GroupIDs \cup {NoGroup}, Exists(p), NEW label \in GroupIDs \cup Names
      PROVE  NewPath(p, label) \in Seq(GroupIDs \cup Names)
  <2>1. (IF p = NoGroup THEN <<>> ELSE groups[p].path) \in Seq(GroupIDs \cup Names)
      BY <1>0 DEF Exists, GroupsInv, GroupsTypeOK, Group
  <2>2. QED
      BY <1>0, <2>1 DEF NewPath
<1>1. ASSUME NEW g \in GroupIDs, NEW p \in GroupIDs \cup {NoGroup}, NEW o \in Owners,
             NEW name \in Names, repo = "things", ThingsSave(g, p, o, name)
      PROVE  GroupsInv'
    BY <1>0, <1>1, InsertInv DEF ThingsSave
<1>2. ASSUME NEW g \in GroupIDs, NEW p \in GroupIDs \cup {NoGroup}, NEW o \in Owners,
             NEW name \in Names, repo = "auth", AuthSave(g, p, o, name)
      PROVE  GroupsInv'
    BY <1>0, <1>2, InsertInv DEF AuthSave
<1>3. ASSUME NEW g \in GroupIDs, NEW p \in GroupIDs \cup {NoGroup}, NEW o \in Owners,
             NEW name \in Names, repo = "users", UsersSave(g, p, o, name)
      PROVE  GroupsInv'
  <2>1. <<>> \in Seq(GroupIDs \cup Names)
      OBVIOUS
  <2>2. QED
      BY <1>3, <2>1, InsertInv DEF UsersSave
<1>4. ASSUME NEW g \in GroupIDs, ThingsDelete(g) \/ UsersDelete(g)
      PROVE  GroupsInv'
    BY <1>4, RemoveInv DEF ThingsDelete, UsersDelete
<1>5. ASSUME NEW g \in GroupIDs, NEW m \in MemberIDs,
             \/ InsertRelation(m, g) \/ DeleteRelation(m, g) \/ RemoveThing(m)
      PROVE  GroupsInv'
  <2>1. relations \subseteq members \X DOMAIN groups
      BY DEF GroupsInv, GroupIntegrity
  <2>2. /\ UNCHANGED <<repo, groups>> /\ members' \subseteq members
        /\ relations' \subseteq members' \X DOMAIN groups
      BY <1>5, <2>1 DEF InsertRelation, DeleteRelation, RemoveThing
  <2>3. QED
      BY <2>2, MembersInv
<1>6. CASE ThingsGroups
    BY <1>1, <1>4, <1>5, <1>6, RenameInv
       DEF ThingsGroups, ThingsUpdate, ThingsAssign, ThingsUnassign
<1>7. CASE AuthGroups
    BY <1>2, <1>7 DEF AuthGroups
<1>8. CASE UsersGroups
    BY <1>3, <1>4, <1>5, <1>8, RenameInv
       DEF UsersGroups, UsersUpdate, UsersAssign, UsersUnassign
<1>9. CASE \E m \in MemberIDs : RemoveThing(m)
  <2>1. PICK m \in MemberIDs : RemoveThing(m)
      BY <1>9
  <2>2. relations \subseteq members \X DOMAIN groups
      BY DEF GroupsInv, GroupIntegrity
  <2>3. /\ UNCHANGED <<repo, groups>> /\ members' \subseteq members
        /\ relations' \subseteq members' \X DOMAIN groups
      BY <2>1, <2>2 DEF RemoveThing
  <2>4. QED
      BY <2>3, MembersInv
<1>10. CASE UNCHANGED groupsVars
    BY <1>10
       DEF groupsVars, GroupsInv, GroupsTypeOK, GroupIntegrity, Acyclic, PathsGrow, NewPath, Label
<1>11. QED
    BY <1>6, <1>7, <1>8, <1>9, <1>10 DEF GroupsNext

LEMMA GroupsInvariant == GroupsSpec => []GroupsInv
BY GroupsInitInv, GroupsNextInv, PTL DEF GroupsSpec

(* In every repository, whatever is saved, assigned, removed or deleted    *)
(* with all below it, no parent and no end of a membership is missing.     *)
THEOREM NothingDangles == GroupsSpec => []GroupIntegrity
<1>1. GroupsInv => GroupIntegrity
    BY DEF GroupsInv
<1>2. QED
    BY <1>1, GroupsInvariant, PTL

-----------------------------------------------------------------------------
(* The tree of a page.  A group that is not shown would have a parent that *)
(* is not shown either, or be on top.                                      *)
LEMMA AllShown ==
    ASSUME GroupsInv, NEW page \in SUBSET DOMAIN groups
    PROVE  Shown(page) = page
<1> DEFINE f == [g \in page |-> groups[g].parent]
<1>1. DOMAIN f = page /\ \A g \in page : f[g] = groups[g].parent
    OBVIOUS
<1>2. TopIn(page) \subseteq page
    BY DEF TopIn
<1>3. Shown(page) = UNION {F!Subtree(f, t) : t \in TopIn(page)}
    BY DEF Shown
<1> HIDE DEF f
<1>4. Shown(page) \subseteq page
    BY <1>1, <1>2, <1>3, SubtreeClosed
<1>5. ASSUME page \ Shown(page) # {}
      PROVE  FALSE
  <2>1. PICK g \in page \ Shown(page) : groups[g].parent \notin page \ Shown(page)
      BY <1>5 DEF GroupsInv, Acyclic
  <2>2. g \notin TopIn(page)
      BY <1>1, <1>2, <1>3, <2>1, SubtreeClosed
  <2>3. groups[g].parent \in Shown(page)
      BY <2>1, <2>2 DEF TopIn
  <2>4. PICK t \in TopIn(page) : groups[g].parent \in F!Subtree(f, t)
      BY <1>3, <2>3
  <2>5. g \in F!Subtree(f, t)
      BY <1>1, <1>2, <2>1, <2>4, SubtreeClosed
  <2>6. QED
      BY <1>3, <2>1, <2>5
<1>6. QED
    BY <1>4, <1>5

LEMMA TreeWhole == GroupsInv => TreeShowsPage
<1> SUFFICES ASSUME GroupsInv PROVE TreeShowsPage
    OBVIOUS
<1>1. \A page \in SUBSET DOMAIN groups : Whole(page) /\ Whole(Scanned(page))
    BY AllShown DEF Whole, Scanned
<1>2. ASSUME NEW g, NEW level
      PROVE  /\ PathAbove(g, level) \subseteq DOMAIN groups
             /\ PathBelow(g, level) \subseteq DOMAIN groups
    BY DEF PathAbove, PathBelow
<1>3. QED
    BY <1>1, <1>2
       DEF TreeShowsPage, ThingsRetrieveAll, ThingsMemberships, ThingsRetrieveAllChildren,
           ThingsRetrieveAllParents, AuthRetrieveAll, AuthRetrieveAllChildren,
           AuthRetrieveAllParents

(* buildGroupsResponseTree loses no group of any page that the lists of    *)
(* things' and auth's groups return.                                       *)
THEOREM TreesAreWhole == GroupsSpec => []TreeShowsPage
BY TreeWhole, GroupsInvariant, PTL

-----------------------------------------------------------------------------
(* Refinement.  The last labels of a thing group's path are its parent and *)
(* itself, so that paths and parent ids place it alike.                    *)
LEMMA PlacedIsParent == GroupsInv => placed = parent
<1> SUFFICES ASSUME GroupsInv, repo = "things", NEW g \in DOMAIN groups
             PROVE  (IF Len(groups[g].path) = 1 THEN NoGroup
                     ELSE groups[g].path[Len(groups[g].path) - 1]) = groups[g].parent
    BY DEF placed, parent
<1> DEFINE p == groups[g].parent
           label(h) == IF repo = "things" THEN h ELSE groups[h].name
<1>1. /\ \A h \in DOMAIN groups : groups[h].path = NewPath(groups[h].parent, h)
      /\ \A h \in DOMAIN groups : groups[h].path \in Seq(GroupIDs \cup Names)
      /\ p \in DOMAIN groups \cup {NoGroup}
    BY DEF GroupsInv, GroupsTypeOK, GroupIntegrity, PathsGrow, Label, Group
<1>2. CASE p = NoGroup
  <2>1. groups[g].path = Append(<<>>, g)
      BY <1>1, <1>2 DEF NewPath
  <2>2. QED
      BY <1>2, <2>1
<1>3. CASE p # NoGroup
  <2>1. p \in DOMAIN groups /\ groups[g].path = Append(groups[p].path, g)
      BY <1>1, <1>3 DEF NewPath
  <2>2. PICK q \in Seq(GroupIDs \cup Names) : groups[p].path = Append(q, p)
    <3>1. (IF groups[p].parent = NoGroup THEN <<>> ELSE groups[groups[p].parent].path)
              \in Seq(GroupIDs \cup Names)
        BY <1>1, <2>1 DEF GroupsInv, GroupIntegrity
    <3>2. QED
        BY <1>1, <2>1, <3>1 DEF NewPath
  <2>3. p \in GroupIDs /\ g \in GroupIDs
      BY <2>1 DEF GroupsInv, GroupsTypeOK
  <2>4. /\ Append(q, p) \in Seq(GroupIDs \cup Names)
        /\ Len(Append(q, p)) = Len(q) + 1 /\ Append(q, p)[Len(q) + 1] = p
      BY <2>2, <2>3
  <2>5. Len(groups[g].path) = Len(q) + 2 /\ groups[g].path[Len(q) + 1] = p /\ Len(q) \in Nat
      BY <2>1, <2>2, <2>3, <2>4
  <2>6. QED
      BY <2>5
<1>4. QED
    BY <1>2, <1>3

LEMMA StartsAsForest == GroupsInit => F!ForestInit
<1> SUFFICES ASSUME GroupsInit PROVE F!ForestInit
    OBVIOUS
<1>1. groups = <<>> /\ relations = {} /\ DOMAIN groups = {}
    BY DEF GroupsInit
<1>2. placed = <<>>
    BY <1>1 DEF placed
<1>3. QED
    BY <1>1, <1>2 DEF F!ForestInit

LEMMA StepsAsForest ==
    ASSUME GroupsInv, GroupsInv', [GroupsNext]_groupsVars
    PROVE  [F!ForestNext]_(F!forestVars)
<1>0. placed = parent /\ placed' = parent'
  <2>1. GroupsInv' => (placed = parent)'
      BY PlacedIsParent, PTL
  <2>2. QED
      BY PlacedIsParent, <2>1
<1>1. ASSUME NEW g \in GroupIDs, NEW p \in GroupIDs \cup {NoGroup}, NEW o, NEW name, NEW path,
             Insert(g, New(p, o, name, path))
      PROVE  F!Plant(g, p)
    BY <1>0, <1>1 DEF F!Plant, Insert, New, parent
<1>2. ASSUME NEW g \in DOMAIN groups, RemoveRows(Cascade(g))
      PROVE  F!Fell(g)
  <2>1. Cascade(g) = F!Subtree(parent, g)
      BY DEF Cascade
  <2>2. DOMAIN parent = DOMAIN groups /\ \A h \in DOMAIN groups : parent[h] = groups[h].parent
      BY DEF parent
  <2>3. parent' = [h \in DOMAIN parent \ Cascade(g) |-> parent[h]]
      BY <1>2, <2>2 DEF RemoveRows, parent
  <2>4. relations' = {b \in relations : b[2] \notin Cascade(g)}
      BY <1>2 DEF RemoveRows
  <2>5. QED
      BY <1>0, <2>1, <2>2, <2>3, <2>4 DEF F!Fell
<1>3. ASSUME UNCHANGED relations, UNCHANGED parent
      PROVE  UNCHANGED F!forestVars
    BY <1>0, <1>3 DEF F!forestVars
<1>4. ASSUME NEW g \in GroupIDs, NEW name, Rename(g, name)
      PROVE  UNCHANGED F!forestVars
  <2>1. \A h \in DOMAIN groups : groups'[h].parent = groups[h].parent
      BY <1>4 DEF Rename, GroupsInv, GroupsTypeOK, Group
  <2>2. UNCHANGED parent
      BY <1>4, <2>1 DEF Rename, parent
  <2>3. QED
      BY <1>3, <1>4, <2>2 DEF Rename
<1>5. ASSUME NEW m \in MemberIDs, NEW g \in GroupIDs, InsertRelation(m, g)
      PROVE  F!Join(m, g)
    BY <1>0, <1>5 DEF InsertRelation, F!Join, parent
<1>6. relations \subseteq MemberIDs \X GroupIDs
    BY DEF GroupsInv, GroupsTypeOK
<1>7. ASSUME NEW m \in MemberIDs, NEW g \in GroupIDs, DeleteRelation(m, g)
      PROVE  F!Leave(m, {g})
    BY <1>0, <1>6, <1>7 DEF DeleteRelation, F!Leave, parent
<1>8. ASSUME NEW m \in MemberIDs, RemoveThing(m)
      PROVE  F!Leave(m, GroupIDs)
    BY <1>0, <1>6, <1>8 DEF RemoveThing, F!Leave, parent
<1>9. DOMAIN groups \subseteq GroupIDs
    BY DEF GroupsInv, GroupsTypeOK
<1>10. CASE ThingsGroups
    BY <1>1, <1>2, <1>4, <1>5, <1>7, <1>10
       DEF ThingsGroups, ThingsSave, ThingsUpdate, ThingsDelete, ThingsAssign, ThingsUnassign,
           F!ForestNext
<1>11. CASE AuthGroups
    BY <1>1, <1>11 DEF AuthGroups, AuthSave, F!ForestNext
<1>12. CASE UsersGroups
    BY <1>1, <1>2, <1>4, <1>5, <1>7, <1>12
       DEF UsersGroups, UsersSave, UsersUpdate, UsersDelete, UsersAssign, UsersUnassign,
           F!ForestNext
<1>13. CASE \E m \in MemberIDs : RemoveThing(m)
    BY <1>8, <1>13 DEF F!ForestNext
<1>14. CASE UNCHANGED groupsVars
    BY <1>3, <1>14 DEF groupsVars, parent
<1>15. QED
    BY <1>10, <1>11, <1>12, <1>13, <1>14 DEF GroupsNext

(* Each of the three repositories implements the forest: a save plants a   *)
(* leaf, a delete fells a subtree, assignments and removals of things      *)
(* change who belongs to what, and an update changes nothing of it.        *)
THEOREM RepositoriesAreForests == GroupsSpec => ImplementsForest
<1>1. GroupsInv /\ GroupsInv' /\ [GroupsNext]_groupsVars => [F!ForestNext]_(F!forestVars)
    BY StepsAsForest
<1>2. QED
    BY <1>1, StartsAsForest, GroupsInvariant, PTL
       DEF GroupsSpec, ImplementsForest, F!ForestSpec

-----------------------------------------------------------------------------
(* Paths and ancestors.  Ways up are followed from below: n + 1 levels up  *)
(* from h is n levels up from its parent.                                  *)
LEMMA RisesZero ==
    ASSUME NEW f, NEW h \in DOMAIN f, NEW g
    PROVE  F!Rises(f, h, g, 0) <=> g = h
<1>1. ASSUME g = h PROVE F!Rises(f, h, g, 0)
  <2> DEFINE way == [i \in 0..0 |-> h]
  <2>1. way \in [0..0 -> DOMAIN f] /\ way[0] = h /\ 0..0 - 1 = {}
      OBVIOUS
  <2> HIDE DEF way
  <2>2. \A i \in 0..0 - 1 : f[way[i]] = way[i + 1]
      BY <2>1
  <2>3. QED
      BY <1>1, <2>1, <2>2 DEF F!Rises
<1>2. QED
    BY <1>1 DEF F!Rises

LEMMA RisesUp ==
    ASSUME NEW f, NEW h \in DOMAIN f, NEW g, NEW n \in Nat
    PROVE  F!Rises(f, h, g, n + 1) <=> f[h] \in DOMAIN f /\ F!Rises(f, f[h], g, n)
<1>1. ASSUME F!Rises(f, h, g, n + 1) PROVE f[h] \in DOMAIN f /\ F!Rises(f, f[h], g, n)
  <2>0. (n + 1) - 1 = n
      OBVIOUS
  <2>1. PICK way \in [0..n + 1 -> DOMAIN f] :
           way[0] = h /\ way[n + 1] = g /\ \A i \in 0..n : f[way[i]] = way[i + 1]
      BY <1>1, <2>0, Zenon DEF F!Rises
  <2> DEFINE rest == [i \in 0..n |-> way[i + 1]]
  <2>2. rest \in [0..n -> DOMAIN f]
      OBVIOUS
  <2>3. rest[0] = f[h] /\ rest[n] = g /\ f[h] \in DOMAIN f
      BY <2>1
  <2>4. \A i \in 0..n - 1 : f[rest[i]] = rest[i + 1]
      BY <2>1
  <2>5. QED
      BY <2>2, <2>3, <2>4 DEF F!Rises
<1>2. ASSUME f[h] \in DOMAIN f, F!Rises(f, f[h], g, n) PROVE F!Rises(f, h, g, n + 1)
  <2>1. PICK rest \in [0..n -> DOMAIN f] :
           rest[0] = f[h] /\ rest[n] = g /\ \A i \in 0..n - 1 : f[rest[i]] = rest[i + 1]
      BY <1>2 DEF F!Rises
  <2> DEFINE way == [i \in 0..n + 1 |-> IF i = 0 THEN h ELSE rest[i - 1]]
  <2>2. way \in [0..n + 1 -> DOMAIN f]
    <3>1. \A i \in 0..n + 1 : i # 0 => i - 1 \in 0..n
        OBVIOUS
    <3>2. QED
        BY <3>1
  <2>3. way[0] = h /\ way[n + 1] = g
      BY <2>1
  <2>4. \A i \in 0..n : f[way[i]] = way[i + 1]
    <3> SUFFICES ASSUME NEW i \in 0..n PROVE f[way[i]] = way[i + 1]
        OBVIOUS
    <3>1. CASE i = 0
        BY <2>1, <3>1
    <3>2. CASE i # 0
      <4>1. i - 1 \in 0..n - 1 /\ (i - 1) + 1 = i /\ (i + 1) - 1 = i
          BY <3>2
      <4>2. way[i] = rest[i - 1] /\ way[i + 1] = rest[i]
          BY <3>2, <4>1
      <4>3. QED
          BY <2>1, <4>1, <4>2
    <3>3. QED
        BY <3>1, <3>2
  <2>5. (n + 1) - 1 = n
      OBVIOUS
  <2>6. QED
      BY <2>2, <2>3, <2>4, <2>5 DEF F!Rises
<1>3. QED
    BY <1>1, <1>2

(* What holds of some number holds of a least one.                         *)
LEMMA LeastOf ==
    ASSUME NEW S \in SUBSET Nat, S # {}
    PROVE  \E n \in S : \A m \in S : n <= m
<1>1. PICK n \in S : \A m \in S : ~(<<m, n>> \in OpToRel(<, Nat))
    BY NatLessThanWellFounded, WFMin
<1>2. \A m \in S : ~(m < n)
    BY <1>1 DEF OpToRel
<1>3. \A m \in S : n <= m
    BY <1>2
<1>4. QED
    BY <1>3

(* The path of a group, given its parent's.                                *)
LEMMA PathStep ==
    ASSUME GroupsInv, repo # "users", NEW h \in DOMAIN groups
    PROVE  /\ groups[h].path \in Seq(GroupIDs \cup Names)
           /\ groups[h].path # <<>>
           /\ repo = "things" => groups[h].path[Len(groups[h].path)] = h
           /\ parent[h] = NoGroup => Len(groups[h].path) = 1
           /\ parent[h] # NoGroup =>
                 /\ parent[h] \in DOMAIN groups
                 /\ Len(groups[h].path) = Len(groups[parent[h]].path) + 1
                 /\ \A i \in 1..Len(groups[parent[h]].path) :
                       groups[h].path[i] = groups[parent[h]].path[i]
<1> DEFINE p == parent[h]
           above == IF p = NoGroup THEN <<>> ELSE groups[p].path
<1>1. p = groups[h].parent /\ (p = NoGroup \/ p \in DOMAIN groups)
    BY DEF parent, GroupsInv, GroupIntegrity
<1>2. above \in Seq(GroupIDs \cup Names) /\ Label(h) \in GroupIDs \cup Names
    BY <1>1 DEF GroupsInv, GroupsTypeOK, Group, Label
<1>3. groups[h].path = Append(above, Label(h))
    BY <1>1 DEF GroupsInv, PathsGrow, NewPath
<1>4. repo = "things" => Label(h) = h
    BY DEF Label
<1> HIDE DEF p
<1>5. /\ groups[h].path \in Seq(GroupIDs \cup Names)
      /\ Len(groups[h].path) = Len(above) + 1
      /\ groups[h].path[Len(above) + 1] = Label(h)
      /\ \A i \in 1..Len(above) : groups[h].path[i] = above[i]
      /\ Len(above) \in Nat
  <2> HIDE DEF above
  <2>1. QED
      BY <1>2, <1>3
<1>6. QED
    BY <1>1, <1>4, <1>5 DEF p

IsAbove(g, h, n) ==
    IsPrefix(groups[g].path, groups[h].path) /\ Len(groups[h].path) = Len(groups[g].path) + n

(* IsPrefix by elements.                                                   *)
LEMMA PrefixByElements ==
    ASSUME GroupsInv, repo # "users", NEW g \in DOMAIN groups, NEW h \in DOMAIN groups
    PROVE  IsPrefix(groups[g].path, groups[h].path) <=>
              /\ Len(groups[g].path) <= Len(groups[h].path)
              /\ \A i \in 1..Len(groups[g].path) : groups[h].path[i] = groups[g].path[i]
<1> DEFINE p == groups[g].path
           q == groups[h].path
           T == GroupIDs \cup Names
<1>1. p \in Seq(T) /\ q \in Seq(T)
    BY PathStep
<1> HIDE DEF p, q, T
<1>2. (Len(p) <= Len(q) /\ SubSeq(q, 1, Len(p)) = p)
         <=> (Len(p) <= Len(q) /\ \A i \in 1..Len(p) : q[i] = p[i])
  <2>1. Len(p) \in Nat /\ Len(q) \in Nat
      BY <1>1
  <2>2. ASSUME Len(p) <= Len(q)
        PROVE  /\ SubSeq(q, 1, Len(p)) \in Seq(T) /\ Len(SubSeq(q, 1, Len(p))) = Len(p)
               /\ \A i \in 1..Len(p) : SubSeq(q, 1, Len(p))[i] = q[i]
      BY <1>1, <2>1, <2>2
  <2>3. QED
      BY <1>1, <2>1, <2>2
<1>3. QED
    BY <1>2 DEF IsPrefix, p, q

(* A group's path is a prefix of those of the groups below it, and shorter *)
(* by as many labels as there are levels between.                          *)
LEMMA RisesIsPrefix ==
    ASSUME GroupsInv, repo # "users"
    PROVE  \A n \in Nat : \A g, h \in DOMAIN groups : F!Rises(parent, h, g, n) => IsAbove(g, h, n)
<1> DEFINE Bad == {n \in Nat : \E g, h \in DOMAIN groups :
                      F!Rises(parent, h, g, n) /\ ~IsAbove(g, h, n)}
<1>1. SUFFICES ASSUME Bad # {} PROVE FALSE
    OBVIOUS
<1>2. PICK n \in Bad : \A m \in Bad : n <= m
    BY <1>1, LeastOf
<1>3. PICK g \in DOMAIN groups, h \in DOMAIN groups : F!Rises(parent, h, g, n) /\ ~IsAbove(g, h, n)
    OBVIOUS
<1>4. DOMAIN parent = DOMAIN groups
    BY DEF parent
<1>5. n # 0
  <2> SUFFICES ASSUME n = 0 PROVE FALSE
      OBVIOUS
  <2>1. g = h
      BY <1>3, <1>4, RisesZero
  <2>2. Len(groups[h].path) \in Nat
      BY PathStep
  <2>3. IsAbove(g, h, 0)
      BY <2>1, <2>2, PrefixByElements DEF IsAbove
  <2>4. QED
      BY <1>3, <2>3
<1>6. n \in Nat /\ n - 1 \in Nat /\ (n - 1) + 1 = n /\ n - 1 \notin Bad
    BY <1>2, <1>5
<1>7. parent[h] \in DOMAIN groups /\ F!Rises(parent, parent[h], g, n - 1)
    BY <1>3, <1>4, <1>6, RisesUp
<1>8. IsAbove(g, parent[h], n - 1)
    BY <1>6, <1>7
<1> HIDE DEF Bad
<1>9. parent[h] # NoGroup
    BY <1>7 DEF GroupsInv, GroupsTypeOK
<1>10. IsAbove(g, h, n)
  <2> DEFINE q == parent[h]
  <2>1. /\ Len(groups[g].path) \in Nat /\ Len(groups[q].path) \in Nat
        /\ Len(groups[h].path) = Len(groups[q].path) + 1
        /\ \A i \in 1..Len(groups[q].path) : groups[h].path[i] = groups[q].path[i]
      BY <1>7, <1>9, PathStep
  <2>2. /\ Len(groups[q].path) = Len(groups[g].path) + (n - 1)
        /\ \A i \in 1..Len(groups[g].path) : groups[q].path[i] = groups[g].path[i]
      BY <1>7, <1>8, PrefixByElements DEF IsAbove
  <2> HIDE DEF q
  <2>3. /\ Len(groups[h].path) = Len(groups[g].path) + n
        /\ Len(groups[g].path) <= Len(groups[h].path)
        /\ \A i \in 1..Len(groups[g].path) : groups[h].path[i] = groups[g].path[i]
      BY <1>6, <2>1, <2>2
  <2>4. QED
      BY <2>3, PrefixByElements DEF IsAbove
<1>11. QED
    BY <1>3, <1>10

(* Paths of ids name the groups above, so that a prefix is an ancestor.    *)
LEMMA PrefixRises ==
    ASSUME GroupsInv, repo = "things"
    PROVE  \A n \in Nat : \A g, h \in DOMAIN groups : IsAbove(g, h, n) => F!Rises(parent, h, g, n)
<1> DEFINE Bad == {n \in Nat : \E g, h \in DOMAIN groups :
                      IsAbove(g, h, n) /\ ~F!Rises(parent, h, g, n)}
<1>1. SUFFICES ASSUME Bad # {} PROVE FALSE
    OBVIOUS
<1>2. PICK n \in Bad : \A m \in Bad : n <= m
    BY <1>1, LeastOf
<1>3. PICK g \in DOMAIN groups, h \in DOMAIN groups : IsAbove(g, h, n) /\ ~F!Rises(parent, h, g, n)
    OBVIOUS
<1>4. DOMAIN parent = DOMAIN groups
    BY DEF parent
<1> DEFINE pg == groups[g].path
           ph == groups[h].path
<1>5. /\ Len(pg) \in Nat \ {0} /\ Len(ph) \in Nat \ {0}
      /\ pg[Len(pg)] = g /\ ph[Len(ph)] = h
    BY PathStep
<1>6. /\ Len(ph) = Len(pg) + n
      /\ \A i \in 1..Len(pg) : ph[i] = pg[i]
    BY <1>3, PrefixByElements DEF IsAbove
<1>7. n # 0
  <2> SUFFICES ASSUME n = 0 PROVE FALSE
      OBVIOUS
  <2>1. g = h
      BY <1>5, <1>6
  <2>2. QED
      BY <1>3, <1>4, <2>1, RisesZero
<1>8. n - 1 \in Nat /\ (n - 1) + 1 = n /\ n - 1 \notin Bad
    BY <1>2, <1>7
<1>9. parent[h] # NoGroup
    BY <1>5, <1>6, <1>7, PathStep
<1> DEFINE q == parent[h]
<1>10. /\ q \in DOMAIN groups /\ Len(groups[q].path) \in Nat
       /\ Len(ph) = Len(groups[q].path) + 1
       /\ \A i \in 1..Len(groups[q].path) : ph[i] = groups[q].path[i]
    BY <1>9, PathStep
<1>11. IsAbove(g, q, n - 1)
  <2>1. /\ Len(groups[q].path) = Len(pg) + (n - 1) /\ Len(pg) <= Len(groups[q].path)
        /\ \A i \in 1..Len(pg) : groups[q].path[i] = pg[i]
      BY <1>5, <1>6, <1>8, <1>10
  <2>2. QED
      BY <1>10, <2>1, PrefixByElements DEF IsAbove
<1>12. F!Rises(parent, q, g, n - 1)
    BY <1>8, <1>10, <1>11
<1>13. F!Rises(parent, h, g, n)
    BY <1>4, <1>8, <1>10, <1>12, RisesUp
<1>14. QED
    BY <1>3, <1>13

-----------------------------------------------------------------------------
(* A way up meets no group twice, so it has fewer steps than there are     *)
(* groups.                                                                 *)
LEMMA WaysAreShort ==
    ASSUME GroupsInv, NEW g, NEW h, NEW n \in Nat, F!Rises(parent, h, g, n)
    PROVE  n <= Cardinality(GroupIDs)
<1>1. DOMAIN parent = DOMAIN groups /\ DOMAIN groups \subseteq GroupIDs
    BY DEF parent, GroupsInv, GroupsTypeOK
<1>2. PICK way \in [0..n -> DOMAIN groups] : \A i \in 0..n - 1 : parent[way[i]] = way[i + 1]
    BY <1>1 DEF F!Rises
<1>3. Cardinality(GroupIDs) \in Nat
    BY FS_CardinalityType
<1>4. SUFFICES ASSUME Cardinality(GroupIDs) < n PROVE FALSE
    BY <1>3
<1>5. IsFiniteSet(0..n) /\ Cardinality(0..n) = n + 1
    BY FS_Interval
<1>6. PICK i \in 0..n, j \in 0..n : i < j /\ way[i] = way[j]
  <2>1. way \in [0..n -> GroupIDs]
      BY <1>1
  <2>2. PICK x \in 0..n, y \in 0..n : x # y /\ way[x] = way[y]
      BY <1>3, <1>4, <1>5, <2>1, FS_PigeonHole
  <2>3. x < y \/ y < x
      BY <2>2
  <2>4. QED
      BY <2>2, <2>3
<1> DEFINE S == {way[k] : k \in i..j - 1}
<1>7. S \in SUBSET DOMAIN groups /\ S # {}
    BY <1>6
<1>8. \A k \in i..j - 1 : groups[way[k]].parent \in S
  <2> SUFFICES ASSUME NEW k \in i..j - 1 PROVE groups[way[k]].parent \in S
      OBVIOUS
  <2>1. groups[way[k]].parent = way[k + 1]
      BY <1>2 DEF parent
  <2>2. CASE k + 1 = j
      BY <1>6, <2>1, <2>2
  <2>3. CASE k + 1 # j
      BY <1>6, <2>1, <2>3
  <2>4. QED
      BY <2>2, <2>3
<1>9. QED
    BY <1>7, <1>8 DEF GroupsInv, Acyclic

(* The subtree of a group is what is any number of levels below it.        *)
LEMMA SubtreeByLevels ==
    ASSUME GroupsInv, NEW g \in DOMAIN groups
    PROVE  F!Below(parent, g, Cardinality(GroupIDs)) = F!Subtree(parent, g)
<1> DEFINE T == {h \in DOMAIN groups : \E n \in Nat : F!Rises(parent, h, g, n)}
<1>1. DOMAIN parent = DOMAIN groups /\ Cardinality(GroupIDs) \in Nat
    BY FS_CardinalityType DEF parent
<1>2. F!Below(parent, g, Cardinality(GroupIDs)) = T
    BY <1>1, WaysAreShort DEF F!Below
<1>3. g \in T
    BY <1>1, RisesZero
<1>4. \A h \in DOMAIN groups : parent[h] \in T => h \in T
  <2> SUFFICES ASSUME NEW h \in DOMAIN groups, parent[h] \in T PROVE h \in T
      OBVIOUS
  <2>1. PICK n \in Nat : F!Rises(parent, parent[h], g, n)
      OBVIOUS
  <2>2. n + 1 \in Nat /\ F!Rises(parent, h, g, n + 1)
      BY <1>1, <2>1, RisesUp
  <2>3. QED
      BY <2>2
<1>5. F!Subtree(parent, g) \subseteq T
    BY <1>1, <1>3, <1>4 DEF F!Subtree, F!HasChildren
<1>6. T \subseteq F!Subtree(parent, g)
  <2> DEFINE Bad == {n \in Nat : \E h \in DOMAIN groups :
                        F!Rises(parent, h, g, n) /\ h \notin F!Subtree(parent, g)}
  <2>1. SUFFICES ASSUME Bad # {} PROVE FALSE
      OBVIOUS
  <2>2. PICK n \in Bad : \A m \in Bad : n <= m
      BY <2>1, LeastOf
  <2>3. PICK h \in DOMAIN groups : F!Rises(parent, h, g, n) /\ h \notin F!Subtree(parent, g)
      OBVIOUS
  <2>4. n # 0
      BY <1>1, <2>3, RisesZero, SubtreeClosed
  <2>5. n - 1 \in Nat /\ (n - 1) + 1 = n /\ n - 1 \notin Bad
      BY <2>2, <2>4
  <2>6. parent[h] \in DOMAIN groups /\ F!Rises(parent, parent[h], g, n - 1)
      BY <1>1, <2>3, <2>5, RisesUp
  <2>7. parent[h] \in F!Subtree(parent, g)
      BY <2>5, <2>6
  <2>8. QED
      BY <1>1, <2>3, <2>7, SubtreeClosed
<1>7. QED
    BY <1>2, <1>5, <1>6

LEMMA PathsTrue == GroupsInv => PathsSpellAncestors
<1> SUFFICES ASSUME GroupsInv, NEW g \in DOMAIN groups, NEW level \in Levels
             PROVE
        /\ repo = "things" =>
              /\ ThingsRetrieveAllChildren(g, level) = F!Below(parent, g, Capped(level))
              /\ ThingsRetrieveAllParents(g, level) = F!Above(parent, g, Capped(level))
        /\ repo = "users" => UsersRetrieveAllWithAncestors(g) = F!Subtree(parent, g)
        /\ repo = "auth" =>
              /\ AuthRetrieveAllChildren(g, level) # ScanFails =>
                    F!Below(parent, g, Capped(level)) \subseteq AuthRetrieveAllChildren(g, level)
              /\ AuthRetrieveAllParents(g, level) # ScanFails =>
                    F!Above(parent, g, Capped(level)) \subseteq AuthRetrieveAllParents(g, level)
    BY DEF PathsSpellAncestors
<1>1. DOMAIN parent = DOMAIN groups /\ Capped(level) \in Nat
    BY DEF parent, Capped
<1>2. ASSUME repo # "users"
      PROVE  /\ PathBelow(g, level) =
                   {h \in DOMAIN groups : \E n \in 0..Capped(level) : IsAbove(g, h, n)}
             /\ PathAbove(g, level) =
                   {h \in DOMAIN groups : \E n \in 0..Capped(level) : IsAbove(h, g, n)}
  <2>1. \A h \in DOMAIN groups : Len(groups[h].path) \in Nat
      BY <1>2, PathStep
  <2>2. \A h, k \in DOMAIN groups :
           IsPrefix(groups[h].path, groups[k].path)
              /\ Len(groups[k].path) - Len(groups[h].path) <= Capped(level)
           <=> \E n \in 0..Capped(level) : IsAbove(h, k, n)
    <3> SUFFICES ASSUME NEW h \in DOMAIN groups, NEW k \in DOMAIN groups
                 PROVE  IsPrefix(groups[h].path, groups[k].path)
                           /\ Len(groups[k].path) - Len(groups[h].path) <= Capped(level)
                        <=> \E n \in 0..Capped(level) : IsAbove(h, k, n)
        OBVIOUS
    <3>1. PICK a \in Nat, b \in Nat : a = Len(groups[h].path) /\ b = Len(groups[k].path)
        BY <2>1
    <3>2. IsPrefix(groups[h].path, groups[k].path) => a <= b
        BY <3>1 DEF IsPrefix
    <3>3. \A n : IsAbove(h, k, n) <=> IsPrefix(groups[h].path, groups[k].path) /\ b = a + n
        BY <3>1 DEF IsAbove
    <3>4. a <= b /\ b - a <= Capped(level) <=> \E n \in 0..Capped(level) : b = a + n
      <4>1. ASSUME a <= b, b - a <= Capped(level) PROVE \E n \in 0..Capped(level) : b = a + n
        <5>1. b - a \in 0..Capped(level) /\ b = a + (b - a)
            BY <1>1, <4>1
        <5>2. QED
            BY <5>1
      <4>2. QED
          BY <1>1, <4>1
    <3>5. QED
        BY <3>1, <3>2, <3>3, <3>4
  <2>3. QED
      BY <2>2 DEF PathBelow, PathAbove
<1>3. ASSUME repo # "users"
      PROVE  /\ F!Below(parent, g, Capped(level)) \subseteq PathBelow(g, level)
             /\ F!Above(parent, g, Capped(level)) \subseteq PathAbove(g, level)
    BY <1>1, <1>2, <1>3, RisesIsPrefix DEF F!Below, F!Above
<1>4. ASSUME repo = "things"
      PROVE  /\ PathBelow(g, level) \subseteq F!Below(parent, g, Capped(level))
             /\ PathAbove(g, level) \subseteq F!Above(parent, g, Capped(level))
    BY <1>1, <1>2, <1>4, PrefixRises DEF F!Below, F!Above
<1>5. g # NoGroup
    BY DEF GroupsInv, GroupsTypeOK
<1>6. QED
    BY <1>3, <1>4, <1>5, SubtreeByLevels
       DEF ThingsRetrieveAllChildren, ThingsRetrieveAllParents, UsersRetrieveAllWithAncestors,
           AuthRetrieveAllChildren, AuthRetrieveAllParents, Scanned

(* The lists of children and parents that things' groups take by comparing *)
(* paths, and the recursive query of users' groups, return what the parent *)
(* ids say; those of auth's groups miss nobody.                            *)
THEOREM PathsAreAncestors == GroupsSpec => []PathsSpellAncestors
BY PathsTrue, GroupsInvariant, PTL
=============================================================================
