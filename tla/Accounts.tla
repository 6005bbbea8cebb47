------------------------------ MODULE Accounts ------------------------------
(***************************************************************************)
(* One account of the identity module and its sessions: registration,      *)
(* validation and suspension by the back office, login, logout, password   *)
(* reset.                                                                  *)
(*                                                                         *)
(* An account is a row of users, read and rewritten whole by a database    *)
(* transaction: User has no version column, and an UPDATE writes every     *)
(* column the entity was read with.  A session is a Redis key, listed in   *)
(* the set user:sessions:<id> that a revocation goes through; Redis takes  *)
(* no part in the transactions.                                            *)
(***************************************************************************)
EXTENDS Naturals

CONSTANTS
    Threads,     \* request threads
    Tokens,      \* session tokens, each generated once
    NoToken,
    Links,       \* password reset links
    NoLink,
    Passwords,   \* passwords of the account
    SetExpires   \* TRUE iff user:sessions:<id> may reach its time to live

ASSUME AccountConstants ==
    /\ NoToken \notin Tokens
    /\ NoLink \notin Links
    /\ Passwords # {}
    /\ SetExpires \in BOOLEAN

VARIABLES
    account,     \* the committed row: status and password
    links,       \* password_reset_token rows
    sessions,    \* session:<token> keys present in Redis
    index,       \* the set user:sessions:<id>
    request,     \* what each request thread is doing
    opened,      \* tokens generated so far
    issued,      \* tokens whose login has returned
    overlapped   \* tokens whose login overlapped a revocation, or the
                 \* expiry of the set

redisVars == <<sessions, index>>
historyVars == <<opened, issued, overlapped>>
vars == <<account, links, redisVars, request, historyVars>>

Status == {"ABSENT", "PENDING", "ACTIVE", "SUSPENDED", "CLOSED"}

Account == [status : Status, password : Passwords]

Steps == {"idle",
          "opening", "stored", "tracked",    \* login
          "closing",                         \* logout
          "modified", "revoking", "saving"}  \* a transaction on the account

Request ==
    [step : Steps,
     token : Tokens \union {NoToken},  \* the session it opens or closes
     link : Links \union {NoLink},     \* the reset link it uses
     entity : Account,                 \* the row its transaction will write
     dirty : BOOLEAN,                  \* FALSE iff it is the row it has read
     members : SUBSET Tokens,          \* tokens of the set it has still to delete
     known : SUBSET Tokens]            \* sessions issued when it read the set

NoRequest ==
    [step |-> "idle", token |-> NoToken, link |-> NoLink,
     entity |-> [status |-> "ABSENT", password |-> CHOOSE p \in Passwords : TRUE],
     dirty |-> FALSE, members |-> {}, known |-> {}]

TypeOK ==
    /\ account \in Account
    /\ links \in [Links -> {"none", "valid", "expired", "used"}]
    /\ request \in [Threads -> Request]
    /\ opened \subseteq Tokens
    /\ sessions \subseteq opened
    /\ index \subseteq opened
    /\ issued \subseteq opened
    /\ overlapped \subseteq opened

Init ==
    /\ account \in [status : {"ABSENT"}, password : Passwords]
    /\ links = [r \in Links |-> "none"]
    /\ sessions = {}
    /\ index = {}
    /\ request = [t \in Threads |-> NoRequest]
    /\ opened = {}
    /\ issued = {}
    /\ overlapped = {}

-----------------------------------------------------------------------------

At(t, step) == request[t].step = step

Goto(t, step) == request' = [request EXCEPT ![t].step = step]

End(t) == request' = [request EXCEPT ![t] = NoRequest]

(* RegistrationService.register: the UNIQUE constraint on email lets one   *)
(* of several concurrent registrations insert the row.                     *)
Register(t, p) ==
    /\ At(t, "idle")
    /\ account.status = "ABSENT"
    /\ account' = [status |-> "PENDING", password |-> p]
    /\ UNCHANGED <<links, redisVars, request, historyVars>>

-----------------------------------------------------------------------------
(* Sessions. *)

LoggingIn == {t \in Threads : request[t].step \in {"opening", "stored", "tracked"}}

Revoking == {t \in Threads : At(t, "revoking")}

(* login: the password matches, the account is neither PENDING nor         *)
(* SUSPENDED; createSession generates a token.                             *)
Login(t, p, k) ==
    /\ At(t, "idle")
    /\ account.status \notin {"ABSENT", "PENDING", "SUSPENDED"}
    /\ account.password = p
    /\ k \notin opened
    /\ opened' = opened \union {k}
    /\ overlapped' = IF Revoking = {} THEN overlapped ELSE overlapped \union {k}
    /\ request' = [request EXCEPT ![t].step = "opening", ![t].token = k]
    /\ UNCHANGED <<account, links, redisVars, issued>>

(* createSession: SET of the session. *)
StoreSession(t) ==
    /\ At(t, "opening")
    /\ sessions' = sessions \union {request[t].token}
    /\ Goto(t, "stored")
    /\ UNCHANGED <<account, links, index, historyVars>>

(* Mutant: the set is replaced by its newest member. *)
TrackNewest(t) ==
    /\ At(t, "stored")
    /\ index' = {request[t].token}
    /\ Goto(t, "tracked")
    /\ UNCHANGED <<account, links, sessions, historyVars>>

(* createSession: SADD. *)
TrackSession(t) ==
    /\ At(t, "stored")
    /\ index' = index \union {request[t].token}
    /\ Goto(t, "tracked")
    /\ UNCHANGED <<account, links, sessions, historyVars>>

(* Mutant: the token is read after the request was cleared. *)
AnswerCleared(t) ==
    /\ At(t, "tracked")
    /\ End(t)
    /\ issued' = issued \union {request'[t].token}
    /\ UNCHANGED <<account, links, redisVars, opened, overlapped>>

(* createSession: EXPIRE of the set, and the answer with the cookie. *)
AnswerLogin(t) ==
    /\ At(t, "tracked")
    /\ issued' = issued \union {request[t].token}
    /\ End(t)
    /\ UNCHANGED <<account, links, redisVars, opened, overlapped>>

(* invalidateSession: GET, DEL. *)
Logout(t, k) ==
    /\ At(t, "idle")
    /\ k \in issued \intersect sessions
    /\ sessions' = sessions \ {k}
    /\ request' = [request EXCEPT ![t].step = "closing", ![t].token = k]
    /\ UNCHANGED <<account, links, index, historyVars>>

(* invalidateSession: SREM. *)
UntrackSession(t) ==
    /\ At(t, "closing")
    /\ index' = index \ {request[t].token}
    /\ End(t)
    /\ UNCHANGED <<account, links, sessions, historyVars>>

(* A session reaches its time to live. *)
ExpireSession(k) ==
    /\ k \in sessions
    /\ sessions' = sessions \ {k}
    /\ UNCHANGED <<account, links, index, request, historyVars>>

(* The set expires no sooner than the sessions it was last extended for;   *)
(* a login between SADD and EXPIRE comes too late to keep it.              *)
ExpireIndex ==
    /\ SetExpires
    /\ index \intersect issued # {}
    /\ index \intersect issued \intersect sessions = {}
    /\ index' = {}
    /\ overlapped' = overlapped \union {request[t].token : t \in LoggingIn}
    /\ UNCHANGED <<account, links, sessions, request, opened, issued>>

-----------------------------------------------------------------------------
(* Transactions on the account. *)

Modify(t, step, new, r) ==
    request' = [request EXCEPT
        ![t].step = step,
        ![t].entity = new,
        ![t].dirty = new # account \/ r # NoLink,
        ![t].link = r]

(* validateAccount: APPROVE activates, REJECT closes, a PENDING account. *)
Validate(t, decision) ==
    /\ At(t, "idle")
    /\ account.status = "PENDING"
    /\ Modify(t, "saving", [account EXCEPT !.status = decision], NoLink)
    /\ UNCHANGED <<account, links, redisVars, historyVars>>

(* suspendAccount, whatever the status. *)
Suspend(t) ==
    /\ At(t, "idle")
    /\ account.status # "ABSENT"
    /\ Modify(t, "modified", [account EXCEPT !.status = "SUSPENDED"], NoLink)
    /\ UNCHANGED <<account, links, redisVars, historyVars>>

(* requestPasswordReset. *)
RequestReset(t, r) ==
    /\ At(t, "idle")
    /\ account.status # "ABSENT"
    /\ links[r] = "none"
    /\ links' = [links EXCEPT ![r] = "valid"]
    /\ UNCHANGED <<account, redisVars, request, historyVars>>

(* A link is valid for an hour. *)
ExpireLink(r) ==
    /\ links[r] = "valid"
    /\ links' = [links EXCEPT ![r] = "expired"]
    /\ UNCHANGED <<account, redisVars, request, historyVars>>

(* resetPassword, with a link that is neither used nor expired. *)
ResetPassword(t, r, p) ==
    /\ At(t, "idle")
    /\ links[r] = "valid"
    /\ Modify(t, "modified", [account EXCEPT !.password = p], r)
    /\ UNCHANGED <<account, links, redisVars, historyVars>>

(* invalidateAllUserSessions: SMEMBERS. *)
ReadSessions(t) ==
    /\ At(t, "modified")
    /\ request' = [request EXCEPT
           ![t].step = "revoking", ![t].members = index, ![t].known = issued]
    /\ overlapped' = overlapped \union {request[u].token : u \in LoggingIn}
    /\ UNCHANGED <<account, links, redisVars, opened, issued>>

(* invalidateAllUserSessions: DEL of one session. *)
DeleteSession(t) ==
    /\ At(t, "revoking")
    /\ \E k \in request[t].members :
           /\ sessions' = sessions \ {k}
           /\ request' = [request EXCEPT ![t].members = @ \ {k}]
    /\ UNCHANGED <<account, links, index, historyVars>>

(* Mutant: the set is deleted before the sessions it lists. *)
DeleteIndexFirst(t) ==
    /\ At(t, "revoking")
    /\ index' = {}
    /\ Goto(t, "saving")
    /\ UNCHANGED <<account, links, sessions, historyVars>>

(* invalidateAllUserSessions: DEL of the set. *)
DeleteIndex(t) ==
    /\ At(t, "revoking")
    /\ request[t].members = {}
    /\ index' = {}
    /\ Goto(t, "saving")
    /\ UNCHANGED <<account, links, sessions, historyVars>>

(* The transaction commits, after the sessions were revoked. *)
Commit(t) ==
    LET r == request[t].link IN
    /\ At(t, "saving")
    /\ account' = IF request[t].dirty THEN request[t].entity ELSE account
    /\ links' = IF r = NoLink THEN links ELSE [links EXCEPT ![r] = "used"]
    /\ End(t)
    /\ UNCHANGED <<redisVars, historyVars>>

(* The request dies, or its transaction rolls back. *)
Abort(t) ==
    /\ ~At(t, "idle")
    /\ End(t)
    /\ UNCHANGED <<account, links, redisVars, historyVars>>

-----------------------------------------------------------------------------

Next ==
    \/ ExpireIndex
    \/ \E k \in Tokens : ExpireSession(k)
    \/ \E r \in Links : ExpireLink(r)
    \/ \E t \in Threads :
           \/ \E p \in Passwords : Register(t, p)
           \/ \E p \in Passwords, k \in Tokens : Login(t, p, k)
           \/ StoreSession(t)
           \/ TrackSession(t)
           \/ AnswerLogin(t)
           \/ \E k \in Tokens : Logout(t, k)
           \/ UntrackSession(t)
           \/ \E d \in {"ACTIVE", "CLOSED"} : Validate(t, d)
           \/ Suspend(t)
           \/ \E r \in Links : RequestReset(t, r)
           \/ \E r \in Links, p \in Passwords : ResetPassword(t, r, p)
           \/ ReadSessions(t)
           \/ DeleteSession(t)
           \/ DeleteIndex(t)
           \/ Commit(t)
           \/ Abort(t)

Spec == Init /\ [][Next]_vars

-----------------------------------------------------------------------------

Live == sessions \intersect issued

(* user:sessions:<id> lists every session a user holds, so a revocation    *)
(* can find it, unless its login overlapped another revocation or the      *)
(* expiry of the set.                                                      *)
LiveIsTracked == Live \ overlapped \subseteq index

(* When a suspension or a reset has revoked the sessions, none of those    *)
(* issued before it began is left, whatever other logins, logouts and      *)
(* revocations go on, unless an overlap had hidden it from the set.        *)
RevocationIsComplete ==
    \A t \in Threads :
        At(t, "saving") => request[t].known \intersect sessions \subseteq overlapped

(* "Suspension d'un compte : toutes ses sessions actives sont révoquées    *)
(* sur-le-champ": a suspended account has no session.                      *)
SuspendedHasNoSession == account.status = "SUSPENDED" => Live = {}

(* "Jetons de réinitialisation de mot de passe (usage unique, durée 1h)":  *)
(* no reset commits with a link that another one has used.                 *)
LinkIsUsedOnce ==
    [][\A t \in Threads, r \in Links :
           request[t].link = r /\ Commit(t) => links[r] # "used"]_vars

(* "[...] suspendre des comptes, afin de maîtriser qui accède aux          *)
(* conditions commerciales": a suspension that was committed lasts, since  *)
(* no operation takes it back.                                             *)
SuspensionLasts ==
    [][account.status = "SUSPENDED" => account'.status = "SUSPENDED"]_vars
=============================================================================
