--------------------------- MODULE AccountsProofs ---------------------------
(***************************************************************************)
(* Proofs about Accounts, for any number of request threads, session       *)
(* tokens, reset links and passwords.                                      *)
(***************************************************************************)
EXTENDS Accounts, TLAPS

(* A login works on a token of its own, which no login has returned yet.   *)
TokensAreOwn ==
    /\ \A t \in LoggingIn : request[t].token \in opened \ issued
    /\ \A t, u \in LoggingIn : t # u => request[t].token # request[u].token

(* A logout ends a session that was issued and is no longer in Redis; the  *)
(* tokens of one opened meanwhile are others.                              *)
ClosedAreGone ==
    \A t \in Threads : At(t, "closing") => request[t].token \in issued \ sessions

Shape == TypeOK /\ TokensAreOwn /\ ClosedAreGone

(* A login past SADD left its token in the set, unless it overlapped.      *)
TrackedAreListed ==
    \A t \in Threads : At(t, "tracked") => request[t].token \in index \union overlapped

(* A revocation has still to delete every session that is not overlapped,  *)
(* and the logins under way are.                                           *)
RevocationsGoOn ==
    \A t \in Revoking :
        /\ Live \ overlapped \subseteq request[t].members
        /\ \A u \in LoggingIn : request[u].token \in overlapped

KnownAreIssued ==
    \A t \in Threads :
        /\ request[t].known \subseteq issued
        /\ request[t].step \notin {"revoking", "saving"} => request[t].known = {}

Safe ==
    /\ Shape
    /\ LiveIsTracked
    /\ TrackedAreListed
    /\ RevocationsGoOn
    /\ KnownAreIssued
    /\ RevocationIsComplete

-----------------------------------------------------------------------------

LEMMA RequestFields ==
    ASSUME TypeOK, NEW t \in Threads
    PROVE  /\ request[t].step \in Steps
           /\ request[t].token \in Tokens \union {NoToken}
           /\ request[t].link \in Links \union {NoLink}
           /\ request[t].entity \in Account
           /\ request[t].dirty \in BOOLEAN
           /\ request[t].members \subseteq Tokens
           /\ request[t].known \subseteq Tokens
  BY DEF TypeOK, Request

LEMMA NoRequestType == NoRequest \in Request
  BY AccountConstants DEF NoRequest, Request, Steps, Account, Status

LEMMA ShapeInit == Init => Shape
  <1> SUFFICES ASSUME Init PROVE Shape
    OBVIOUS
  <1>1. TypeOK
    BY NoRequestType DEF Init, TypeOK, Account, Status
  <1>2. \A t \in Threads : request[t].step = "idle"
    BY DEF Init, NoRequest
  <1> QED
    BY <1>1, <1>2 DEF Shape, TokensAreOwn, ClosedAreGone, LoggingIn, At

(* A step other than the thread's own leaves its request alone. *)
LEMMA OthersStay ==
    ASSUME TypeOK, NEW t \in Threads, NEW u \in Threads, t # u,
           \/ \E p \in Passwords : Register(t, p)
           \/ \E p \in Passwords, k \in Tokens : Login(t, p, k)
           \/ StoreSession(t)
           \/ TrackSession(t)
           \/ AnswerLogin(t)
           \/ \E k \in Tokens : Logout(t, k)
           \/ UntrackSession(t)
           \/ \E d \in {"ACTIVE", "CLOSED"} : Validate(t, d)
           \/ Suspend(t)
           \/ \E r \in Links : RequestReset(t, r)
           \/ \E r \in Links, p \in Passwords : ResetPassword(t, r, p)
           \/ ReadSessions(t)
           \/ DeleteSession(t)
           \/ DeleteIndex(t)
           \/ Commit(t)
           \/ Abort(t)
    PROVE  request'[u] = request[u]
  BY DEF TypeOK, Register, Login, StoreSession, TrackSession, AnswerLogin, Logout,
         UntrackSession, Validate, Suspend, RequestReset, ResetPassword, ReadSessions,
         DeleteSession, DeleteIndex, Commit, Abort, Modify, Goto, End

(* What a step does to the request of a thread. *)
LEMMA RequestType == TypeOK /\ [Next]_vars => request' \in [Threads -> Request]
  <1> SUFFICES ASSUME TypeOK, [Next]_vars PROVE request' \in [Threads -> Request]
    OBVIOUS
  <1>1. CASE request' = request
    BY <1>1 DEF TypeOK
  <1>2. ASSUME NEW t \in Threads, NEW r \in Request, request' = [request EXCEPT ![t] = r]
        PROVE  request' \in [Threads -> Request]
    BY <1>2 DEF TypeOK
  <1>3. ASSUME NEW t \in Threads, End(t)
        PROVE  request' \in [Threads -> Request]
    BY <1>2, <1>3, NoRequestType DEF End
  <1>4. ASSUME NEW t \in Threads, NEW s \in Steps, Goto(t, s)
        PROVE  request' \in [Threads -> Request]
    <2>1. request' = [request EXCEPT ![t] = [request[t] EXCEPT !.step = s]]
      BY <1>4 DEF Goto
    <2>2. [request[t] EXCEPT !.step = s] \in Request
      BY DEF TypeOK, Request
    <2> QED
      BY <1>2, <2>1, <2>2
  <1>5. ASSUME NEW t \in Threads, NEW s \in Steps, NEW k \in Tokens,
               request' = [request EXCEPT ![t].step = s, ![t].token = k]
        PROVE  request' \in [Threads -> Request]
    <2>1. request' = [request EXCEPT ![t] = [request[t] EXCEPT !.step = s, !.token = k]]
      BY <1>5 DEF TypeOK
    <2>2. [request[t] EXCEPT !.step = s, !.token = k] \in Request
      BY DEF TypeOK, Request
    <2> QED
      BY <1>2, <2>1, <2>2
  <1>6. ASSUME NEW t \in Threads, NEW s \in Steps, NEW a \in Account,
               NEW r \in Links \union {NoLink}, Modify(t, s, a, r)
        PROVE  request' \in [Threads -> Request]
    <2> DEFINE b == a # account \/ r # NoLink
    <2>1. request' = [request EXCEPT ![t] = [request[t] EXCEPT
              !.step = s, !.entity = a, !.dirty = b, !.link = r]]
      BY <1>6 DEF TypeOK, Modify
    <2>2. b \in BOOLEAN
      OBVIOUS
    <2> HIDE DEF b
    <2>3. [request[t] EXCEPT !.step = s, !.entity = a, !.dirty = b, !.link = r] \in Request
      BY <2>2 DEF TypeOK, Request
    <2> QED
      BY <1>2, <2>1, <2>3
  <1>7. ASSUME NEW t \in Threads, NEW d \in {"ACTIVE", "CLOSED"}, Validate(t, d)
        PROVE  request' \in [Threads -> Request]
    <2>1. [account EXCEPT !.status = d] \in Account /\ "saving" \in Steps
      BY DEF TypeOK, Account, Status, Steps
    <2> QED
      BY <1>6, <1>7, <2>1 DEF Validate
  <1>8. ASSUME NEW t \in Threads, Suspend(t)
        PROVE  request' \in [Threads -> Request]
    <2>1. [account EXCEPT !.status = "SUSPENDED"] \in Account /\ "modified" \in Steps
      BY DEF TypeOK, Account, Status, Steps
    <2> QED
      BY <1>6, <1>8, <2>1 DEF Suspend
  <1>9. ASSUME NEW t \in Threads, NEW r \in Links, NEW p \in Passwords, ResetPassword(t, r, p)
        PROVE  request' \in [Threads -> Request]
    <2>1. [account EXCEPT !.password = p] \in Account /\ "modified" \in Steps
      BY DEF TypeOK, Account, Steps
    <2> QED
      BY <1>6, <1>9, <2>1 DEF ResetPassword
  <1>10. ASSUME NEW t \in Threads, ReadSessions(t)
         PROVE  request' \in [Threads -> Request]
    <2>1. request' = [request EXCEPT ![t] = [request[t] EXCEPT
              !.step = "revoking", !.members = index, !.known = issued]]
      BY <1>10 DEF TypeOK, ReadSessions
    <2>2. index \in SUBSET Tokens /\ issued \in SUBSET Tokens /\ "revoking" \in Steps
      BY DEF TypeOK, Steps
    <2>3. [request[t] EXCEPT !.step = "revoking", !.members = index, !.known = issued]
              \in Request
      BY <2>2 DEF TypeOK, Request
    <2> QED
      BY <1>2, <2>1, <2>3
  <1>11. ASSUME NEW t \in Threads, DeleteSession(t)
         PROVE  request' \in [Threads -> Request]
    <2>1. PICK k : request' = [request EXCEPT ![t].members = @ \ {k}]
      BY <1>11 DEF DeleteSession
    <2>2. request' = [request EXCEPT ![t] = [request[t] EXCEPT
              !.members = request[t].members \ {k}]]
      BY <2>1 DEF TypeOK
    <2>3. request[t].members \ {k} \in SUBSET Tokens
      BY RequestFields
    <2>4. [request[t] EXCEPT !.members = request[t].members \ {k}] \in Request
      BY <2>3 DEF TypeOK, Request
    <2> QED
      BY <1>2, <2>2, <2>4
  <1>12. ASSUME NEW t \in Threads, NEW k \in Tokens,
                \/ \E p \in Passwords : Login(t, p, k)
                \/ Logout(t, k)
         PROVE  request' \in [Threads -> Request]
    <2>1. "opening" \in Steps /\ "closing" \in Steps
      BY DEF Steps
    <2> QED
      BY <1>5, <1>12, <2>1 DEF Login, Logout
  <1>13. ASSUME NEW t \in Threads,
                StoreSession(t) \/ TrackSession(t) \/ DeleteIndex(t)
         PROVE  request' \in [Threads -> Request]
    <2>1. "stored" \in Steps /\ "tracked" \in Steps /\ "saving" \in Steps
      BY DEF Steps
    <2> QED
      BY <1>4, <1>13, <2>1 DEF StoreSession, TrackSession, DeleteIndex
  <1>14. ASSUME NEW t \in Threads,
                AnswerLogin(t) \/ UntrackSession(t) \/ Commit(t) \/ Abort(t)
         PROVE  request' \in [Threads -> Request]
    BY <1>3, <1>14 DEF AnswerLogin, UntrackSession, Commit, Abort
  <1>15. ASSUME \/ ExpireIndex
                \/ \E k \in Tokens : ExpireSession(k)
                \/ \E r \in Links : ExpireLink(r)
                \/ \E t \in Threads, p \in Passwords : Register(t, p)
                \/ \E t \in Threads, r \in Links : RequestReset(t, r)
                \/ UNCHANGED vars
         PROVE  request' = request
    BY <1>15 DEF ExpireIndex, ExpireSession, ExpireLink, Register, RequestReset, vars
  <1> QED
    BY <1>1, <1>7, <1>8, <1>9, <1>10, <1>11, <1>12, <1>13, <1>14, <1>15 DEF Next

LEMMA AccountType == TypeOK /\ [Next]_vars => account' \in Account
  <1> SUFFICES ASSUME TypeOK, [Next]_vars PROVE account' \in Account
    OBVIOUS
  <1>1. CASE account' = account
    BY <1>1 DEF TypeOK
  <1>2. ASSUME NEW t \in Threads, NEW p \in Passwords, Register(t, p)
        PROVE  account' \in Account
    BY <1>2 DEF Register, Account, Status
  <1>3. ASSUME NEW t \in Threads, Commit(t)
        PROVE  account' \in Account
    BY <1>3, RequestFields DEF Commit, TypeOK
  <1> QED
    BY <1>1, <1>2, <1>3 DEF Next, vars, ExpireIndex, ExpireSession, ExpireLink, Login,
       StoreSession, TrackSession, AnswerLogin, Logout, UntrackSession, Validate, Suspend,
       RequestReset, ResetPassword, ReadSessions, DeleteSession, DeleteIndex, Abort

LEMMA LinksType ==
    TypeOK /\ [Next]_vars => links' \in [Links -> {"none", "valid", "expired", "used"}]
  <1> SUFFICES ASSUME TypeOK, [Next]_vars
               PROVE  links' \in [Links -> {"none", "valid", "expired", "used"}]
    OBVIOUS
  <1>1. CASE links' = links
    BY <1>1 DEF TypeOK
  <1>2. ASSUME NEW r, NEW s \in {"none", "valid", "expired", "used"},
               links' = [links EXCEPT ![r] = s]
        PROVE  links' \in [Links -> {"none", "valid", "expired", "used"}]
    BY <1>2 DEF TypeOK
  <1>3. ASSUME NEW t \in Threads, Commit(t)
        PROVE  links' \in [Links -> {"none", "valid", "expired", "used"}]
    BY <1>1, <1>2, <1>3 DEF Commit
  <1> QED
    BY <1>1, <1>2, <1>3 DEF Next, vars, ExpireIndex, ExpireSession, ExpireLink, Login,
       StoreSession, TrackSession, AnswerLogin, Logout, UntrackSession, Validate, Suspend,
       RequestReset, ResetPassword, ReadSessions, DeleteSession, DeleteIndex, Abort, Register

LEMMA LoginStep ==
    ASSUME TypeOK, NEW t \in LoggingIn
    PROVE  /\ t \in Threads
           /\ request[t].step \in {"opening", "stored", "tracked"}
  BY DEF LoggingIn

LEMMA TokenSets ==
    ASSUME Shape, [Next]_vars
    PROVE  /\ opened \subseteq opened' /\ opened' \subseteq Tokens
           /\ sessions' \subseteq opened' /\ index' \subseteq opened'
           /\ issued \subseteq issued' /\ issued' \subseteq opened'
           /\ overlapped \subseteq overlapped' /\ overlapped' \subseteq opened'
  <1>1. /\ opened \subseteq Tokens /\ sessions \subseteq opened /\ index \subseteq opened
        /\ issued \subseteq opened /\ overlapped \subseteq opened
    BY DEF Shape, TypeOK
  <1>2. \A t \in LoggingIn : request[t].token \in opened
    BY DEF Shape, TokensAreOwn
  <1>3. ASSUME NEW t \in Threads, NEW p \in Passwords, NEW k \in Tokens, Login(t, p, k)
        PROVE  /\ opened' = opened \union {k} /\ UNCHANGED <<sessions, index, issued>>
               /\ overlapped \subseteq overlapped' /\ overlapped' \subseteq opened'
    BY <1>1, <1>3 DEF Login, redisVars
  <1>4. ASSUME NEW t \in Threads, StoreSession(t) \/ TrackSession(t) \/ AnswerLogin(t)
        PROVE  t \in LoggingIn
    BY <1>4 DEF StoreSession, TrackSession, AnswerLogin, LoggingIn, At
  <1>5. ASSUME NEW t \in Threads, StoreSession(t) \/ TrackSession(t) \/ AnswerLogin(t)
        PROVE  /\ sessions' \subseteq sessions \union {request[t].token}
               /\ index' \subseteq index \union {request[t].token}
               /\ issued \subseteq issued' /\ issued' \subseteq issued \union {request[t].token}
               /\ UNCHANGED <<opened, overlapped>>
    BY <1>5 DEF StoreSession, TrackSession, AnswerLogin, redisVars, historyVars
  <1>6. ASSUME NEW t \in Threads,
               \/ \E k \in Tokens : Logout(t, k)
               \/ UntrackSession(t) \/ DeleteSession(t) \/ DeleteIndex(t)
        PROVE  /\ sessions' \subseteq sessions /\ index' \subseteq index
               /\ UNCHANGED <<issued, opened, overlapped>>
    BY <1>6 DEF Logout, UntrackSession, DeleteSession, DeleteIndex, historyVars
  <1>7. ASSUME ExpireIndex \/ \E t \in Threads : ReadSessions(t)
        PROVE  /\ index' \subseteq index /\ UNCHANGED <<sessions, issued, opened>>
               /\ overlapped' = overlapped \union {request[u].token : u \in LoggingIn}
    BY <1>7 DEF ExpireIndex, ReadSessions, redisVars
  <1>8. ASSUME \E k \in Tokens : ExpireSession(k)
        PROVE  sessions' \subseteq sessions /\ UNCHANGED <<index, historyVars>>
    BY <1>8 DEF ExpireSession
  <1>9. ASSUME \/ UNCHANGED vars
               \/ \E r \in Links : ExpireLink(r)
               \/ \E t \in Threads :
                      \/ \E p \in Passwords : Register(t, p)
                      \/ \E d \in {"ACTIVE", "CLOSED"} : Validate(t, d)
                      \/ Suspend(t)
                      \/ \E r \in Links : RequestReset(t, r)
                      \/ \E r \in Links, p \in Passwords : ResetPassword(t, r, p)
                      \/ Commit(t)
                      \/ Abort(t)
        PROVE  UNCHANGED <<redisVars, historyVars>>
    BY <1>9 DEF vars, ExpireLink, Register, Validate, Suspend, RequestReset, ResetPassword,
       Commit, Abort
  <1>10. CASE UNCHANGED <<redisVars, historyVars>>
    BY <1>1, <1>10 DEF redisVars, historyVars
  <1>11. ASSUME NEW t \in Threads, StoreSession(t) \/ TrackSession(t) \/ AnswerLogin(t)
         PROVE  /\ opened' = opened /\ sessions' \subseteq opened /\ index' \subseteq opened
                /\ issued \subseteq issued' /\ issued' \subseteq opened
                /\ overlapped' = overlapped
    BY <1>1, <1>2, <1>4, <1>5, <1>11
  <1>12. ASSUME ExpireIndex \/ \E t \in Threads : ReadSessions(t)
         PROVE  /\ index' \subseteq opened /\ overlapped \subseteq overlapped'
                /\ overlapped' \subseteq opened
                /\ UNCHANGED <<sessions, issued, opened>>
    BY <1>1, <1>2, <1>7, <1>12
  <1> QED
    BY <1>1, <1>3, <1>6, <1>8, <1>9, <1>10, <1>11, <1>12 DEF Next, historyVars

LEMMA TypeNext == Shape /\ [Next]_vars => TypeOK'
  BY RequestType, AccountType, LinksType, TokenSets DEF Shape, TypeOK

-----------------------------------------------------------------------------
(* Which steps change what. *)

LEMMA IssuedChange ==
    ASSUME [Next]_vars, NEW k, k \in issued', k \notin issued
    PROVE  \E t \in Threads : AnswerLogin(t) /\ k = request[t].token
  BY DEF Next, vars, historyVars, ExpireIndex, ExpireSession, ExpireLink, Register, Login,
     StoreSession, TrackSession, AnswerLogin, Logout, UntrackSession, Validate, Suspend,
     RequestReset, ResetPassword, ReadSessions, DeleteSession, DeleteIndex, Commit, Abort

LEMMA SessionsChange ==
    ASSUME [Next]_vars, NEW k, k \in sessions', k \notin sessions
    PROVE  \E t \in Threads : StoreSession(t) /\ k = request[t].token
  BY DEF Next, vars, redisVars, ExpireIndex, ExpireSession, ExpireLink, Register, Login,
     StoreSession, TrackSession, AnswerLogin, Logout, UntrackSession, Validate, Suspend,
     RequestReset, ResetPassword, ReadSessions, DeleteSession, DeleteIndex, Commit, Abort

LEMMA IndexChange ==
    ASSUME [Next]_vars, NEW k, k \in index, k \notin index'
    PROVE  \/ ExpireIndex
           \/ \E t \in Threads : UntrackSession(t) /\ k = request[t].token
           \/ \E t \in Threads : DeleteIndex(t)
  BY DEF Next, vars, redisVars, ExpireIndex, ExpireSession, ExpireLink, Register, Login,
     StoreSession, TrackSession, AnswerLogin, Logout, UntrackSession, Validate, Suspend,
     RequestReset, ResetPassword, ReadSessions, DeleteSession, DeleteIndex, Commit, Abort

(* Where each step takes the request of its thread. *)
LEMMA StepsLead ==
    ASSUME TypeOK, NEW t \in Threads
    PROVE  /\ \A p \in Passwords, k \in Tokens :
                  Login(t, p, k) => request'[t].step = "opening" /\ request'[t].token = k
           /\ StoreSession(t) => request'[t].step = "stored"
           /\ TrackSession(t) => request'[t].step = "tracked"
           /\ \A k \in Tokens : Logout(t, k) => request'[t].step = "closing"
           /\ \A d \in {"ACTIVE", "CLOSED"} : Validate(t, d) => request'[t].step = "saving"
           /\ Suspend(t) => request'[t].step = "modified"
           /\ \A r \in Links, p \in Passwords :
                  ResetPassword(t, r, p) => request'[t].step = "modified"
           /\ ReadSessions(t) => request'[t].step = "revoking"
           /\ DeleteSession(t) => request'[t].step = "revoking"
           /\ DeleteIndex(t) => request'[t].step = "saving"
  <1>1. request \in [Threads -> Request]
    BY DEF TypeOK
  <1>2. DeleteSession(t) => request'[t].step = "revoking"
    <2>1. ASSUME NEW k, request' = [request EXCEPT ![t].members = @ \ {k}]
          PROVE  request'[t].step = request[t].step
      BY <1>1, <2>1 DEF Request
    <2> QED
      BY <2>1 DEF DeleteSession, At
  <1>3. \A p \in Passwords, k \in Tokens :
            Login(t, p, k) => request'[t].step = "opening" /\ request'[t].token = k
    BY <1>1 DEF Login, Request
  <1>4. ASSUME NEW s, Goto(t, s) PROVE request'[t].step = s
    BY <1>1, <1>4 DEF Goto, Request
  <1>5. ASSUME NEW s, NEW a, NEW r, Modify(t, s, a, r) PROVE request'[t].step = s
    BY <1>1, <1>5 DEF Modify, Request
  <1>6. /\ \A k \in Tokens : Logout(t, k) => request'[t].step = "closing"
        /\ ReadSessions(t) => request'[t].step = "revoking"
    BY <1>1 DEF Logout, ReadSessions, Request
  <1> QED
    BY <1>2, <1>3, <1>4, <1>5, <1>6 DEF StoreSession, TrackSession, Validate, Suspend,
       ResetPassword, DeleteIndex

(* The step that brings the request of a thread where it is. *)
LEMMA Entered ==
    ASSUME TypeOK, [Next]_vars, NEW u \in Threads, request'[u] # request[u]
    PROVE  \/ \E p \in Passwords, k \in Tokens : Login(u, p, k)
           \/ StoreSession(u) \/ TrackSession(u)
           \/ \E k \in Tokens : Logout(u, k)
           \/ \E d \in {"ACTIVE", "CLOSED"} : Validate(u, d)
           \/ Suspend(u)
           \/ \E r \in Links, p \in Passwords : ResetPassword(u, r, p)
           \/ ReadSessions(u) \/ DeleteSession(u) \/ DeleteIndex(u)
           \/ /\ request'[u] = NoRequest
              /\ AnswerLogin(u) \/ UntrackSession(u) \/ Commit(u) \/ Abort(u)
  <1>1. request' # request
    OBVIOUS
  <1>2. ~(\/ ExpireIndex
          \/ \E k \in Tokens : ExpireSession(k)
          \/ \E r \in Links : ExpireLink(r)
          \/ \E t \in Threads, p \in Passwords : Register(t, p)
          \/ \E t \in Threads, r \in Links : RequestReset(t, r)
          \/ UNCHANGED vars)
    BY <1>1 DEF ExpireIndex, ExpireSession, ExpireLink, Register, RequestReset, vars
  <1>3. AnswerLogin(u) \/ UntrackSession(u) \/ Commit(u) \/ Abort(u) => request'[u] = NoRequest
    BY DEF AnswerLogin, UntrackSession, Commit, Abort, End, TypeOK
  <1> QED
    BY <1>2, <1>3, OthersStay DEF Next

(* A login under way has just begun with a token of its own, or goes on    *)
(* with the one it had.                                                    *)
LEMMA LoginsGoOn ==
    ASSUME TypeOK, [Next]_vars, NEW u \in LoggingIn'
    PROVE  \/ u \in LoggingIn /\ request'[u].token = request[u].token
           \/ \E p \in Passwords, k \in Tokens : Login(u, p, k) /\ request'[u].token = k
  <1>1. u \in Threads /\ request'[u].step \in {"opening", "stored", "tracked"}
    BY DEF LoggingIn
  <1>2. CASE request'[u] = request[u]
    BY <1>1, <1>2 DEF LoggingIn
  <1>3. CASE StoreSession(u) \/ TrackSession(u)
    BY <1>1, <1>3 DEF StoreSession, TrackSession, Goto, At, TypeOK, Request, LoggingIn
  <1>4. ASSUME NEW p \in Passwords, NEW k \in Tokens, Login(u, p, k)
        PROVE  request'[u].token = k
    BY <1>1, <1>4 DEF Login, TypeOK, Request
  <1>5. ASSUME \/ \E k \in Tokens : Logout(u, k)
               \/ \E d \in {"ACTIVE", "CLOSED"} : Validate(u, d)
               \/ Suspend(u)
               \/ \E r \in Links, p \in Passwords : ResetPassword(u, r, p)
               \/ ReadSessions(u) \/ DeleteSession(u) \/ DeleteIndex(u)
        PROVE  request'[u].step \in {"closing", "saving", "modified", "revoking"}
    BY <1>1, <1>5, StepsLead
  <1>6. request'[u] # NoRequest
    BY <1>1 DEF NoRequest
  <1> QED
    BY <1>1, <1>2, <1>3, <1>4, <1>5, <1>6, Entered

LEMMA OwnNext == Shape /\ [Next]_vars => TokensAreOwn'
  <1> SUFFICES ASSUME Shape, [Next]_vars PROVE TokensAreOwn'
    OBVIOUS
  <1>1. ASSUME NEW t \in LoggingIn'
        PROVE  request'[t].token \in opened' \ issued
    <2>1. CASE t \in LoggingIn /\ request'[t].token = request[t].token
      BY <2>1, TokenSets DEF Shape, TokensAreOwn
    <2>2. ASSUME NEW p \in Passwords, NEW k \in Tokens, Login(t, p, k), request'[t].token = k
          PROVE  request'[t].token \in opened' \ issued
      BY <2>2 DEF Login, Shape, TypeOK
    <2> QED
      BY <2>1, <2>2, LoginsGoOn DEF Shape
  <1>2. ASSUME NEW t \in LoggingIn', request'[t].token \in issued'
        PROVE  FALSE
    <2>1. PICK a \in Threads : AnswerLogin(a) /\ request'[t].token = request[a].token
      BY <1>1, <1>2, IssuedChange
    <2>2. a \in LoggingIn /\ request[a].token \in opened
      BY <2>1 DEF AnswerLogin, LoggingIn, At, Shape, TokensAreOwn
    <2>3. a # t
      <3>1. request'[a].step = "idle"
        BY <2>1 DEF AnswerLogin, End, Shape, TypeOK, NoRequest
      <3> QED
        BY <3>1 DEF LoggingIn
    <2>4. CASE t \in LoggingIn /\ request'[t].token = request[t].token
      BY <2>1, <2>2, <2>3, <2>4 DEF Shape, TokensAreOwn
    <2>5. CASE \E p \in Passwords, k \in Tokens : Login(t, p, k) /\ request'[t].token = k
      BY <2>1, <2>2, <2>5 DEF Login
    <2> QED
      BY <2>4, <2>5, LoginsGoOn DEF Shape
  <1>3. ASSUME NEW t \in LoggingIn', NEW u \in LoggingIn', t # u
        PROVE  request'[t].token # request'[u].token
    <2>1. ASSUME NEW v \in LoggingIn', NEW w \in LoggingIn', v # w,
                 v \in LoggingIn, request'[v].token = request[v].token
          PROVE  request'[v].token # request'[w].token
      <3>1. CASE w \in LoggingIn /\ request'[w].token = request[w].token
        BY <2>1, <3>1 DEF Shape, TokensAreOwn
      <3>2. CASE \E p \in Passwords, k \in Tokens : Login(w, p, k) /\ request'[w].token = k
        BY <2>1, <3>2 DEF Login, Shape, TokensAreOwn
      <3> QED
        BY <3>1, <3>2, LoginsGoOn DEF Shape
    <2>2. ~(/\ \E p \in Passwords, k \in Tokens : Login(t, p, k)
            /\ \E p \in Passwords, k \in Tokens : Login(u, p, k))
      <3>1. ASSUME NEW p \in Passwords, NEW k \in Tokens, Login(t, p, k)
            PROVE  request'[u] = request[u]
        BY <1>3, <3>1 DEF Login, Shape, TypeOK, LoggingIn
      <3>2. ASSUME NEW p \in Passwords, NEW k \in Tokens, Login(u, p, k)
            PROVE  request[u].step = "idle" /\ request'[u].step = "opening"
        BY <1>3, <3>2 DEF Login, At, Shape, TypeOK, Request, LoggingIn
      <3> QED
        BY <3>1, <3>2
    <2> QED
      BY <1>3, <2>1, <2>2, LoginsGoOn DEF Shape
  <1> QED
    BY <1>1, <1>2, <1>3 DEF TokensAreOwn

(* A session is stored by the login that opened it, before it is issued.   *)
LEMMA IssuedStayGone ==
    ASSUME Shape, [Next]_vars, NEW k \in issued, k \notin sessions
    PROVE  k \in issued' /\ k \notin sessions'
  <1>1. ASSUME NEW t \in Threads, StoreSession(t)
        PROVE  request[t].token \notin issued
    BY <1>1 DEF StoreSession, At, LoggingIn, Shape, TokensAreOwn
  <1> QED
    BY <1>1, SessionsChange, TokenSets

LEMMA ClosedNext == Shape /\ [Next]_vars => ClosedAreGone'
  <1> SUFFICES ASSUME Shape, [Next]_vars, NEW t \in Threads, request'[t].step = "closing"
               PROVE  request'[t].token \in issued' /\ request'[t].token \notin sessions'
    BY DEF ClosedAreGone, At
  <1>1. CASE request'[t] = request[t]
    BY <1>1, IssuedStayGone DEF Shape, ClosedAreGone, At
  <1>2. ASSUME NEW k \in Tokens, Logout(t, k)
        PROVE  request'[t].token \in issued' /\ request'[t].token \notin sessions'
    BY <1>2 DEF Logout, historyVars, Shape, TypeOK, Request
  <1>3. ~(\/ \E p \in Passwords, k \in Tokens : Login(t, p, k)
          \/ StoreSession(t) \/ TrackSession(t)
          \/ \E d \in {"ACTIVE", "CLOSED"} : Validate(t, d)
          \/ Suspend(t)
          \/ \E r \in Links, p \in Passwords : ResetPassword(t, r, p)
          \/ ReadSessions(t) \/ DeleteSession(t) \/ DeleteIndex(t))
    BY StepsLead DEF Shape
  <1>4. request'[t] # NoRequest
    BY DEF NoRequest
  <1> QED
    BY <1>1, <1>2, <1>3, <1>4, Entered DEF Shape

LEMMA ShapeNext == Shape /\ [Next]_vars => Shape'
  BY TypeNext, OwnNext, ClosedNext DEF Shape

(* The row, the links and the requests keep their types, a login keeps its *)
(* token to itself, and a logout removes a session for good.               *)
THEOREM ShapeInvariant == Spec => []Shape
  BY ShapeInit, ShapeNext, PTL DEF Spec

(* Sessions, set and row keep their types: no token reaches Redis that no  *)
(* login has generated.                                                    *)
THEOREM TypeCorrect == Spec => []TypeOK
  BY ShapeInvariant, PTL DEF Shape

-----------------------------------------------------------------------------
(* Revocation. *)

LEMMA SafeInit == Init => Safe
  <1> SUFFICES ASSUME Init PROVE Safe
    OBVIOUS
  <1>1. \A t \in Threads : request[t].step = "idle" /\ request[t].known = {}
    BY DEF Init, NoRequest
  <1> QED
    BY <1>1, ShapeInit DEF Init, Safe, LiveIsTracked, Live, TrackedAreListed, RevocationsGoOn,
       Revoking, KnownAreIssued, RevocationIsComplete, At

LEMMA TrackedNext ==
    ASSUME Safe, [Next]_vars PROVE TrackedAreListed'
  <1> SUFFICES ASSUME NEW t \in Threads, request'[t].step = "tracked"
               PROVE  request'[t].token \in index' \union overlapped'
    BY DEF TrackedAreListed, At
  <1>1. Shape
    BY DEF Safe
  <1>2. CASE TrackSession(t)
    BY <1>1, <1>2 DEF TrackSession, Goto, Shape, TypeOK, Request
  <1>3. CASE request'[t] = request[t]
    <2>1. t \in LoggingIn /\ request[t].token \in index \union overlapped
      BY <1>3 DEF LoggingIn, Safe, TrackedAreListed, At
    <2>2. CASE ExpireIndex
      BY <1>3, <2>1, <2>2 DEF ExpireIndex
    <2>3. ASSUME NEW u \in Threads, UntrackSession(u)
          PROVE  request[u].token # request[t].token
      BY <1>1, <2>1, <2>3 DEF UntrackSession, Shape, ClosedAreGone, TokensAreOwn
    <2>4. ASSUME NEW u \in Threads, DeleteIndex(u)
          PROVE  request[t].token \in overlapped
      BY <2>1, <2>4 DEF DeleteIndex, Revoking, Safe, RevocationsGoOn
    <2> QED
      BY <1>1, <1>3, <2>1, <2>2, <2>3, <2>4, IndexChange, TokenSets
  <1>4. request'[t] # NoRequest
    BY DEF NoRequest
  <1> QED
    BY <1>1, <1>2, <1>3, <1>4, Entered, StepsLead DEF Shape

(* A session becomes live when its login answers. *)
LEMMA LiveChange ==
    ASSUME Shape, [Next]_vars, NEW k \in Live' \ overlapped'
    PROVE  \/ k \in Live \ overlapped
           \/ /\ k \notin overlapped
              /\ \E t \in Threads : AnswerLogin(t) /\ k = request[t].token
  <1>1. k \in sessions' /\ k \in issued' /\ k \notin overlapped
    BY TokenSets DEF Live
  <1>2. CASE k \in issued
    BY <1>1, <1>2, IssuedStayGone DEF Live
  <1> QED
    BY <1>1, <1>2, IssuedChange

LEMMA LiveNext ==
    ASSUME Safe, [Next]_vars PROVE LiveIsTracked'
  <1> SUFFICES ASSUME NEW k \in Live' \ overlapped' PROVE k \in index'
    BY DEF LiveIsTracked
  <1>1. Shape
    BY DEF Safe
  <1>2. CASE k \in Live \ overlapped
    <2>1. k \in index
      BY <1>2 DEF Safe, LiveIsTracked
    <2>2. ~ExpireIndex
      BY <1>2, <2>1 DEF ExpireIndex, Live
    <2>3. ASSUME NEW u \in Threads, UntrackSession(u)
          PROVE  request[u].token # k
      BY <1>1, <1>2, <2>3 DEF UntrackSession, Shape, ClosedAreGone, Live
    <2>4. ASSUME NEW u \in Threads PROVE ~DeleteIndex(u)
      BY <1>2 DEF DeleteIndex, Revoking, Safe, RevocationsGoOn
    <2> QED
      BY <2>1, <2>2, <2>3, <2>4, IndexChange
  <1>3. ASSUME NEW t \in Threads, AnswerLogin(t), k = request[t].token, k \notin overlapped
        PROVE  k \in index'
    BY <1>3 DEF AnswerLogin, redisVars, Safe, TrackedAreListed
  <1> QED
    BY <1>1, <1>2, <1>3, LiveChange

LEMMA RevocationsNext ==
    ASSUME Safe, [Next]_vars PROVE RevocationsGoOn'
  <1> SUFFICES ASSUME NEW t \in Revoking'
               PROVE  /\ Live' \ overlapped' \subseteq request'[t].members
                      /\ \A u \in LoggingIn' : request'[u].token \in overlapped'
    BY DEF RevocationsGoOn
  <1>1. Shape /\ TypeOK /\ t \in Threads /\ request'[t].step = "revoking"
    BY DEF Safe, Shape, Revoking, At
  <1>2. CASE ReadSessions(t)
    <2>1. request'[t].members = index /\ \A u \in Threads : u # t => request'[u] = request[u]
      BY <1>1, <1>2 DEF ReadSessions, TypeOK, Request
    <2>2. LoggingIn' \subseteq LoggingIn /\ t \notin LoggingIn'
      BY <1>1, <2>1 DEF LoggingIn
    <2>3. \A u \in LoggingIn' : request'[u].token \in overlapped'
      <3> SUFFICES ASSUME NEW u \in LoggingIn' PROVE request'[u].token \in overlapped'
        OBVIOUS
      <3>1. u \in LoggingIn /\ u # t /\ u \in Threads
        BY <2>2 DEF LoggingIn
      <3>2. request'[u].token = request[u].token
        BY <2>1, <3>1
      <3>3. overlapped' = overlapped \union {request[v].token : v \in LoggingIn}
        BY <1>2 DEF ReadSessions
      <3> QED
        BY <3>1, <3>2, <3>3
    <2>4. Live' \ overlapped' \subseteq Live \ overlapped
      BY <1>2 DEF ReadSessions, redisVars, Live
    <2> QED
      BY <2>1, <2>3, <2>4 DEF Safe, LiveIsTracked
  <1>3. CASE DeleteSession(t)
    <2>1. PICK k : sessions' = sessions \ {k} /\ request' = [request EXCEPT ![t].members = @ \ {k}]
      BY <1>3 DEF DeleteSession
    <2>2. request'[t].members = request[t].members \ {k} /\ t \in Revoking
      BY <1>1, <1>3, <2>1 DEF DeleteSession, Revoking, TypeOK, Request
    <2>3. issued' = issued /\ overlapped' = overlapped
      BY <1>3 DEF DeleteSession, historyVars
    <2>4. Live' \ overlapped' \subseteq request'[t].members
      BY <2>1, <2>2, <2>3 DEF Live, Safe, RevocationsGoOn
    <2>5. \A u \in Threads : u # t => request'[u] = request[u]
      BY <1>1, <2>1 DEF TypeOK
    <2>6. \A u \in LoggingIn' : u \in LoggingIn /\ request'[u] = request[u]
      BY <1>1, <2>5 DEF LoggingIn
    <2> QED
      BY <2>2, <2>3, <2>4, <2>6 DEF Safe, RevocationsGoOn
  <1>4. CASE request'[t] = request[t]
    <2>1. t \in Revoking
      BY <1>1, <1>4 DEF Revoking, At
    <2>2. ASSUME NEW a \in Threads, AnswerLogin(a)
          PROVE  request[a].token \in overlapped
      BY <2>1, <2>2 DEF AnswerLogin, At, LoggingIn, Safe, RevocationsGoOn
    <2>3. Live' \ overlapped' \subseteq request'[t].members
      BY <1>1, <1>4, <2>1, <2>2, LiveChange DEF Safe, RevocationsGoOn
    <2>4. ASSUME NEW u \in LoggingIn'
          PROVE  request'[u].token \in overlapped'
      <3>1. CASE u \in LoggingIn /\ request'[u].token = request[u].token
        BY <1>1, <2>1, <3>1, TokenSets DEF Safe, RevocationsGoOn
      <3>2. ASSUME NEW p \in Passwords, NEW k \in Tokens, Login(u, p, k), request'[u].token = k
            PROVE  k \in overlapped'
        BY <2>1, <3>2 DEF Login
      <3> QED
        BY <1>1, <3>1, <3>2, LoginsGoOn
    <2> QED
      BY <2>3, <2>4
  <1>5. request'[t] # NoRequest
    BY <1>1 DEF NoRequest
  <1> QED
    BY <1>1, <1>2, <1>3, <1>4, <1>5, Entered, StepsLead

(* Only SMEMBERS notes which sessions a revocation is to delete. *)
LEMMA KnownStep ==
    ASSUME TypeOK, [Next]_vars, NEW t \in Threads
    PROVE  \/ ReadSessions(t) /\ request'[t].known = issued /\ issued' = issued
           \/ request'[t] = NoRequest
           \/ /\ request'[t].known = request[t].known
              /\ request[t].step \in {"revoking", "saving"} =>
                     request'[t].step \in {"revoking", "saving"}
  <1>1. request \in [Threads -> Request]
    BY DEF TypeOK
  <1>2. CASE ReadSessions(t)
    BY <1>1, <1>2 DEF ReadSessions, Request
  <1>3. ASSUME NEW s, Goto(t, s) PROVE request'[t].known = request[t].known
    BY <1>1, <1>3 DEF Goto, Request
  <1>4. ASSUME NEW s, NEW a, NEW r, Modify(t, s, a, r)
        PROVE  request'[t].known = request[t].known
    BY <1>1, <1>4 DEF Modify, Request
  <1>5. ASSUME NEW k \in Tokens, Logout(t, k) \/ \E p \in Passwords : Login(t, p, k)
        PROVE  request'[t].known = request[t].known /\ request[t].step = "idle"
    BY <1>1, <1>5 DEF Login, Logout, At, Request
  <1>6. ASSUME DeleteSession(t)
        PROVE  request'[t].known = request[t].known
    <2>1. PICK k : request' = [request EXCEPT ![t].members = @ \ {k}]
      BY <1>6 DEF DeleteSession
    <2> QED
      BY <1>1, <2>1 DEF Request
  <1>7. ASSUME StoreSession(t) \/ TrackSession(t)
        PROVE  request'[t].known = request[t].known /\ request[t].step \in {"opening", "stored"}
    BY <1>3, <1>7 DEF StoreSession, TrackSession, At
  <1>8. ASSUME \/ \E d \in {"ACTIVE", "CLOSED"} : Validate(t, d)
               \/ Suspend(t)
               \/ \E r \in Links, p \in Passwords : ResetPassword(t, r, p)
        PROVE  request'[t].known = request[t].known /\ request[t].step = "idle"
    BY <1>4, <1>8 DEF Validate, Suspend, ResetPassword, At
  <1>9. ASSUME DeleteIndex(t)
        PROVE  request'[t].known = request[t].known
    BY <1>3, <1>9 DEF DeleteIndex
  <1>10. CASE request'[t] = request[t]
    BY <1>10
  <1> QED
    BY <1>2, <1>5, <1>6, <1>7, <1>8, <1>9, <1>10, Entered, StepsLead

LEMMA KnownNext ==
    ASSUME Safe, [Next]_vars PROVE KnownAreIssued'
  <1> SUFFICES ASSUME NEW t \in Threads
               PROVE  /\ request'[t].known \subseteq issued'
                      /\ request'[t].step \notin {"revoking", "saving"} =>
                             request'[t].known = {}
    BY DEF KnownAreIssued
  <1>1. Shape /\ TypeOK
    BY DEF Safe, Shape
  <1>2. CASE ReadSessions(t) /\ request'[t].known = issued /\ issued' = issued
    BY <1>1, <1>2, StepsLead
  <1>3. CASE request'[t] = NoRequest
    BY <1>3 DEF NoRequest
  <1>4. CASE /\ request'[t].known = request[t].known
             /\ request[t].step \in {"revoking", "saving"} =>
                    request'[t].step \in {"revoking", "saving"}
    BY <1>1, <1>4, TokenSets DEF Safe, KnownAreIssued
  <1> QED
    BY <1>1, <1>2, <1>3, <1>4, KnownStep

LEMMA CompleteNext ==
    ASSUME Safe, [Next]_vars PROVE RevocationIsComplete'
  <1> SUFFICES ASSUME NEW t \in Threads, request'[t].step = "saving",
                      NEW k \in request'[t].known, k \in sessions'
               PROVE  k \in overlapped'
    BY DEF RevocationIsComplete, At
  <1>1. Shape /\ TypeOK
    BY DEF Safe, Shape
  <1>2. /\ request'[t].known = request[t].known
        /\ request'[t] # NoRequest /\ ~ReadSessions(t)
    BY <1>1, KnownStep, StepsLead DEF NoRequest
  <1>3. k \in request[t].known /\ k \in issued /\ k \in sessions
    BY <1>1, <1>2, IssuedStayGone DEF Safe, KnownAreIssued
  <1>4. request[t].step \in {"revoking", "saving"}
    BY <1>3 DEF Safe, KnownAreIssued
  <1>5. CASE DeleteIndex(t)
    <2>1. t \in Revoking /\ request[t].members = {}
      BY <1>5 DEF DeleteIndex, Revoking
    <2>2. k \in overlapped
      BY <1>3, <2>1 DEF Live, Safe, RevocationsGoOn
    <2> QED
      BY <1>1, <2>2, TokenSets
  <1>6. CASE request'[t] = request[t]
    <2>1. k \in overlapped
      BY <1>3, <1>6 DEF Safe, RevocationIsComplete, At
    <2> QED
      BY <1>1, <2>1, TokenSets
  <1>7. ASSUME \/ \E d \in {"ACTIVE", "CLOSED"} : Validate(t, d)
               \/ \E j \in Tokens : Logout(t, j)
        PROVE  FALSE
    BY <1>4, <1>7 DEF Validate, Logout, At
  <1> QED
    BY <1>1, <1>2, <1>5, <1>6, <1>7, Entered, StepsLead

LEMMA SafeNext == Safe /\ [Next]_vars => Safe'
  BY ShapeNext, LiveNext, TrackedNext, RevocationsNext, KnownNext, CompleteNext DEF Safe

(* The inductive invariant of the sessions: what a login, a logout and a   *)
(* revocation under way owe to each other.                                 *)
THEOREM SafeInvariant == Spec => []Safe
  BY SafeInit, SafeNext, PTL DEF Spec

(* user:sessions:<id> lists every live session whose login no revocation   *)
(* or expiry of the set overlapped, however requests interleave.           *)
THEOREM LiveSessionsAreTracked == Spec => []LiveIsTracked
  BY SafeInvariant, PTL DEF Safe

(* A suspension or a reset that is about to commit has left none of the    *)
(* sessions issued before it began, overlaps apart.                        *)
THEOREM RevocationsAreComplete == Spec => []RevocationIsComplete
  BY SafeInvariant, PTL DEF Safe
=============================================================================
