---------------------------- MODULE LoginLimiter ----------------------------
(* The limit on login attempts of one e-mail address: a counter in Redis    *)
(* that every attempt increments, that the first one gives a time to live,  *)
(* and that a successful login deletes.  Registrations of one IP address    *)
(* are limited by the same counter, without the deletion.                   *)

EXTENDS Naturals

CONSTANTS
    Threads,     \* request threads
    Max,         \* app.rate-limit.login.max-failures
    Ceiling      \* bound of the model: larger counts are taken for this one

ASSUME LimiterConstants ==
    Max \in Nat \ {0} /\ Ceiling \in Nat /\ Max < Ceiling

VARIABLES
    count,       \* ratelimit:login:<email>, 0 without the key
    ttl,         \* the key has a time to live
    step,        \* where the request of each thread is
    number,      \* the count its INCR returned
    failures,    \* history: failed logins since the key exists
    crashed      \* history: the EXPIRE of this key was never sent

key == <<count, ttl>>
vars == <<key, step, number, failures, crashed>>

TypeOK ==
    /\ count \in 0..Ceiling
    /\ ttl \in BOOLEAN /\ (ttl => count > 0)
    /\ step \in [Threads -> {"idle", "counted", "allowed", "refused"}]
    /\ number \in [Threads -> 0..Ceiling]
    /\ failures \in 0..Ceiling
    /\ crashed \in BOOLEAN

Init ==
    /\ count = 0 /\ ttl = FALSE
    /\ step = [t \in Threads |-> "idle"]
    /\ number = [t \in Threads |-> 0]
    /\ failures = 0 /\ crashed = FALSE

-----------------------------------------------------------------------------

Goto(t, s) == step' = [step EXCEPT ![t] = s]

(* The key is gone, and the window it stood for.                            *)
Forget == count' = 0 /\ ttl' = FALSE /\ failures' = 0 /\ crashed' = FALSE

Bounded(n) == IF n > Ceiling THEN Ceiling ELSE n

(* checkAndIncrement: INCR.                                                 *)
Increment(t) ==
    /\ step[t] = "idle"
    /\ count' = Bounded(count + 1)
    /\ number' = [number EXCEPT ![t] = count']
    /\ Goto(t, "counted")
    /\ UNCHANGED <<ttl, failures, crashed>>

(* Mutant: the window begins when the limit is reached. *)
OpensWindowAtLimit(n) == n = Max

(* The attempt that creates the key sends EXPIRE.                           *)
OpensWindow(n) == n = 1

(* checkAndIncrement: EXPIRE, which an absent key ignores, and the answer.  *)
Decide(t) ==
    /\ step[t] = "counted"
    /\ ttl' = (ttl \/ (OpensWindow(number[t]) /\ count > 0))
    /\ Goto(t, IF number[t] <= Max THEN "allowed" ELSE "refused")
    /\ UNCHANGED <<count, number, failures, crashed>>

Owes(t) == step[t] = "counted" /\ number[t] = 1

(* The process dies between the two commands, or the second one fails.      *)
Crash(t) ==
    /\ step[t] = "counted"
    /\ crashed' = (crashed \/ (Owes(t) /\ count > 0 /\ ~ttl
                                /\ ~\E u \in Threads \ {t} : Owes(u)))
    /\ Goto(t, "idle")
    /\ UNCHANGED <<key, number, failures>>

(* Answer RATE_LIMITED.                                                     *)
Refuse(t) ==
    /\ step[t] = "refused" /\ Goto(t, "idle")
    /\ UNCHANGED <<key, number, failures, crashed>>

(* The password does not match.                                             *)
Fail(t) ==
    /\ step[t] = "allowed" /\ Goto(t, "idle")
    /\ failures' = IF count > 0 THEN Bounded(failures + 1) ELSE 0
    /\ UNCHANGED <<key, number, crashed>>

(* It matches: resetLoginAttempts, DEL.                                     *)
Succeed(t) ==
    /\ step[t] = "allowed" /\ Goto(t, "idle")
    /\ Forget
    /\ UNCHANGED number

(* The key reaches its time to live.                                        *)
Expire == ttl /\ Forget /\ UNCHANGED <<step, number>>

Next ==
    \/ Expire
    \/ \E t \in Threads :
           Increment(t) \/ Decide(t) \/ Crash(t) \/ Refuse(t) \/ Fail(t) \/ Succeed(t)

(* Redis expires keys, and a request that lives goes on.                    *)
Fairness == WF_vars(Expire) /\ \A t \in Threads : WF_vars(Decide(t) \/ Crash(t))

Spec == Init /\ [][Next]_vars /\ Fairness

-----------------------------------------------------------------------------

(* A counter without a time to live is about to be given one, or was left   *)
(* so by a crash: no order of increments, deletions and expiries of several *)
(* requests makes one that stays for ever.                                  *)
LockWillExpire ==
    count > 0 => ttl \/ crashed \/ \E t \in Threads : Owes(t)

(* An address that is locked out is let in again, unless a crash kept its   *)
(* counter from expiring.                                                   *)
LockEnds == []<>(count <= Max \/ crashed)

(* "Trop de tentatives. Réessayez dans 15 minutes.": a lock out ends.       *)
LockIsTemporary == count > Max ~> count <= Max

(* "limitation après 5 échecs sur 15 min": an attempt counts as one too     *)
(* many only when Max failed in the window.                                 *)
RefusalIsEarned ==
    [][\A t \in Threads : Increment(t) /\ count' > Max => failures >= Max]_vars

=============================================================================
