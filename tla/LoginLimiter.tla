---------------------------- MODULE LoginLimiter ----------------------------
(***************************************************************************)
(* loginLimiter (internal/web/auth.go): failed attempts counted per client *)
(* IP, and the lockout they lead to.  loginPost asks allowed, verifies the *)
(* password, and then calls fail or reset; forgotPasswordPost asks allowed *)
(* and calls fail.  Each call holds the limiter's mutex, so it is a step;  *)
(* the verification between them (bcrypt) takes any time, while other      *)
(* attempts of the same client run.                                        *)
(*                                                                         *)
(* Time is kept as the ages the code computes from time.Now(): the ticks   *)
(* since windowStart, and the ticks until now.After(lockedUntil).          *)
(***************************************************************************)
EXTENDS Naturals, FiniteSets

CONSTANTS
  Clients,      \* client IPs
  Reqs,         \* bound: attempts in flight at once
  MaxAttempts,  \* loginMaxAttempts
  Window,       \* loginWindow, in ticks
  Lockout,      \* loginLockout, in ticks
  NoClient          \* no client

ASSUME ClientsAssumption == NoClient \notin Clients
ASSUME ReqsAssumption == IsFiniteSet(Reqs)
\* The code's two durations are equal; what is proved needs no more than this.
ASSUME DurationsAssumption ==
  /\ MaxAttempts \in Nat \ {0}
  /\ Window \in Nat /\ Lockout \in Nat /\ Window <= Lockout

VARIABLES
  attempts,   \* client -> count, age of the window, wait until unlocked
  trying      \* request -> the client whose attempt it verifies

limiterVars == <<attempts, trying>>

Attempt == [count : Nat, age : 0..Window + 1, wait : 0..Lockout + 1]
NoAttempt == [count |-> 0, age |-> 0, wait |-> 0]   \* no entry in the map

\* allowed_..., Locked_...: the operation with a bug, used by no action.
\* (Mutant: a client is let in by its count, which only a failure resets.)
allowed_ByCount(k) == attempts[k].count < MaxAttempts

\* allowed: no entry, or its lockedUntil has passed.
allowed(k) == attempts[k].wait = 0
InFlight(k) == {r \in Reqs : trying[r] = k}

\* An entry whose window is over is replaced by the next failure.
Stale(a) == a.count = 0 \/ a.age > Window

-----------------------------------------------------------------------------
\* Asked before the password is looked at.
Begin(r, k) ==
  /\ trying[r] = NoClient
  /\ allowed(k)
  /\ trying' = [trying EXCEPT ![r] = k]
  /\ UNCHANGED attempts

\* Mutants: one failure more than allowed; a client let in at lockedUntil
\* itself.
Locked_Late(a) ==
  IF a.count > MaxAttempts THEN [a EXCEPT !.wait = Lockout + 1] ELSE a
Locked_Short(a) ==
  IF a.count >= MaxAttempts THEN [a EXCEPT !.wait = Lockout] ELSE a

\* fail: count in the present window, or in a new one that starts now; the
\* last attempt of a window locks the client out from now on.
Counted(a) ==
  IF Stale(a) THEN [NoAttempt EXCEPT !.count = 1]
  ELSE [a EXCEPT !.count = a.count + 1]
Locked(a) ==
  IF a.count >= MaxAttempts THEN [a EXCEPT !.wait = Lockout + 1] ELSE a

Fail(r) ==
  /\ trying[r] # NoClient
  /\ attempts' = [attempts EXCEPT ![trying[r]] = Locked(Counted(@))]
  /\ trying' = [trying EXCEPT ![r] = NoClient]

\* reset, after a login that succeeded.
Succeed(r) ==
  /\ trying[r] # NoClient
  /\ attempts' = [attempts EXCEPT ![trying[r]] = NoAttempt]
  /\ trying' = [trying EXCEPT ![r] = NoClient]

\* One unit of time; beyond Window + 1 an age makes no difference.
Older(a) ==
  IF a.count = 0 THEN a
  ELSE [a EXCEPT !.age = IF a.age > Window THEN a.age ELSE a.age + 1,
                 !.wait = IF a.wait = 0 THEN 0 ELSE a.wait - 1]
Tick ==
  /\ attempts' = [k \in Clients |-> Older(attempts[k])]
  /\ UNCHANGED trying

\* The map is in memory only.
Restart ==
  /\ attempts' = [k \in Clients |-> NoAttempt]
  /\ trying' = [r \in Reqs |-> NoClient]

LimiterInit ==
  /\ attempts = [k \in Clients |-> NoAttempt]
  /\ trying = [r \in Reqs |-> NoClient]

LimiterNext ==
  \/ \E r \in Reqs : \/ \E k \in Clients : Begin(r, k)
                     \/ Fail(r) \/ Succeed(r)
  \/ Tick \/ Restart

LimiterSpec == LimiterInit /\ [][LimiterNext]_limiterVars

\* Time passes; attempts need not come, nor verifications end.
LimiterFairSpec == LimiterSpec /\ WF_limiterVars(Tick)

-----------------------------------------------------------------------------
(* Ages stay within the durations: a lockout is not longer than Lockout,   *)
(* however many failures it collects.                                      *)
LimiterTypeOK ==
  /\ attempts \in [Clients -> Attempt]
  /\ trying \in [Reqs -> Clients \cup {NoClient}]

\* Attempts that were allowed before a lockout may still fail after it, but
\* no more of them than requests that can be in flight: in one window a
\* client has fewer than MaxAttempts + |Reqs| failures counted.
BoundedFailures ==
  \A k \in Clients : attempts[k].count < MaxAttempts + Cardinality(Reqs)

\* A client that is let in again after a lockout starts a new window: its
\* first failure is counted as the first, and does not lock it out again.
FreshStart ==
  \A k \in Clients :
    allowed(k) /\ attempts[k].count >= MaxAttempts => Stale(attempts[k])

\* A lockout ends.
LockoutEnds == \A k \in Clients : ~allowed(k) ~> allowed(k)

\* A lockout lasts: only a login that succeeds, or a restart, cuts it short.
LockoutHolds ==
  [][\A k \in Clients : ~allowed(k) =>
       \/ attempts'[k] = NoAttempt
       \/ attempts'[k].wait >= attempts[k].wait - 1]_limiterVars
=============================================================================
