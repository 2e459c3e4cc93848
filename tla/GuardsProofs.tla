---------------------------- MODULE GuardsProofs ----------------------------
(***************************************************************************)
(* Machine-checked theorems about what stands before the handlers: the     *)
(* login limiter, for any number of clients, of attempts in flight and any *)
(* durations with Window <= Lockout, and the CSRF tokens of CsrfTokens.    *)
(***************************************************************************)
EXTENDS LoginLimiter, CsrfTokens, FiniteSetTheorems, TLAPS

-----------------------------------------------------------------------------
(* The login limiter.  The inductive invariant relates, for an entry that  *)
(* has reached MaxAttempts, what is left of the lockout to what is left of *)
(* the window, and its count to the attempts still in flight.              *)

\* The lockout does not end before the window does.
LockOutlastsWindow(a) ==
  a.count >= MaxAttempts /\ a.age <= Window => a.wait + a.age > Lockout

\* While the window lasts, the attempts that may still fail fit the bound.
RoomForInFlight(k) ==
  attempts[k].count >= MaxAttempts /\ attempts[k].age <= Window =>
    attempts[k].count + Cardinality(InFlight(k)) < MaxAttempts + Cardinality(Reqs)

LimiterInv ==
  /\ LimiterTypeOK
  /\ \A k \in Clients : LockOutlastsWindow(attempts[k])
  /\ \A k \in Clients : RoomForInFlight(k)
  /\ BoundedFailures

-----------------------------------------------------------------------------
\* The attempts of a client are some of the requests.
LEMMA InFlightFinite ==
  ASSUME NEW k \in Clients
  PROVE  /\ IsFiniteSet(InFlight(k)) /\ IsFiniteSet(InFlight(k)')
         /\ Cardinality(InFlight(k)) \in Nat /\ Cardinality(InFlight(k)') \in Nat
         /\ Cardinality(Reqs) \in Nat
         /\ Cardinality(InFlight(k)') <= Cardinality(Reqs)
<1>1. InFlight(k) \subseteq Reqs /\ InFlight(k)' \subseteq Reqs
  BY DEF InFlight
<1> QED BY <1>1, ReqsAssumption, FS_Subset, FS_CardinalityType

\* What fail and the passing of time do to an entry.
LEMMA EntrySteps ==
  ASSUME NEW a \in Attempt, LockOutlastsWindow(a)
  PROVE  /\ Locked(Counted(a)) \in Attempt
         /\ LockOutlastsWindow(Locked(Counted(a)))
         /\ Older(a) \in Attempt
         /\ LockOutlastsWindow(Older(a))
<1> USE DurationsAssumption DEF Attempt
<1>1. Counted(a) \in Attempt
  BY DEF Counted, Stale, NoAttempt
<1>2. ASSUME NEW b \in Attempt
      PROVE  Locked(b) \in Attempt /\ LockOutlastsWindow(Locked(b))
  BY <1>2 DEF Locked, LockOutlastsWindow
<1>3. CASE a.count = 0
  BY <1>1, <1>2, <1>3 DEF Older
<1>4. CASE a.count # 0
  <2> DEFINE age == IF a.age > Window THEN a.age ELSE a.age + 1
             wait == IF a.wait = 0 THEN 0 ELSE a.wait - 1
  <2>1. age \in 0..Window + 1 /\ wait \in 0..Lockout + 1
    OBVIOUS
  <2>2. Older(a) = [a EXCEPT !.age = age, !.wait = wait]
    BY <1>4 DEF Older
  <2> HIDE DEF age, wait
  <2>3. /\ Older(a) \in Attempt
        /\ Older(a).count = a.count /\ Older(a).age = age /\ Older(a).wait = wait
    BY <2>1, <2>2
  <2>4. a.count >= MaxAttempts /\ age <= Window => wait + age > Lockout
    BY DEF age, wait, LockOutlastsWindow
  <2> QED BY <1>1, <1>2, <2>3, <2>4 DEF LockOutlastsWindow
<1> QED BY <1>3, <1>4

\* The count fail leaves: one more, or one.
LEMMA CountSteps ==
  ASSUME NEW a \in Attempt
  PROVE  /\ Locked(Counted(a)).count = IF Stale(a) THEN 1 ELSE a.count + 1
         /\ Locked(Counted(a)).age = IF Stale(a) THEN 0 ELSE a.age
         /\ Older(a).count = a.count
         /\ Older(a).age <= Window => a.age <= Window
BY DurationsAssumption DEF Attempt, Locked, Counted, Older, Stale, NoAttempt

LEMMA LimiterInitInv == LimiterInit => LimiterInv
<1> SUFFICES ASSUME LimiterInit PROVE LimiterInv
  OBVIOUS
<1>1. LimiterTypeOK
  BY DurationsAssumption DEF LimiterInit, LimiterTypeOK, Attempt, NoAttempt
<1>2. \A k \in Clients : attempts[k].count = 0
  BY DEF LimiterInit, NoAttempt
<1>3. Cardinality(Reqs) \in Nat
  BY ReqsAssumption, FS_CardinalityType
<1> QED BY <1>1, <1>2, <1>3, DurationsAssumption
        DEF LimiterInv, LockOutlastsWindow, RoomForInFlight, BoundedFailures

-----------------------------------------------------------------------------
\* Every step keeps the invariant: one case per action.
LEMMA LimiterStepInv == LimiterInv /\ [LimiterNext]_limiterVars => LimiterInv'
<1> SUFFICES ASSUME LimiterInv, [LimiterNext]_limiterVars PROVE LimiterInv'
  OBVIOUS
<1> USE DurationsAssumption
<1>t. \A k \in Clients : attempts[k] \in Attempt /\ LockOutlastsWindow(attempts[k])
  BY DEF LimiterInv, LimiterTypeOK
<1>0. ASSUME UNCHANGED limiterVars PROVE LimiterInv'
  BY <1>0 DEF limiterVars, LimiterInv, LimiterTypeOK, RoomForInFlight, BoundedFailures, InFlight
<1>1. ASSUME NEW r \in Reqs, NEW k \in Clients, Begin(r, k) PROVE LimiterInv'
  <2>1. LimiterTypeOK' /\ UNCHANGED attempts
    BY <1>1 DEF Begin, LimiterInv, LimiterTypeOK
  <2>2. ASSUME NEW j \in Clients PROVE RoomForInFlight(j)'
    <3>1. CASE j = k
      \* The client was let in: if it has reached MaxAttempts its window is over.
      BY <1>1, <1>t, <2>1, <3>1 DEF Begin, allowed, RoomForInFlight,
         LockOutlastsWindow, Attempt
    <3>2. CASE j # k
      <4>1. InFlight(j)' = InFlight(j)
        BY <1>1, <3>2, ClientsAssumption DEF Begin, InFlight, LimiterInv, LimiterTypeOK
      <4> QED BY <2>1, <4>1 DEF LimiterInv, RoomForInFlight
    <3> QED BY <3>1, <3>2
  <2> QED BY <2>1, <2>2 DEF LimiterInv, BoundedFailures
<1>2. ASSUME NEW r \in Reqs, Fail(r) PROVE LimiterInv'
  <2>1. PICK k \in Clients : trying[r] = k
    BY <1>2 DEF Fail, LimiterInv, LimiterTypeOK
  <2>2. /\ attempts' = [attempts EXCEPT ![k] = Locked(Counted(attempts[k]))]
        /\ trying' = [trying EXCEPT ![r] = NoClient]
    BY <1>2, <2>1 DEF Fail
  <2>3. LimiterTypeOK' /\ \A j \in Clients : LockOutlastsWindow(attempts'[j])
    BY <1>t, <2>1, <2>2, EntrySteps DEF LimiterInv, LimiterTypeOK
  <2>4. /\ InFlight(k)' = InFlight(k) \ {r} /\ r \in InFlight(k)
        /\ \A j \in Clients \ {k} : InFlight(j)' = InFlight(j)
    BY <2>1, <2>2, ClientsAssumption DEF InFlight, LimiterInv, LimiterTypeOK
  <2>5. /\ Cardinality(InFlight(k)') = Cardinality(InFlight(k)) - 1
        /\ Cardinality(InFlight(k)') < Cardinality(Reqs)
    <3>1. Cardinality(InFlight(k)') = Cardinality(InFlight(k)) - 1
      BY <2>1, <2>4, InFlightFinite, FS_RemoveElement
    <3>2. Cardinality(InFlight(k)) <= Cardinality(Reqs)
      BY ReqsAssumption, FS_Subset DEF InFlight
    <3> QED BY <2>1, <3>1, <3>2, InFlightFinite
  <2>6. RoomForInFlight(k)' /\ attempts'[k].count < MaxAttempts + Cardinality(Reqs)
    <3>1. /\ attempts'[k].count = IF Stale(attempts[k]) THEN 1 ELSE attempts[k].count + 1
          /\ attempts'[k].age = IF Stale(attempts[k]) THEN 0 ELSE attempts[k].age
      BY <1>t, <2>1, <2>2, CountSteps DEF LimiterInv, LimiterTypeOK
    <3>2. RoomForInFlight(k) /\ attempts[k].count < MaxAttempts + Cardinality(Reqs)
      BY <2>1 DEF LimiterInv, BoundedFailures
    <3>3. /\ attempts[k].count \in Nat /\ attempts[k].age \in Nat
          /\ Cardinality(InFlight(k)) \in Nat /\ Cardinality(InFlight(k)') \in Nat
          /\ Cardinality(Reqs) \in Nat
      BY <1>t, <2>1, InFlightFinite DEF Attempt
    <3>4. CASE Stale(attempts[k])
      BY <2>5, <3>1, <3>3, <3>4 DEF RoomForInFlight
    <3>5. CASE ~Stale(attempts[k])
      BY <2>5, <3>1, <3>2, <3>3, <3>5 DEF RoomForInFlight, Stale
    <3> QED BY <3>4, <3>5
  <2>7. ASSUME NEW j \in Clients \ {k}
        PROVE  RoomForInFlight(j)' /\ attempts'[j].count < MaxAttempts + Cardinality(Reqs)
    <3>1. attempts'[j] = attempts[j]
      BY <2>1, <2>2 DEF LimiterInv, LimiterTypeOK
    <3> QED BY <2>4, <3>1 DEF LimiterInv, RoomForInFlight, BoundedFailures
  <2> QED BY <2>3, <2>6, <2>7 DEF LimiterInv, BoundedFailures
<1>3. ASSUME NEW r \in Reqs, Succeed(r) PROVE LimiterInv'
  <2>1. PICK k \in Clients : trying[r] = k
    BY <1>3 DEF Succeed, LimiterInv, LimiterTypeOK
  <2>2. /\ attempts' = [attempts EXCEPT ![k] = NoAttempt]
        /\ trying' = [trying EXCEPT ![r] = NoClient]
    BY <1>3, <2>1 DEF Succeed
  <2>3. attempts'[k].count = 0 /\ \A j \in Clients \ {k} : attempts'[j] = attempts[j]
    BY <2>1, <2>2 DEF LimiterInv, LimiterTypeOK, NoAttempt
  <2>4. LimiterTypeOK' /\ \A j \in Clients : LockOutlastsWindow(attempts'[j])
    BY <1>t, <2>1, <2>2, <2>3 DEF LimiterInv, LimiterTypeOK, Attempt, NoAttempt, LockOutlastsWindow
  <2>5. \A j \in Clients \ {k} : InFlight(j)' = InFlight(j)
    BY <2>1, <2>2, ClientsAssumption DEF InFlight, LimiterInv, LimiterTypeOK
  <2>6. Cardinality(Reqs) \in Nat
    BY ReqsAssumption, FS_CardinalityType
  <2> QED BY <2>3, <2>4, <2>5, <2>6 DEF LimiterInv, RoomForInFlight, BoundedFailures
<1>4. ASSUME Tick PROVE LimiterInv'
  <2>1. /\ \A k \in Clients : attempts'[k] = Older(attempts[k])
        /\ UNCHANGED trying
    BY <1>4 DEF Tick
  <2>2. LimiterTypeOK' /\ \A j \in Clients : LockOutlastsWindow(attempts'[j])
    BY <1>4, <1>t, <2>1, EntrySteps DEF Tick, LimiterInv, LimiterTypeOK
  <2>3. \A j \in Clients : /\ attempts'[j].count = attempts[j].count
                           /\ attempts'[j].age <= Window => attempts[j].age <= Window
                           /\ InFlight(j)' = InFlight(j)
    BY <1>t, <2>1, CountSteps DEF InFlight
  <2> QED BY <2>2, <2>3 DEF LimiterInv, RoomForInFlight, BoundedFailures
<1>5. ASSUME Restart PROVE LimiterInv'
  <2>1. LimiterTypeOK' /\ \A j \in Clients : attempts'[j].count = 0
    BY <1>5 DEF Restart, LimiterTypeOK, Attempt, NoAttempt
  <2>2. Cardinality(Reqs) \in Nat
    BY ReqsAssumption, FS_CardinalityType
  <2> QED BY <2>1, <2>2 DEF LimiterInv, RoomForInFlight, BoundedFailures, LockOutlastsWindow
<1> QED BY <1>0, <1>1, <1>2, <1>3, <1>4, <1>5 DEF LimiterNext

THEOREM LimiterInvariant == LimiterSpec => []LimiterInv
  BY LimiterInitInv, LimiterStepInv, PTL DEF LimiterSpec

\* A client's failures counted in a window stay below MaxAttempts plus the
\* attempts that can be in flight, for any number of them.
THEOREM FailuresAreBounded == LimiterSpec => []BoundedFailures
<1>1. LimiterInv => BoundedFailures
  BY DEF LimiterInv
<1> QED BY <1>1, LimiterInvariant, PTL

\* A client let in after a lockout starts with a clean window, because a
\* lockout is never shorter than a window.
THEOREM LockoutThenFreshStart == LimiterSpec => []FreshStart
<1>1. LimiterInv => FreshStart
  BY DurationsAssumption
     DEF LimiterInv, LimiterTypeOK, FreshStart, allowed, Stale, LockOutlastsWindow, Attempt
<1> QED BY <1>1, LimiterInvariant, PTL

-----------------------------------------------------------------------------
(* CSRF tokens. *)

-----------------------------------------------------------------------------
(* A new token is new: there are more tokens than places to hold one. *)

LEMMA UnionBound ==
  ASSUME NEW S, NEW T, IsFiniteSet(S), IsFiniteSet(T)
  PROVE  /\ IsFiniteSet(S \cup T)
         /\ Cardinality(S \cup T) <= Cardinality(S) + Cardinality(T)
<1>1. IsFiniteSet(S \cap T) /\ IsFiniteSet(S \cup T)
  BY FS_Intersection, FS_Union
<1>2. /\ Cardinality(S) \in Nat /\ Cardinality(T) \in Nat
      /\ Cardinality(S \cap T) \in Nat
  BY <1>1, FS_CardinalityType
<1>3. Cardinality(S \cup T) = Cardinality(S) + Cardinality(T) - Cardinality(S \cap T)
  BY FS_Union
<1> QED BY <1>1, <1>2, <1>3

LEMMA ImageBound ==
  ASSUME NEW S, IsFiniteSet(S), NEW f, f = [x \in S |-> f[x]]
  PROVE  /\ IsFiniteSet({f[x] : x \in S})
         /\ Cardinality({f[x] : x \in S}) <= Cardinality(S)
<1>1. f \in Surjection(S, {f[x] : x \in S})
  BY DEF Surjection
<1> QED BY <1>1, FS_Surjection

LEMMA Fresh ==
  ASSUME Tabs # {}
  PROVE  NewToken \in Tokens /\ NewToken \notin About
<1> DEFINE n == Cardinality(Tabs)
           meta == [t \in Tabs |-> tab[t].meta]
           form == [t \in Tabs |-> tab[t].form]
           posted == [t \in Tabs |-> tab[t].posted]
           asked == [t \in Tabs |-> req[t].ask.cookie]
           sub == [t \in Tabs |-> req[t].ask.submitted]
           given == [t \in Tabs |-> req[t].answer.token]
           Of(f) == {f[t] : t \in Tabs}
           Six == {cookie} \cup (Of(meta) \cup (Of(form) \cup (Of(posted)
                    \cup (Of(asked) \cup (Of(sub) \cup Of(given))))))
<1>1. About \subseteq Six
  BY DEF About
<1>2. IsFiniteSet(Tabs) /\ n \in Nat /\ n >= 1
  BY CsrfAssumption, FS_EmptySet, FS_CardinalityType
<1>3. /\ IsFiniteSet(Of(meta)) /\ Cardinality(Of(meta)) <= n
      /\ IsFiniteSet(Of(form)) /\ Cardinality(Of(form)) <= n
      /\ IsFiniteSet(Of(posted)) /\ Cardinality(Of(posted)) <= n
      /\ IsFiniteSet(Of(asked)) /\ Cardinality(Of(asked)) <= n
      /\ IsFiniteSet(Of(sub)) /\ Cardinality(Of(sub)) <= n
      /\ IsFiniteSet(Of(given)) /\ Cardinality(Of(given)) <= n
  BY <1>2, ImageBound
<1>4. IsFiniteSet({cookie}) /\ Cardinality({cookie}) = 1
  BY FS_Singleton
<1>5. ASSUME NEW A, NEW B, NEW C, NEW D, NEW E, NEW F, NEW G,
             IsFiniteSet(A), IsFiniteSet(B), IsFiniteSet(C), IsFiniteSet(D),
             IsFiniteSet(E), IsFiniteSet(F), IsFiniteSet(G),
             Cardinality(A) = 1, Cardinality(B) <= n, Cardinality(C) <= n, Cardinality(D) <= n,
             Cardinality(E) <= n, Cardinality(F) <= n, Cardinality(G) <= n
      PROVE  /\ IsFiniteSet(A \cup (B \cup (C \cup (D \cup (E \cup (F \cup G))))))
             /\ Cardinality(A \cup (B \cup (C \cup (D \cup (E \cup (F \cup G)))))) < 8 * n
  <2>1. IsFiniteSet(F \cup G) /\ Cardinality(F \cup G) <= Cardinality(F) + Cardinality(G)
    BY <1>5, UnionBound
  <2>2. /\ IsFiniteSet(E \cup (F \cup G))
        /\ Cardinality(E \cup (F \cup G)) <= Cardinality(E) + Cardinality(F \cup G)
    BY <1>5, <2>1, UnionBound
  <2>3. /\ IsFiniteSet(D \cup (E \cup (F \cup G)))
        /\ Cardinality(D \cup (E \cup (F \cup G))) <= Cardinality(D) + Cardinality(E \cup (F \cup G))
    BY <1>5, <2>2, UnionBound
  <2>4. /\ IsFiniteSet(C \cup (D \cup (E \cup (F \cup G))))
        /\ Cardinality(C \cup (D \cup (E \cup (F \cup G))))
             <= Cardinality(C) + Cardinality(D \cup (E \cup (F \cup G)))
    BY <1>5, <2>3, UnionBound
  <2>5. /\ IsFiniteSet(B \cup (C \cup (D \cup (E \cup (F \cup G)))))
        /\ Cardinality(B \cup (C \cup (D \cup (E \cup (F \cup G)))))
             <= Cardinality(B) + Cardinality(C \cup (D \cup (E \cup (F \cup G))))
    BY <1>5, <2>4, UnionBound
  <2>6. /\ IsFiniteSet(A \cup (B \cup (C \cup (D \cup (E \cup (F \cup G))))))
        /\ Cardinality(A \cup (B \cup (C \cup (D \cup (E \cup (F \cup G))))))
             <= Cardinality(A) + Cardinality(B \cup (C \cup (D \cup (E \cup (F \cup G)))))
    BY <1>5, <2>5, UnionBound
  <2>7. /\ Cardinality(B) \in Nat /\ Cardinality(C) \in Nat /\ Cardinality(D) \in Nat
        /\ Cardinality(E) \in Nat /\ Cardinality(F) \in Nat /\ Cardinality(G) \in Nat
    BY <1>5, FS_CardinalityType
  <2>8. /\ Cardinality(F \cup G) \in Nat
        /\ Cardinality(E \cup (F \cup G)) \in Nat
        /\ Cardinality(D \cup (E \cup (F \cup G))) \in Nat
        /\ Cardinality(C \cup (D \cup (E \cup (F \cup G)))) \in Nat
        /\ Cardinality(B \cup (C \cup (D \cup (E \cup (F \cup G))))) \in Nat
        /\ Cardinality(A \cup (B \cup (C \cup (D \cup (E \cup (F \cup G)))))) \in Nat
    BY <2>1, <2>2, <2>3, <2>4, <2>5, <2>6, FS_CardinalityType
  <2> HIDE DEF n
  <2> QED BY <1>2, <1>5, <2>1, <2>2, <2>3, <2>4, <2>5, <2>6, <2>7, <2>8
<1>6. IsFiniteSet(Six) /\ Cardinality(Six) < 8 * n
  <2> HIDE DEF Of
  <2> QED BY <1>3, <1>4, <1>5
<1>7. IsFiniteSet(About) /\ Cardinality(About) < 8 * n
  <2> HIDE DEF Six
  <2> QED BY <1>1, <1>2, <1>6, FS_Subset, FS_CardinalityType
<1>8. ~(Tokens \subseteq About)
  BY <1>2, <1>7, CsrfAssumption, FS_Subset, FS_CardinalityType
<1> QED BY <1>8 DEF NewToken

-----------------------------------------------------------------------------
(* The inductive invariant. *)

\* TypeOK, and what makes it inductive: req is a function, and a row put into a
\* page was asked for by htmx.
PageShape(t) ==
  /\ tab[t] \in Tab
  /\ tab[t].page \in {"app", "login"} => tab[t].form # None
  /\ tab[t].page = "app" => tab[t].meta # None

ReqShape(t) ==
  /\ \/ req[t] = Idle
     \/ Sent(t) /\ req[t].ask \in Request
     \/ Answered(t) /\ req[t].ask \in Request /\ req[t].answer \in Answer
  /\ req[t] # Idle /\ req[t].ask.how = "boost" => tab[t].page = "app"
  /\ Answered(t) /\ req[t].answer.status = "row" => req[t].ask.how = "boost"

Shape ==
  /\ cookie \in MaybeToken /\ disturbed \in BOOLEAN /\ trouble \in 0..MaxTrouble
  /\ tab = [t \in Tabs |-> tab[t]] /\ req = [t \in Tabs |-> req[t]]
  /\ \A t \in Tabs : PageShape(t) /\ ReqShape(t)

\* What the browser, its tabs and the server know is one token, that of the
\* cookie; before there is one, one request asks for it and no page is open.
TabAgrees(t) ==
  /\ tab[t].meta \in {None, cookie} /\ tab[t].form \in {None, cookie}
  /\ tab[t].posted \in {None, cookie}
  /\ cookie = None => tab[t].page = "blank"

AskAgrees(ask) ==
  /\ ask.cookie = cookie /\ ask.submitted \in {None, cookie}
  /\ ask.write => cookie # None /\ ask.submitted = cookie

AnswerAgrees(answer) ==
  /\ answer.status # "forbidden"
  /\ IF cookie = None THEN answer.sets ELSE answer.token = cookie /\ ~answer.sets

Agree(t) ==
  /\ TabAgrees(t)
  /\ req[t] # Idle => AskAgrees(req[t].ask)
  /\ Answered(t) => AnswerAgrees(req[t].answer)

OneAsks ==
  cookie = None => \A t, u \in Tabs : req[t] # Idle /\ req[u] # Idle => t = u

CsrfInv == Shape /\ (~disturbed => OneAsks /\ \A t \in Tabs : Agree(t))

LEMMA InitInv == Init => CsrfInv
<1> SUFFICES ASSUME Init PROVE CsrfInv
  OBVIOUS
<1>1. /\ Blank \in Tab /\ Blank.page = "blank" /\ Blank.meta = None
      /\ Blank.form = None /\ Blank.posted = None /\ Idle.pc = "idle"
  BY DEF Blank, Tab, MaybeToken, Idle
<1>2. \A t \in Tabs : tab[t] = Blank /\ req[t] = Idle
  BY DEF Init
<1>3. /\ cookie = None /\ disturbed = FALSE /\ trouble \in 0..MaxTrouble
      /\ tab = [t \in Tabs |-> tab[t]] /\ req = [t \in Tabs |-> req[t]]
  BY CsrfAssumption DEF Init
<1>4. \A t \in Tabs : PageShape(t) /\ ReqShape(t) /\ Agree(t)
  BY <1>1, <1>2, <1>3 DEF PageShape, ReqShape, Agree, TabAgrees, Sent, Answered
<1> QED BY <1>2, <1>3, <1>4 DEF CsrfInv, Shape, OneAsks, MaybeToken

\* A request that agrees with what the browser has may be sent.
LEMMA SendInv ==
  ASSUME CsrfInv, NEW t \in Tabs, NEW how \in {"load", "boost"}, NEW write \in BOOLEAN,
         NEW submitted \in MaybeToken, Send(t, how, write, submitted),
         how = "boost" => tab[t].page = "app",
         ~disturbed => /\ submitted \in {None, cookie}
                       /\ write => cookie # None /\ submitted = cookie
  PROVE  CsrfInv'
<1> DEFINE ask == [how |-> how, write |-> write, followed |-> FALSE,
                   cookie |-> cookie, submitted |-> submitted]
           new == [pc |-> "sent", ask |-> ask]
<1>1. /\ ask \in Request /\ ask.how = how /\ ask.write = write
      /\ ask.cookie = cookie /\ ask.submitted = submitted
  BY DEF CsrfInv, Shape, Request
<1>2. new.pc = "sent" /\ new.ask = ask /\ new # Idle
  BY DEF Idle
<1>3. /\ req[t] = Idle /\ req' = [req EXCEPT ![t] = new]
      /\ disturbed' = (disturbed \/ Races(t)) /\ UNCHANGED <<cookie, tab, trouble>>
  BY DEF Send
<1> HIDE DEF new, ask
<1>4. Shape /\ req'[t] = new /\ \A u \in Tabs \ {t} : req'[u] = req[u]
  BY <1>3 DEF CsrfInv, Shape
<1>5. Shape'
  <2>1. /\ (cookie \in MaybeToken /\ disturbed \in BOOLEAN /\ trouble \in 0..MaxTrouble)'
        /\ tab' = [u \in Tabs |-> tab'[u]] /\ req' = [u \in Tabs |-> req'[u]]
        /\ \A u \in Tabs : PageShape(u)'
    BY <1>3, <1>4 DEF Shape, PageShape, Races
  <2>2. ReqShape(t)'
    BY <1>1, <1>2, <1>3, <1>4 DEF ReqShape, Sent, Answered
  <2>3. \A u \in Tabs \ {t} : ReqShape(u)'
    BY <1>3, <1>4 DEF Shape, ReqShape, Sent, Answered
  <2> QED BY <2>1, <2>2, <2>3 DEF Shape
<1>6. ASSUME ~disturbed' PROVE OneAsks' /\ \A u \in Tabs : Agree(u)'
  <2>1. ~disturbed /\ ~Races(t) /\ OneAsks /\ \A u \in Tabs : Agree(u)
    BY <1>3, <1>6 DEF CsrfInv
  <2>2. Agree(t)'
    BY <1>1, <1>2, <1>3, <1>4, <2>1 DEF Agree, TabAgrees, AskAgrees, Answered
  <2>3. \A u \in Tabs \ {t} : Agree(u)'
    BY <1>3, <1>4, <2>1 DEF Agree, TabAgrees, AskAgrees, AnswerAgrees, Answered
  <2>4. cookie = None => \A u \in Tabs \ {t} : req[u] = Idle
    BY <1>4, <2>1 DEF Agree, AskAgrees, Races, Shape, ReqShape, Sent, Answered
  <2>5. OneAsks'
    BY <1>3, <1>4, <2>4 DEF OneAsks
  <2> QED BY <2>2, <2>3, <2>5
<1> QED BY <1>5, <1>6 DEF CsrfInv

\* The requests a user makes agree.
LEMMA UserInv ==
  ASSUME CsrfInv, NEW t \in Tabs, Visit(t) \/ Reload(t) \/ Follow(t) \/ Try(t)
  PROVE  CsrfInv'
<1>1. /\ PageShape(t) /\ None \in MaybeToken /\ tab[t].meta \in MaybeToken
      /\ tab[t].form \in MaybeToken /\ tab[t].posted \in MaybeToken
      /\ ~disturbed => TabAgrees(t)
  BY DEF CsrfInv, Shape, PageShape, Tab, MaybeToken, Agree
<1>2. CASE Visit(t)
  BY <1>1, <1>2, SendInv DEF Visit
<1>3. CASE Reload(t)
  BY <1>1, <1>3, SendInv DEF Reload, TabAgrees
<1>4. CASE Follow(t)
  BY <1>1, <1>4, SendInv DEF Follow
<1>5. CASE Submit(t)
  BY <1>1, <1>5, SendInv DEF Submit, HeaderToken, TabAgrees, PageShape
<1>6. CASE SubmitPlain(t)
  BY <1>1, <1>6, SendInv DEF SubmitPlain, TabAgrees, PageShape
<1> QED BY <1>2, <1>3, <1>4, <1>5, <1>6 DEF Try

\* A request given up, or an answer lost.
LEMMA LoseInv ==
  ASSUME CsrfInv, NEW t \in Tabs, Lose(t)
  PROVE  CsrfInv'
<1>1. /\ req'[t] = Idle /\ \A u \in Tabs \ {t} : req'[u] = req[u]
      /\ req' = [u \in Tabs |-> req'[u]]
      /\ UNCHANGED <<cookie, tab, disturbed>> /\ trouble' \in 0..MaxTrouble
  BY CsrfAssumption DEF Lose, CsrfInv, Shape
<1>2. Idle.pc = "idle"
  BY DEF Idle
<1>3. Shape'
  BY <1>1, <1>2 DEF CsrfInv, Shape, PageShape, ReqShape, Sent, Answered
<1>4. ASSUME ~disturbed' PROVE OneAsks' /\ \A u \in Tabs : Agree(u)'
  BY <1>1, <1>2, <1>4 DEF CsrfInv, OneAsks, Agree, TabAgrees, AskAgrees, AnswerAgrees, Answered
<1> QED BY <1>3, <1>4 DEF CsrfInv

LEMMA ExpireInv ==
  ASSUME CsrfInv, Expire
  PROVE  CsrfInv'
BY CsrfAssumption DEF Expire, CsrfInv, Shape, PageShape, ReqShape, Sent, Answered, MaybeToken

\* csrfProtect and what is behind it.
LEMMA ServeInv ==
  ASSUME CsrfInv, NEW t \in Tabs, Serve(t)
  PROVE  CsrfInv'
<1> DEFINE ask == req[t].ask
           token == TokenFor(ask)
<1>1. PICK status \in IF Passes(ask, token) THEN Statuses(ask) ELSE {"forbidden"} :
        req' = [req EXCEPT ![t] = [pc |-> "answered", ask |-> ask, answer |->
                  [status |-> status, token |-> token, sets |-> token # ask.cookie]]]
  BY DEF Serve
<1> DEFINE answer == [status |-> status, token |-> token, sets |-> token # ask.cookie]
           new == [pc |-> "answered", ask |-> ask, answer |-> answer]
<1>2. /\ Sent(t) /\ UNCHANGED <<cookie, tab, disturbed, trouble>>
      /\ Shape /\ PageShape(t) /\ ReqShape(t) /\ Idle.pc = "idle"
  BY DEF Serve, CsrfInv, Shape, Idle
<1>3. ask \in Request /\ ask.cookie \in MaybeToken /\ req[t] # Idle
  BY <1>2 DEF ReqShape, Sent, Answered, Request
<1>4. token \in Tokens /\ (ask.cookie # None => token = ask.cookie)
  BY <1>3, Fresh DEF TokenFor, MaybeToken
<1>5. /\ status \in {"app", "login", "redirect", "hx_redirect", "row", "forbidden"}
      /\ status = "row" => ask.how = "boost"
      /\ status = "forbidden" => ask.write /\ ask.submitted # token
  BY DEF Statuses, Passes
<1>6. new.pc = "answered" /\ new.ask = ask /\ new.answer = answer /\ new # Idle
  BY DEF Idle
<1>7. /\ answer.status = status /\ answer.token = token
      /\ answer.sets = (token # ask.cookie) /\ answer \in Answer
  <2>1. (token # ask.cookie) \in BOOLEAN
    OBVIOUS
  <2> HIDE DEF token
  <2> QED BY <1>4, <1>5, <2>1 DEF Answer
<1> HIDE DEF new, answer, token
<1>8. /\ req'[t] = new /\ \A u \in Tabs \ {t} : req'[u] = req[u]
      /\ req' = [u \in Tabs |-> req'[u]]
  BY <1>1, <1>2 DEF Shape, new, answer
<1>9. Shape'
  <2>1. /\ (cookie \in MaybeToken /\ disturbed \in BOOLEAN /\ trouble \in 0..MaxTrouble)'
        /\ tab' = [u \in Tabs |-> tab'[u]] /\ \A u \in Tabs : PageShape(u)'
    BY <1>2 DEF Shape, PageShape
  <2>2. ReqShape(t)'
    BY <1>2, <1>3, <1>5, <1>6, <1>7, <1>8 DEF ReqShape, Sent, Answered
  <2>3. \A u \in Tabs \ {t} : ReqShape(u)'
    BY <1>2, <1>8 DEF Shape, ReqShape, Sent, Answered
  <2> QED BY <1>8, <2>1, <2>2, <2>3 DEF Shape
<1>10. ASSUME ~disturbed' PROVE OneAsks' /\ \A u \in Tabs : Agree(u)'
  <2>1. ~disturbed /\ OneAsks /\ \A u \in Tabs : Agree(u)
    BY <1>2, <1>10 DEF CsrfInv
  <2>2. AskAgrees(ask)
    BY <1>3, <2>1 DEF Agree
  <2>3. AnswerAgrees(answer)
    BY <1>4, <1>5, <1>7, <2>2, CsrfAssumption DEF AnswerAgrees, AskAgrees
  <2>4. Agree(t)'
    BY <1>2, <1>6, <1>8, <2>1, <2>2, <2>3 DEF Agree, TabAgrees, AskAgrees, AnswerAgrees
  <2>5. \A u \in Tabs \ {t} : Agree(u)'
    BY <1>2, <1>8, <2>1 DEF Agree, TabAgrees, AskAgrees, AnswerAgrees, Answered
  <2>6. OneAsks'
    BY <1>2, <1>3, <1>6, <1>8, <2>1 DEF OneAsks
  <2> QED BY <2>4, <2>5, <2>6
<1> QED BY <1>9, <1>10 DEF CsrfInv

\* The answer arrives: with it, where there was none, the cookie.
LEMMA ArriveInv ==
  ASSUME CsrfInv, NEW t \in Tabs, Arrive(t)
  PROVE  CsrfInv'
<1> DEFINE ask == req[t].ask
           answer == req[t].answer
           token == IF answer.sets THEN answer.token ELSE cookie
           onward == answer.status \in {"redirect", "hx_redirect"}
           again == [how |-> IF answer.status = "redirect" THEN ask.how ELSE "load",
                     write |-> FALSE, followed |-> TRUE, cookie |-> token, submitted |-> None]
           new == [pc |-> "sent", ask |-> again]
<1>1. /\ Answered(t) /\ cookie' = token /\ UNCHANGED <<disturbed, trouble>>
      /\ onward => req' = [req EXCEPT ![t] = new] /\ UNCHANGED tab
      /\ ~onward => /\ req' = [req EXCEPT ![t] = Idle]
                    /\ tab' = [tab EXCEPT ![t] = Shown(t, ask, answer)]
  BY DEF Arrive
<1>2. /\ Shape /\ PageShape(t) /\ ReqShape(t) /\ Idle.pc = "idle" /\ req[t] # Idle
  BY <1>1 DEF CsrfInv, Shape, Idle, Answered
<1>3. ask \in Request /\ answer \in Answer
  BY <1>1, <1>2 DEF ReqShape, Sent, Answered
<1>4. /\ ask.how \in {"load", "boost"} /\ ask.submitted \in MaybeToken
      /\ answer.token \in Tokens /\ answer.sets \in BOOLEAN
      /\ answer.status \in {"app", "login", "redirect", "hx_redirect", "row", "forbidden"}
      /\ ask.how = "boost" => tab[t].page = "app"
      /\ answer.status = "row" => ask.how = "boost"
  BY <1>1, <1>2, <1>3 DEF Request, Answer, ReqShape
<1>5. token \in MaybeToken /\ None \in MaybeToken /\ answer.token \in MaybeToken /\ answer.token # None
  BY <1>2, <1>4, CsrfAssumption DEF Shape, MaybeToken
<1>6. /\ again \in Request /\ again.write = FALSE /\ again.cookie = token /\ again.submitted = None
      /\ again.how = "boost" => ask.how = "boost"
  <2> HIDE DEF token
  <2> QED BY <1>4, <1>5 DEF Request
<1>7. new.pc = "sent" /\ new.ask = again /\ new # Idle
  BY DEF Idle
<1> HIDE DEF new, again, ask, answer, token, onward
<1>8. /\ \A u \in Tabs \ {t} : req'[u] = req[u] /\ tab'[u] = tab[u]
      /\ tab' = [u \in Tabs |-> tab'[u]] /\ req' = [u \in Tabs |-> req'[u]]
      /\ onward => req'[t] = new /\ tab'[t] = tab[t]
      /\ ~onward => req'[t] = Idle /\ tab'[t] = Shown(t, ask, answer)
  BY <1>1, <1>2 DEF Shape
\* What is shown is a page, and knows no other token than the answer's.
<1>9. LET shown == Shown(t, ask, answer)
      IN ~onward =>
           /\ shown \in Tab
           /\ shown.page \in {"app", "login"} => shown.form # None
           /\ shown.page = "app" => shown.meta # None
           /\ {shown.meta, shown.form} \subseteq {tab[t].meta, tab[t].form, answer.token, None}
           /\ shown.posted \in {tab[t].posted, ask.submitted, None}
  <2> SUFFICES ASSUME ~onward
               PROVE  LET shown == Shown(t, ask, answer)
                      IN /\ shown \in Tab
                         /\ shown.page \in {"app", "login"} => shown.form # None
                         /\ shown.page = "app" => shown.meta # None
                         /\ {shown.meta, shown.form} \subseteq {tab[t].meta, tab[t].form, answer.token, None}
                         /\ shown.posted \in {tab[t].posted, ask.submitted, None}
    OBVIOUS
  <2>1. CASE ask.how = "boost" /\ answer.status \in {"forbidden", "row"}
    <3>1. Shown(t, ask, answer) = tab[t]
      BY <2>1 DEF Shown
    <3> QED BY <1>2, <3>1 DEF PageShape
  <2>2. CASE ask.how = "boost" /\ answer.status \notin {"forbidden", "row"}
    <3>1. Shown(t, ask, answer) = [tab[t] EXCEPT !.form = answer.token, !.posted = None]
      BY <2>2 DEF Shown
    <3> QED BY <1>2, <1>5, <3>1 DEF PageShape, Tab
  <2>3. CASE ask.how = "load" /\ answer.status = "forbidden"
    <3>1. Shown(t, ask, answer) = [Blank EXCEPT !.page = "refused", !.posted = ask.submitted]
      BY <2>3 DEF Shown
    <3> QED BY <1>4, <1>5, <3>1 DEF Tab, Blank
  <2>4. CASE ask.how = "load" /\ answer.status # "forbidden"
    <3>1. Shown(t, ask, answer) =
            [page |-> answer.status, form |-> answer.token, posted |-> ask.submitted,
             meta |-> IF answer.status = "app" THEN answer.token ELSE None]
      BY <2>4 DEF Shown
    <3>2. answer.status \in {"app", "login"}
      BY <1>4, <2>4 DEF onward
    <3> QED BY <1>4, <1>5, <3>1, <3>2 DEF Tab
  <2> QED BY <1>4, <2>1, <2>2, <2>3, <2>4
<1>10. Shape'
  <2>1. (cookie \in MaybeToken /\ disturbed \in BOOLEAN /\ trouble \in 0..MaxTrouble)'
    BY <1>1, <1>2, <1>5 DEF Shape
  <2>2. PageShape(t)' /\ ReqShape(t)'
    <3>1. CASE onward
      BY <1>2, <1>4, <1>6, <1>7, <1>8, <3>1 DEF PageShape, ReqShape, Sent, Answered
    <3>2. CASE ~onward
      BY <1>2, <1>8, <1>9, <3>2 DEF PageShape, ReqShape, Sent, Answered
    <3> QED BY <3>1, <3>2
  <2>3. \A u \in Tabs \ {t} : PageShape(u)' /\ ReqShape(u)'
    BY <1>2, <1>8 DEF Shape, PageShape, ReqShape, Sent, Answered
  <2> QED BY <1>8, <2>1, <2>2, <2>3 DEF Shape
<1>11. ASSUME ~disturbed' PROVE OneAsks' /\ \A u \in Tabs : Agree(u)'
  <2>1. OneAsks /\ \A u \in Tabs : Agree(u)
    BY <1>1, <1>11 DEF CsrfInv
  <2>2. TabAgrees(t) /\ AskAgrees(ask) /\ AnswerAgrees(answer)
    BY <1>1, <1>2, <2>1 DEF Agree, ask, answer
  <2>3. token = answer.token /\ (cookie # None => token = cookie)
    BY <2>2 DEF AnswerAgrees, token
  <2>4. TabAgrees(t)'
    <3>1. CASE onward
      BY <1>1, <1>5, <1>8, <2>2, <2>3, <3>1 DEF TabAgrees
    <3>2. CASE ~onward
      <4>1. \A x \in {tab[t].meta, tab[t].form, tab[t].posted, ask.submitted, answer.token, None} :
              x \in {None, token}
        BY <2>2, <2>3 DEF TabAgrees, AskAgrees
      <4>2. tab'[t].meta \in {None, token} /\ tab'[t].form \in {None, token} /\ tab'[t].posted \in {None, token}
        BY <1>8, <1>9, <3>2, <4>1
      <4> QED BY <1>1, <1>5, <2>3, <4>2 DEF TabAgrees
    <3> QED BY <3>1, <3>2
  <2>5. Agree(t)'
    <3>1. CASE onward
      BY <1>1, <1>6, <1>7, <1>8, <2>4, <3>1 DEF Agree, AskAgrees, Answered
    <3>2. CASE ~onward
      BY <1>2, <1>8, <2>4, <3>2 DEF Agree, Answered
    <3> QED BY <3>1, <3>2
  <2>6. ASSUME NEW u \in Tabs \ {t} PROVE Agree(u)'
    <3>1. cookie = None => req[u] = Idle
      BY <1>2, <2>1 DEF OneAsks
    <3>2. req'[u] = req[u] /\ tab'[u] = tab[u] /\ Agree(u)
      BY <1>8, <2>1
    <3>3. TabAgrees(u)'
      BY <1>1, <1>5, <2>3, <3>2 DEF Agree, TabAgrees
    <3>4. CASE cookie = None
      BY <1>2, <3>1, <3>2, <3>3, <3>4 DEF Agree, Answered
    <3>5. CASE cookie # None
      BY <1>1, <2>3, <3>2, <3>3, <3>5 DEF Agree, AskAgrees, AnswerAgrees, Answered
    <3> QED BY <3>4, <3>5
  <2>7. OneAsks'
    BY <1>1, <1>5, <2>3 DEF OneAsks
  <2> QED BY <2>5, <2>6, <2>7
<1> QED BY <1>10, <1>11 DEF CsrfInv

LEMMA StepInv == CsrfInv /\ [Next]_vars => CsrfInv'
<1> SUFFICES ASSUME CsrfInv, [Next]_vars PROVE CsrfInv'
  OBVIOUS
<1>1. CASE UNCHANGED vars
  <2>1. Shape'
    BY <1>1 DEF vars, CsrfInv, Shape, PageShape, ReqShape, Sent, Answered
  <2>2. ASSUME ~disturbed' PROVE OneAsks' /\ \A u \in Tabs : Agree(u)'
    BY <1>1, <2>2 DEF vars, CsrfInv, OneAsks, Agree, TabAgrees, AskAgrees, AnswerAgrees, Answered
  <2> QED BY <2>1, <2>2 DEF CsrfInv
<1>2. ASSUME NEW t \in Tabs, Visit(t) \/ Reload(t) \/ Follow(t) \/ Try(t)
      PROVE  CsrfInv'
  BY <1>2, UserInv
<1>3. ASSUME NEW t \in Tabs, Serve(t) PROVE CsrfInv'
  BY <1>3, ServeInv
<1>4. ASSUME NEW t \in Tabs, Arrive(t) PROVE CsrfInv'
  BY <1>4, ArriveInv
<1>5. ASSUME NEW t \in Tabs, Lose(t) PROVE CsrfInv'
  BY <1>5, LoseInv
<1> QED BY <1>1, <1>2, <1>3, <1>4, <1>5, ExpireInv DEF Next

\* However many tabs work side by side, with htmx or without, and whatever is
\* lost or late: no write is refused while the browser keeps the cookie that one
\* request gave it, and no page is without a token to write with.
THEOREM WritesCorrect == Spec => []WritesPass
<1>1. CsrfInv => WritesPass
  <2> SUFFICES ASSUME CsrfInv PROVE WritesPass
    OBVIOUS
  <2>1. TypeOK
    BY DEF CsrfInv, Shape, PageShape, ReqShape, TypeOK
  <2>2. ASSUME NEW t \in Tabs, Refused(t) PROVE disturbed
    BY <2>2 DEF CsrfInv, Agree, AnswerAgrees, Refused
  <2> QED BY <2>1, <2>2 DEF WritesPass
<1> QED BY <1>1, InitInv, StepInv, PTL DEF Spec
=============================================================================
