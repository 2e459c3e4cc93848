--------------------------- MODULE AccountsProofs ---------------------------
(* Machine-checked theorems about Accounts. *)
EXTENDS Accounts, TLAPS

-----------------------------------------------------------------------------
(* Type correctness. *)

\* What each table statement does to the types of the tables it writes.
LEMMA StatementTypes ==
  ASSUME StoreTypeOK, NEW i \in Ids
  PROVE  /\ \A name \in Names, pw \in Passwords :
              InsertUser(i, name, pw) => users' \in [Ids -> UserRow]
         /\ \A pw \in Passwords : SetPassword(i, pw) => users' \in [Ids -> UserRow]
         /\ \A addr \in Addrs : SetEmail(i, addr) => users' \in [Ids -> UserRow]
         /\ \A addr \in Addrs : MarkVerified(i, addr) => users' \in [Ids -> UserRow]
         /\ DeleteUser(i) => /\ users' \in [Ids -> UserRow]
                             /\ sessions' \in [Cookies -> SessionRow]
                             /\ links' \in [Links -> LinkRow]
                             /\ proven' \in SUBSET (Ids \X Addrs)
                             /\ inherited' \in SUBSET (Ids \X Addrs)
<1> USE DEF StoreTypeOK
<1>1. \A name \in Names, pw \in Passwords :
        InsertUser(i, name, pw) => users' \in [Ids -> UserRow]
  <2> SUFFICES ASSUME NEW name \in Names, NEW pw \in Passwords,
                      InsertUser(i, name, pw)
               PROVE  users' \in [Ids -> UserRow]
    OBVIOUS
  <2>1. [NoUser EXCEPT !.name = name, !.pw = pw] \in UserRow
    BY DEF UserRow, NoUser
  <2> QED BY <2>1 DEF InsertUser
<1>2. ASSUME i \in Live
      PROVE  users[i] \in [name : Names, pw : Passwords,
                           email : Addrs \cup {None}, verified : BOOLEAN]
  BY <1>2 DEF UserRow, NoUser, Live
<1>3. \A pw \in Passwords : SetPassword(i, pw) => users' \in [Ids -> UserRow]
  <2> SUFFICES ASSUME NEW pw \in Passwords, SetPassword(i, pw)
               PROVE  users' \in [Ids -> UserRow]
    OBVIOUS
  <2>1. i \in Live => [users[i] EXCEPT !.pw = pw] \in UserRow
    BY <1>2 DEF UserRow
  <2> QED BY <2>1 DEF SetPassword
<1>4. \A addr \in Addrs : SetEmail(i, addr) => users' \in [Ids -> UserRow]
  <2> SUFFICES ASSUME NEW addr \in Addrs, SetEmail(i, addr)
               PROVE  users' \in [Ids -> UserRow]
    OBVIOUS
  <2>1. i \in Live =>
          [users[i] EXCEPT !.email = addr, !.verified = FALSE] \in UserRow
    BY <1>2 DEF UserRow
  <2> QED BY <2>1 DEF SetEmail
<1>5. \A addr \in Addrs : MarkVerified(i, addr) => users' \in [Ids -> UserRow]
  <2> SUFFICES ASSUME NEW addr \in Addrs, MarkVerified(i, addr)
               PROVE  users' \in [Ids -> UserRow]
    OBVIOUS
  <2>1. i \in Live => [users[i] EXCEPT !.verified = TRUE] \in UserRow
    BY <1>2 DEF UserRow
  <2> QED BY <2>1 DEF MarkVerified
<1>6. DeleteUser(i) => /\ users' \in [Ids -> UserRow]
                       /\ sessions' \in [Cookies -> SessionRow]
                       /\ links' \in [Links -> LinkRow]
                       /\ proven' \in SUBSET (Ids \X Addrs)
                       /\ inherited' \in SUBSET (Ids \X Addrs)
  BY DEF DeleteUser, Forget, UserRow, SessionRow, LinkRow
<1> QED BY <1>1, <1>3, <1>4, <1>5, <1>6

\* The initial state is well typed.
LEMMA InitTypes == Init => TypeOK
<1>1. NoUser \in UserRow /\ NoSession \in SessionRow /\ NoLink \in LinkRow
  BY DEF UserRow, SessionRow, LinkRow
<1>2. Idle \in ReqRow /\ LocalsRead(Idle)
  BY DEF Idle, ReqRow, LocalsRead
<1> QED BY <1>1, <1>2 DEF Init, StoreInit, TypeOK, StoreTypeOK

\* A request that goes on with a well-typed row keeps req well typed.
LEMMA GotoTypes ==
  ASSUME TypeOK, NEW r \in Reqs, NEW row \in ReqRow, LocalsRead(row),
         Goto(r, row)
  PROVE  req' \in [Reqs -> ReqRow] /\ \A q \in Reqs : LocalsRead(req'[q])
BY DEF TypeOK, Goto

LEMMA DoneTypes ==
  ASSUME TypeOK, NEW r \in Reqs, Done(r)
  PROVE  req' \in [Reqs -> ReqRow] /\ \A q \in Reqs : LocalsRead(req'[q])
<1>1. Idle \in ReqRow /\ LocalsRead(Idle)
  BY DEF Idle, ReqRow, LocalsRead
<1> QED BY <1>1, GotoTypes DEF Done

\* A request whose credentials were checked holds what startSession needs.
LEMMA WelcomeTypes ==
  ASSUME NEW i \in Ids, NEW name \in Names, NEW pw \in Passwords
  PROVE  Welcome(i, name, pw) \in ReqRow /\ LocalsRead(Welcome(i, name, pw))
BY DEF Welcome, ReqRow, LocalsRead, AuthSteps

\* A new account inherits pairs of an id and an address.
LEMMA NewUserTypes ==
  ASSUME TypeOK, NEW i \in Ids, NEW name \in Names, NEW pw \in Passwords,
         NewUser(i, name, pw)
  PROVE  users' \in [Ids -> UserRow] /\ inherited' \in SUBSET (Ids \X Addrs)
<1>1. ClaimsOf(i) \subseteq Ids \X Addrs
  BY DEF ClaimsOf, MailSteps, TypeOK, LocalsRead
<1>2. StoreTypeOK
  BY DEF TypeOK
<1> QED BY <1>1, <1>2, StatementTypes DEF NewUser, StoreTypeOK

\* Every step keeps the types: one case per action.
LEMMA StepTypes == TypeOK /\ [Next]_vars => TypeOK'
<1> SUFFICES ASSUME TypeOK, [Next]_vars PROVE TypeOK'
  OBVIOUS
<1> USE DEF TypeOK, StoreTypeOK
<1> DEFINE ReqTypeOK == req \in [Reqs -> ReqRow] /\ \A q \in Reqs : LocalsRead(req[q])
<1>1. ASSUME NEW r \in Reqs, SetupCheck(r) PROVE TypeOK'
  <2> DEFINE row == [Idle EXCEPT !.pc = "setup_insert"]
  <2>1. row \in ReqRow /\ LocalsRead(row)
    BY DEF Idle, ReqRow, LocalsRead, AuthSteps, EmailSteps
  <2> QED BY <1>1, <2>1, GotoTypes DEF SetupCheck, storeVars, tables
<1>2. ASSUME NEW r \in Reqs, SetupInsert(r) PROVE TypeOK'
  <2>2. users' \in [Ids -> UserRow] /\ inherited' \in SUBSET (Ids \X Addrs)
    BY <1>2, NewUserTypes DEF SetupInsert, storeVars
  <2>3. ReqTypeOK'
    BY <1>2, WelcomeTypes, GotoTypes, DoneTypes DEF SetupInsert
  <2> QED BY <1>2, <2>2, <2>3 DEF SetupInsert, NewUser, storeVars, tables
<1>3. ASSUME NEW r \in Reqs, LoginLookup(r) PROVE TypeOK'
  <2>2. ReqTypeOK'
    BY <1>3, WelcomeTypes, GotoTypes DEF LoginLookup
  <2> QED BY <1>3, <2>2 DEF LoginLookup, storeVars, tables
<1>4. ASSUME NEW r \in Reqs, SessionInsert(r) PROVE TypeOK'
  <2>1. req[r].id \in Ids /\ req[r].name \in Names /\ req[r].pw \in Passwords
    BY <1>4 DEF SessionInsert, At, LocalsRead
  <2>2. ASSUME NEW c \in Cookies, InsertSession(c, req[r].id, req[r].name, req[r].pw)
        PROVE  /\ sessions' \in [Cookies -> SessionRow]
               /\ issued' \in SUBSET (Cookies \cup Links)
    BY <2>1, <2>2 DEF InsertSession, SessionRow
  <2> QED BY <1>4, <2>2, DoneTypes DEF SessionInsert
<1>5. ASSUME NEW r \in Reqs, StatementFails(r) PROVE TypeOK'
  BY <1>5, DoneTypes DEF StatementFails, storeVars, tables
<1>6. ASSUME NEW r \in Reqs, PwVerify(r) PROVE TypeOK'
  <2> DEFINE row == [req[r] EXCEPT !.pc = "pw_update"]
  <2>1. row \in ReqRow /\ LocalsRead(row)
    BY <1>6 DEF PwVerify, At, Idle, ReqRow, LocalsRead, AuthSteps, EmailSteps
  <2> QED BY <1>6, <2>1, GotoTypes, DoneTypes DEF PwVerify, storeVars, tables
<1>7. ASSUME NEW r \in Reqs, PwUpdate(r) PROVE TypeOK'
  <2>1. req[r].id \in Ids
    BY <1>7 DEF PwUpdate, At, LocalsRead
  <2> QED BY <1>7, <2>1, StatementTypes, DoneTypes DEF PwUpdate
<1>8. ASSUME NEW r \in Reqs, AddInsert(r) PROVE TypeOK'
  <2>1. users' \in [Ids -> UserRow] /\ inherited' \in SUBSET (Ids \X Addrs)
    BY <1>8, NewUserTypes DEF AddInsert, storeVars
  <2>2. ReqTypeOK'
    BY <1>8, DoneTypes DEF AddInsert
  <2> QED BY <1>8, <2>1, <2>2 DEF AddInsert, NewUser, storeVars, tables
<1>9. ASSUME NEW r \in Reqs, DelCount(r) PROVE TypeOK'
  <2> DEFINE row(t) == [Idle EXCEPT !.pc = "del_row", !.id = t]
  <2>1. \A t \in Ids : row(t) \in ReqRow /\ LocalsRead(row(t))
    BY DEF Idle, ReqRow, LocalsRead, AuthSteps, EmailSteps
  <2>2. ReqTypeOK'
    BY <1>9, <2>1, GotoTypes, DoneTypes DEF DelCount
  <2> QED BY <1>9, <2>2 DEF DelCount, storeVars, tables
<1>10. ASSUME NEW r \in Reqs, DelRow(r) PROVE TypeOK'
  <2>1. req[r].id \in Ids
    BY <1>10 DEF DelRow, At, LocalsRead
  <2>2. /\ users' \in [Ids -> UserRow] /\ sessions' \in [Cookies -> SessionRow]
        /\ links' \in [Links -> LinkRow]
        /\ proven' \in SUBSET (Ids \X Addrs) /\ inherited' \in SUBSET (Ids \X Addrs)
    BY <1>10, <2>1, StatementTypes DEF DelRow
  <2>3. ReqTypeOK'
    BY <1>10, DoneTypes DEF DelRow
  <2> QED BY <1>10, <2>2, <2>3 DEF DelRow
<1>11. ASSUME NEW r \in Reqs, NEW c \in Cookies, Authenticate(r, c) PROVE TypeOK'
  <2> DEFINE me == sessions[c].user
  <2>1. me \in Ids /\ users[me].name \in Names \cup {None}
    BY <1>11 DEF Authenticate, HasSession, NoSession, SessionRow, UserRow, NoUser
  <2>2. ASSUME NEW e \in Guarded
        PROVE  SignedIn(e, me) \in ReqRow /\ LocalsRead(SignedIn(e, me))
    <3>1. FirstStep[e] \in {"pw_verify", "add_insert", "del_count", "email_read"}
      BY DEF Guarded, FirstStep
    <3> QED BY <2>1, <3>1 DEF SignedIn, ReqRow, LocalsRead, AuthSteps, EmailSteps
  <2>3. ReqTypeOK'
    BY <1>11, <2>2, GotoTypes DEF Authenticate
  <2> QED BY <1>11, <2>3 DEF Authenticate, storeVars, tables
<1>12. ASSUME NEW c \in Cookies, Logout(c) PROVE TypeOK'
  BY <1>12 DEF Logout, DeleteSession, SessionRow
<1>13. ASSUME NEW c \in Cookies, PruneSession(c) PROVE TypeOK'
  BY <1>13 DEF PruneSession, DeleteSession, SessionRow
<1>14. ASSUME NEW t \in Cookies \cup Links, Lapse(t) PROVE TypeOK'
  BY <1>14 DEF Lapse, tables
<1>15. ASSUME Restart PROVE TypeOK'
  <2>1. Idle \in ReqRow /\ LocalsRead(Idle)
    BY DEF Idle, ReqRow, LocalsRead, AuthSteps, EmailSteps
  <2> QED BY <1>15, <2>1 DEF Restart, storeVars, tables
<1>16. ASSUME NEW r \in Reqs, EmailRead(r) PROVE TypeOK'
  <2> DEFINE row(a) == [req[r] EXCEPT !.pc = "email_update", !.addr = a]
  <2>1. \A a \in Addrs : row(a) \in ReqRow /\ LocalsRead(row(a))
    BY <1>16 DEF EmailRead, At, Idle, ReqRow, LocalsRead, AuthSteps, EmailSteps
  <2>2. ReqTypeOK'
    BY <1>16, <2>1, GotoTypes, DoneTypes DEF EmailRead
  <2> QED BY <1>16, <2>2 DEF EmailRead, storeVars, tables
<1>17. ASSUME NEW r \in Reqs, EmailUpdate(r) PROVE TypeOK'
  <2> DEFINE row == [req[r] EXCEPT !.pc = "email_issue"]
  <2>1. req[r].id \in Ids /\ req[r].addr \in Addrs
    BY <1>17 DEF EmailUpdate, At, LocalsRead
  <2>2. row \in ReqRow /\ LocalsRead(row)
    BY <1>17 DEF EmailUpdate, At, Idle, ReqRow, LocalsRead, AuthSteps, EmailSteps
  <2>3. users' \in [Ids -> UserRow] /\ ReqTypeOK'
    BY <1>17, <2>1, <2>2, GotoTypes, DoneTypes, StatementTypes DEF EmailUpdate
  <2> QED BY <1>17, <2>3 DEF EmailUpdate
<1>a. ASSUME NEW r \in Reqs, NEW purpose \in Purposes, req[r].id \in Ids,
             req[r].addr \in Addrs, IssueAndSend(r, purpose)
      PROVE  TypeOK'
  <2>1. ASSUME NEW l \in Links, IssueLink(l, req[r].id, purpose, req[r].addr),
               Send(l, req[r].addr)
        PROVE  /\ links' \in [Links -> LinkRow]
               /\ issued' \in SUBSET (Cookies \cup Links)
               /\ mailedTo' \in [Links -> Addrs \cup {None}]
    BY <1>a, <2>1 DEF IssueLink, Send, LinkRow
  <2> QED BY <1>a, <2>1, DoneTypes DEF IssueAndSend
<1>18. ASSUME NEW r \in Reqs, EmailIssue(r) PROVE TypeOK'
  BY <1>18, <1>a DEF EmailIssue, At, LocalsRead, Purposes
<1>19. ASSUME NEW r \in Reqs, ResetIssue(r) PROVE TypeOK'
  BY <1>19, <1>a DEF ResetIssue, At, LocalsRead, Purposes
<1>20. ASSUME NEW r \in Reqs, NEW l \in Links, VerifyLookup(r, l) PROVE TypeOK'
  <2> DEFINE row == [Idle EXCEPT !.pc = "verify_consume", !.id = links[l].user,
                                 !.addr = links[l].addr, !.link = l]
  <2>1. links[l].user \in Ids /\ links[l].addr \in Addrs /\ mailedTo[l] \in Addrs
    BY <1>20 DEF VerifyLookup, Presented, HasLink, NoLink, LinkRow
  <2>2. row \in ReqRow /\ LocalsRead(row)
    BY <2>1 DEF Idle, ReqRow, LocalsRead, AuthSteps, EmailSteps
  <2> QED BY <1>20, <2>1, <2>2, GotoTypes DEF VerifyLookup, tables
<1>21. ASSUME NEW r \in Reqs, VerifyConsume(r) PROVE TypeOK'
  <2> DEFINE row == [req[r] EXCEPT !.pc = "verify_mark", !.link = None]
  <2>1. row \in ReqRow /\ LocalsRead(row)
    BY <1>21 DEF VerifyConsume, At, Idle, ReqRow, LocalsRead, AuthSteps, EmailSteps
  <2>2. links' \in [Links -> LinkRow]
    BY <1>21 DEF VerifyConsume, DeleteLink, LinkRow
  <2> QED BY <1>21, <2>1, <2>2, GotoTypes DEF VerifyConsume
<1>22. ASSUME NEW r \in Reqs, ResetConsume(r) PROVE TypeOK'
  <2> DEFINE row == [req[r] EXCEPT !.pc = "reset_signout", !.link = None]
  <2>1. row \in ReqRow /\ LocalsRead(row)
    BY <1>22 DEF ResetConsume, At, Idle, ReqRow, LocalsRead, AuthSteps, EmailSteps
  <2>2. links' \in [Links -> LinkRow]
    BY <1>22 DEF ResetConsume, DeleteLink, LinkRow
  <2> QED BY <1>22, <2>1, <2>2, GotoTypes DEF ResetConsume
<1>23. ASSUME NEW r \in Reqs, VerifyMark(r) PROVE TypeOK'
  <2>1. req[r].id \in Ids /\ req[r].addr \in Addrs
    BY <1>23 DEF VerifyMark, At, LocalsRead
  <2> QED BY <1>23, <2>1, StatementTypes, DoneTypes DEF VerifyMark
<1>24. ASSUME NEW r \in Reqs, NEW addr \in Addrs, ForgotLookup(r, addr) PROVE TypeOK'
  <2> DEFINE row(i) == [Idle EXCEPT !.pc = "reset_issue", !.id = i, !.addr = addr]
  <2>1. \A i \in Ids : row(i) \in ReqRow /\ LocalsRead(row(i))
    BY DEF Idle, ReqRow, LocalsRead, AuthSteps, EmailSteps
  <2>2. ReqTypeOK'
    BY <1>24, <2>1, GotoTypes DEF ForgotLookup, Live
  <2> QED BY <1>24, <2>2 DEF ForgotLookup, storeVars, tables
<1>25. ASSUME NEW r \in Reqs, NEW l \in Links, ResetLookup(r, l) PROVE TypeOK'
  <2> DEFINE row == [Idle EXCEPT !.pc = "reset_store", !.id = links[l].user,
                                 !.link = l]
  <2>1. links[l].user \in Ids
    BY <1>25 DEF ResetLookup, Presented, HasLink, NoLink, LinkRow
  <2>2. row \in ReqRow /\ LocalsRead(row)
    BY <2>1 DEF Idle, ReqRow, LocalsRead, AuthSteps, EmailSteps
  <2> QED BY <1>25, <2>2, GotoTypes DEF ResetLookup, storeVars, tables
<1>26. ASSUME NEW r \in Reqs, ResetStore(r) PROVE TypeOK'
  <2> DEFINE row == [req[r] EXCEPT !.pc = "reset_consume"]
  <2>1. req[r].id \in Ids /\ req[r].link \in Links
    BY <1>26 DEF ResetStore, At, LocalsRead
  <2>2. row \in ReqRow /\ LocalsRead(row)
    BY <1>26 DEF ResetStore, At, Idle, ReqRow, LocalsRead, AuthSteps, EmailSteps
  <2>3. users' \in [Ids -> UserRow] /\ ReqTypeOK'
    BY <1>26, <2>1, <2>2, GotoTypes, StatementTypes DEF ResetStore
  <2> QED BY <1>26, <2>1, <2>3 DEF ResetStore
<1>27. ASSUME NEW r \in Reqs, ResetSignout(r) PROVE TypeOK'
  BY <1>27, DoneTypes DEF ResetSignout, DeleteSessionsOf, SessionRow
<1>28. ASSUME UNCHANGED vars PROVE TypeOK'
  BY <1>28 DEF vars, storeVars, tables
<1> QED
  BY <1>1, <1>2, <1>3, <1>4, <1>5, <1>6, <1>7, <1>8, <1>9, <1>10, <1>11, <1>12, <1>13, <1>14, <1>15, <1>16, <1>17, <1>18, <1>19, <1>20, <1>21, <1>22, <1>23, <1>24, <1>25, <1>26, <1>27, <1>28 DEF Next, AuthNext, EmailNext

\* Types are correct in every reachable state, for any number of accounts,
\* names, passwords, addresses, tokens and concurrent requests.
THEOREM TypeCorrect == Spec => []TypeOK
  BY InitTypes, StepTypes, PTL DEF Spec

-----------------------------------------------------------------------------
(* Accounts, sessions and links outlive requests, not each other. *)

\* What each statement on users does to the set of accounts that exist.
LEMMA LiveSteps ==
  ASSUME TypeOK, NEW i \in Ids
  PROVE  /\ \A name \in Names, pw \in Passwords :
              InsertUser(i, name, pw) => Live \subseteq Live'
         /\ \A pw : SetPassword(i, pw) => Live' = Live
         /\ \A addr : SetEmail(i, addr) => Live' = Live
         /\ \A addr : MarkVerified(i, addr) => Live' = Live
         /\ DeleteUser(i) => Live' = Live \ {i}
<1> USE DEF TypeOK, StoreTypeOK, Live, UserRow, NoUser
<1>1. \A name \in Names, pw \in Passwords :
        InsertUser(i, name, pw) => Live \subseteq Live'
  BY NoneAssumption DEF InsertUser
<1>2. \A pw : SetPassword(i, pw) => Live' = Live
  BY DEF SetPassword
<1>3. \A addr : SetEmail(i, addr) => Live' = Live
  BY DEF SetEmail
<1>4. \A addr : MarkVerified(i, addr) => Live' = Live
  BY DEF MarkVerified
<1>5. DeleteUser(i) => Live' = Live \ {i}
  BY DEF DeleteUser
<1> QED BY <1>1, <1>2, <1>3, <1>4, <1>5

\* Deleting an account takes its sessions and links with it, and inserting a
\* session or a link needs its account: one case per action.
LEMMA StepNoOrphans == TypeOK /\ NoOrphans /\ [Next]_vars => NoOrphans'
<1> SUFFICES ASSUME TypeOK, NoOrphans, [Next]_vars PROVE NoOrphans'
  OBVIOUS
<1>a. ASSUME UNCHANGED tables PROVE NoOrphans'
  BY <1>a DEF NoOrphans, HasSession, Live, tables
<1>b. ASSUME Live \subseteq Live', UNCHANGED <<sessions, links>> PROVE NoOrphans'
  BY <1>b DEF NoOrphans, HasSession
<1>c. \A r \in Reqs : req[r].pc \notin {"idle", "setup_insert"} => req[r].id \in Ids
  BY DEF TypeOK, LocalsRead
<1>1. ASSUME NEW r \in Reqs, SetupCheck(r) PROVE NoOrphans'
  BY <1>1, <1>a DEF SetupCheck, storeVars, tables
<1>2. ASSUME NEW r \in Reqs, SetupInsert(r) PROVE NoOrphans'
  BY <1>2, <1>a, <1>b, LiveSteps DEF SetupInsert, NewUser, storeVars, tables
<1>3. ASSUME NEW r \in Reqs, LoginLookup(r) PROVE NoOrphans'
  BY <1>3, <1>a DEF LoginLookup, storeVars, tables
<1>4. ASSUME NEW r \in Reqs, SessionInsert(r) PROVE NoOrphans'
  BY <1>4 DEF SessionInsert, InsertSession, NoOrphans, HasSession, TypeOK, StoreTypeOK, Live
<1>5. ASSUME NEW r \in Reqs, PwVerify(r) PROVE NoOrphans'
  BY <1>5, <1>a DEF PwVerify, storeVars, tables
<1>6. ASSUME NEW r \in Reqs, PwUpdate(r) PROVE NoOrphans'
  BY <1>6, <1>b, <1>c, LiveSteps DEF PwUpdate, At
<1>7. ASSUME NEW r \in Reqs, AddInsert(r) PROVE NoOrphans'
  BY <1>7, <1>a, <1>b, LiveSteps DEF AddInsert, NewUser, storeVars, tables
<1>8. ASSUME NEW r \in Reqs, DelCount(r) PROVE NoOrphans'
  BY <1>8, <1>a DEF DelCount, storeVars, tables
<1>9. ASSUME NEW r \in Reqs, DelRow(r) PROVE NoOrphans'
  <2>1. req[r].id \in Ids /\ DeleteUser(req[r].id)
    BY <1>9, <1>c DEF DelRow, At
  <2>2. Live' = Live \ {req[r].id}
    BY <2>1, LiveSteps
  <2> QED
    BY <2>1, <2>2 DEF DeleteUser, NoOrphans, HasSession, NoSession, NoLink
<1>10. ASSUME NEW r \in Reqs, StatementFails(r) PROVE NoOrphans'
  BY <1>10, <1>a DEF StatementFails, storeVars, tables
<1>11. ASSUME NEW r \in Reqs, NEW c \in Cookies, Authenticate(r, c) PROVE NoOrphans'
  BY <1>11, <1>a DEF Authenticate, storeVars, tables
<1>12. ASSUME NEW c \in Cookies, Logout(c) PROVE NoOrphans'
  BY <1>12 DEF Logout, DeleteSession, NoOrphans, HasSession, NoSession, TypeOK, StoreTypeOK, Live
<1>13. ASSUME NEW c \in Cookies, PruneSession(c) PROVE NoOrphans'
  BY <1>13 DEF PruneSession, DeleteSession, NoOrphans, HasSession, NoSession, TypeOK, StoreTypeOK, Live
<1>14. ASSUME NEW t \in Cookies \cup Links, Lapse(t) PROVE NoOrphans'
  BY <1>14, <1>a DEF Lapse, storeVars, tables
<1>15. ASSUME Restart PROVE NoOrphans'
  BY <1>15, <1>a DEF Restart, storeVars, tables
<1>16. ASSUME NEW r \in Reqs, EmailRead(r) PROVE NoOrphans'
  BY <1>16, <1>a DEF EmailRead, storeVars, tables
<1>17. ASSUME NEW r \in Reqs, EmailUpdate(r) PROVE NoOrphans'
  BY <1>17, <1>a, <1>b, <1>c, LiveSteps DEF EmailUpdate, At, tables
<1>18. ASSUME NEW r \in Reqs, EmailIssue(r) PROVE NoOrphans'
  BY <1>18 DEF EmailIssue, IssueAndSend, IssueLink, NoOrphans, HasSession, NoLink, Live
<1>19. ASSUME NEW r \in Reqs, VerifyConsume(r) PROVE NoOrphans'
  BY <1>19 DEF VerifyConsume, DeleteLink, NoOrphans, HasSession, NoLink, TypeOK, StoreTypeOK, Live
<1>20. ASSUME NEW r \in Reqs, VerifyMark(r) PROVE NoOrphans'
  BY <1>20, <1>b, <1>c, LiveSteps DEF VerifyMark, At
<1>21. ASSUME NEW r \in Reqs, ResetIssue(r) PROVE NoOrphans'
  BY <1>21 DEF ResetIssue, IssueAndSend, IssueLink, NoOrphans, HasSession, NoLink, Live
<1>22. ASSUME NEW r \in Reqs, ResetStore(r) PROVE NoOrphans'
  BY <1>22, <1>b, <1>c, LiveSteps DEF ResetStore, At
<1>23. ASSUME NEW r \in Reqs, ResetConsume(r) PROVE NoOrphans'
  BY <1>23 DEF ResetConsume, DeleteLink, NoOrphans, HasSession, NoLink, TypeOK, StoreTypeOK, Live
<1>24. ASSUME NEW r \in Reqs, ResetSignout(r) PROVE NoOrphans'
  BY <1>24 DEF ResetSignout, DeleteSessionsOf, NoOrphans, HasSession, NoSession, Live
<1>25. ASSUME NEW r \in Reqs, NEW l \in Links, VerifyLookup(r, l) PROVE NoOrphans'
  BY <1>25, <1>a DEF VerifyLookup, storeVars, tables
<1>26. ASSUME NEW r \in Reqs, NEW l \in Links, ResetLookup(r, l) PROVE NoOrphans'
  BY <1>26, <1>a DEF ResetLookup, storeVars, tables
<1>27. ASSUME NEW r \in Reqs, NEW addr \in Addrs, ForgotLookup(r, addr) PROVE NoOrphans'
  BY <1>27, <1>a DEF ForgotLookup, storeVars, tables
<1> QED
  BY <1>a, <1>1, <1>2, <1>3, <1>4, <1>5, <1>6, <1>7, <1>8, <1>9, <1>10, <1>11, <1>12, <1>13, <1>14, <1>15, <1>16, <1>17, <1>18, <1>19, <1>20, <1>21, <1>22, <1>23, <1>24, <1>25, <1>26, <1>27
     DEF Next, AuthNext, EmailNext, vars, storeVars, tables

\* In every reachable state each session and each mailed link belongs to an
\* account that exists, whatever requests interleave, fail or are cut short.
THEOREM NoOrphansCorrect == Spec => []NoOrphans
<1>1. Init => NoOrphans
  BY DEF Init, StoreInit, NoOrphans, HasSession, NoSession, NoLink
<1> QED BY <1>1, InitTypes, StepTypes, StepNoOrphans, PTL DEF Spec

-----------------------------------------------------------------------------
(* Mailed links and verified addresses. *)

\* A link is delivered to the address on its row or to nobody, and a link not
\* issued yet to nobody.
Delivered ==
  \A l \in Links : /\ l \notin issued => mailedTo[l] = None
                   /\ links[l].user # NoId => mailedTo[l] \in {links[l].addr, None}

\* What an account may stand for: its own proofs, and what it inherited.
Backed == proven \cup inherited

\* What a request in the middle of verifyEmail or forgotPasswordPost read
\* about an account that exists is backed while it runs.
InFlightProven ==
  \A r \in Reqs : req[r].pc \in MailSteps /\ req[r].id \in Live
                   => <<req[r].id, req[r].addr>> \in Backed

ResetProven ==
  \A l \in Links : HasLink(l, "reset") => <<links[l].user, links[l].addr>> \in Backed

\* The invariant that is inductive: VerifiedMeansProven alone says nothing of
\* the request about to mark an address, nor of the link that starts it.
MailInv == Delivered /\ InFlightProven /\ ResetProven /\ VerifiedMeansProven

\* A step that leaves users, links and the mail alone keeps MailInv when the
\* one request that moved holds a backed address.
LEMMA QuietMail ==
  ASSUME TypeOK, MailInv, UNCHANGED <<users, links, mailedTo>>,
         issued \subseteq issued', Backed \subseteq Backed', InFlightProven'
  PROVE  MailInv'
BY DEF MailInv, Delivered, ResetProven, VerifiedMeansProven, HasLink, Backed

LEMMA DoneInFlight ==
  ASSUME TypeOK, InFlightProven, Backed \subseteq Backed', Live' \subseteq Live,
         NEW r \in Reqs, Done(r)
  PROVE  InFlightProven'
BY DEF TypeOK, InFlightProven, Done, Goto, Idle, MailSteps

LEMMA GotoInFlight ==
  ASSUME TypeOK, InFlightProven, Backed \subseteq Backed', Live' \subseteq Live,
         NEW r \in Reqs, NEW row, Goto(r, row),
         row.pc \in MailSteps /\ row.id \in Live => <<row.id, row.addr>> \in Backed'
  PROVE  InFlightProven'
BY DEF TypeOK, InFlightProven, Goto

\* An account that is given an id inherits what requests under way hold of it.
LEMMA NewInFlight ==
  ASSUME TypeOK, InFlightProven, NEW r \in Reqs, NEW row, Goto(r, row),
         row.pc \notin MailSteps,
         NEW i \in Ids, NEW name \in Names, NEW pw \in Passwords, NewUser(i, name, pw)
  PROVE  InFlightProven'
<1>1. \A j \in Live' : j # i => j \in Live
  BY DEF NewUser, InsertUser, Live, TypeOK, StoreTypeOK
<1>2. Backed \subseteq Backed' /\ ClaimsOf(i) \subseteq Backed'
  BY DEF NewUser, Backed
<1>3. ASSUME NEW q \in Reqs, req'[q].pc \in MailSteps, req'[q].id \in Live'
      PROVE  <<req'[q].id, req'[q].addr>> \in Backed'
  <2>1. req'[q] = req[q]
    BY <1>3 DEF Goto, TypeOK
  <2>2. CASE req[q].id = i
    BY <1>2, <1>3, <2>1, <2>2 DEF ClaimsOf
  <2>3. CASE req[q].id # i
    BY <1>1, <1>2, <1>3, <2>1, <2>3 DEF InFlightProven
  <2> QED BY <2>2, <2>3
<1> QED BY <1>3 DEF InFlightProven

\* One case per action.
LEMMA StepMail == TypeOK /\ MailInv /\ [Next]_vars => MailInv'
<1> SUFFICES ASSUME TypeOK, MailInv, [Next]_vars PROVE MailInv'
  OBVIOUS
<1> USE DEF MailInv, MailSteps
<1>u. UNCHANGED users => Live' = Live
  BY DEF Live
<1>l. ASSUME NEW i \in Ids, \/ \E pw : SetPassword(i, pw)
                            \/ \E addr : SetEmail(i, addr) \/ MarkVerified(i, addr)
      PROVE  Live' = Live
  BY <1>l, LiveSteps
<1>v. UNCHANGED <<proven, inherited>> => Backed' = Backed
  BY DEF Backed
<1>a. \A r \in Reqs : req[r].pc \notin {"idle", "setup_insert"} => req[r].id \in Ids
  BY DEF TypeOK, LocalsRead
<1>b. ASSUME UNCHANGED <<links, mailedTo, issued>>, Backed \subseteq Backed',
             InFlightProven',
             VerifiedMeansProven'
      PROVE  MailInv'
  BY <1>b, <1>v DEF Delivered, ResetProven, HasLink
<1>i. ASSUME NEW r \in Reqs, NEW purpose \in Purposes,
             req[r].id \in Ids, req[r].addr \in Addrs,
             purpose = "reset" /\ req[r].id \in Live => <<req[r].id, req[r].addr>> \in Backed,
             IssueAndSend(r, purpose)
      PROVE  MailInv'
  <2>1. InFlightProven'
    BY <1>i, DoneInFlight, <1>u, <1>v DEF IssueAndSend
  <2>2. VerifiedMeansProven'
    BY <1>i DEF IssueAndSend, VerifiedMeansProven
  <2>3. CASE UNCHANGED <<links, issued, mailedTo>>
    BY <1>i, <2>1, <2>2, <2>3, <1>b, <1>v DEF IssueAndSend
  <2>4. ASSUME NEW l \in Links, IssueLink(l, req[r].id, purpose, req[r].addr),
               Send(l, req[r].addr)
        PROVE  Delivered' /\ ResetProven'
    <3>1. Delivered'
      BY <1>i, <2>4 DEF Delivered, IssueLink, Send, NoLink, TypeOK, StoreTypeOK
    <3>2. ResetProven'
      BY <1>i, <2>4, <1>v DEF ResetProven, HasLink, IssueAndSend, IssueLink, NoLink
    <3> QED BY <3>1, <3>2
  <2> QED BY <1>i, <2>1, <2>2, <2>3, <2>4 DEF IssueAndSend
<1>1. ASSUME NEW r \in Reqs, SetupCheck(r) PROVE MailInv'
  BY <1>1, QuietMail, <1>u, <1>v, GotoInFlight DEF SetupCheck, storeVars, tables, Idle
<1>n. ASSUME NEW r \in Reqs, NEW row, Goto(r, row), row.pc \notin MailSteps,
             NEW i \in Ids, NEW name \in Names, NEW pw \in Passwords, NewUser(i, name, pw)
      PROVE  MailInv'
  <2>1. InFlightProven'
    BY <1>n, NewInFlight
  <2>2. VerifiedMeansProven'
    BY <1>n DEF NewUser, InsertUser, VerifiedMeansProven, NoUser, TypeOK, StoreTypeOK
  <2>3. UNCHANGED <<links, mailedTo, issued>> /\ Backed \subseteq Backed'
    BY <1>n DEF NewUser, Backed
  <2> QED BY <2>1, <2>2, <2>3, <1>b
<1>2. ASSUME NEW r \in Reqs, SetupInsert(r) PROVE MailInv'
  <2>1. ASSUME Done(r), UNCHANGED storeVars PROVE MailInv'
    BY <2>1, QuietMail, DoneInFlight, <1>u, <1>v DEF storeVars, tables
  <2>2. \A i, name, pw : Welcome(i, name, pw).pc \notin MailSteps
    BY DEF Welcome
  <2> QED BY <1>2, <2>1, <2>2, <1>n DEF SetupInsert
<1>3. ASSUME NEW r \in Reqs, LoginLookup(r) PROVE MailInv'
  BY <1>3, QuietMail, <1>u, <1>v, GotoInFlight DEF LoginLookup, storeVars, tables, Welcome
<1>4. ASSUME NEW r \in Reqs, SessionInsert(r) PROVE MailInv'
  BY <1>4, QuietMail, <1>u, <1>v, DoneInFlight, <1>u, <1>v DEF SessionInsert, InsertSession
<1>5. ASSUME NEW r \in Reqs, PwVerify(r) PROVE MailInv'
  <2>1. InFlightProven'
    <3>1. [req[r] EXCEPT !.pc = "pw_update"].pc = "pw_update"
      BY DEF TypeOK, ReqRow
    <3> QED BY <1>5, <3>1, DoneInFlight, <1>u, <1>v, GotoInFlight DEF PwVerify, storeVars
  <2> QED BY <1>5, <2>1, QuietMail, <1>u, <1>v DEF PwVerify, storeVars, tables
<1>6. ASSUME NEW r \in Reqs, PwUpdate(r) PROVE MailInv'
  <2>1. InFlightProven'
    BY <1>6, DoneInFlight, <1>l, <1>a, <1>v DEF PwUpdate, At
  <2>2. VerifiedMeansProven'
    BY <1>6, <1>a DEF PwUpdate, At, SetPassword, VerifiedMeansProven, TypeOK, StoreTypeOK, UserRow, NoUser, Live
  <2> QED BY <1>6, <2>1, <2>2, <1>b, <1>v DEF PwUpdate
<1>7. ASSUME NEW r \in Reqs, AddInsert(r) PROVE MailInv'
  <2>1. ASSUME Done(r), UNCHANGED storeVars PROVE MailInv'
    BY <2>1, QuietMail, DoneInFlight, <1>u, <1>v DEF storeVars, tables
  <2> QED BY <1>7, <2>1, <1>n DEF AddInsert, Done, Idle
<1>8. ASSUME NEW r \in Reqs, DelCount(r) PROVE MailInv'
  <2>1. InFlightProven'
    BY <1>8, DoneInFlight, <1>u, <1>v, GotoInFlight DEF DelCount, Idle, storeVars
  <2> QED BY <1>8, <2>1, QuietMail, <1>u, <1>v DEF DelCount, storeVars, tables
<1>9. ASSUME NEW r \in Reqs, DelRow(r) PROVE MailInv'
  <2> DEFINE i == req[r].id
  <2>1. i \in Ids /\ DeleteUser(i) /\ Done(r)
    BY <1>9, <1>a DEF DelRow, At
  <2>2. Live' = Live \ {i}
    BY <2>1, LiveSteps
  <2>3. \A p \in Backed : p[1] # i => p \in Backed'
    BY <2>1 DEF DeleteUser, Forget, Backed
  <2>4. InFlightProven'
    <3>1. \A q \in Reqs : req'[q] = req[q] \/ req'[q].pc = "idle"
      BY <2>1 DEF Done, Goto, Idle, TypeOK
    <3> QED BY <2>2, <2>3, <3>1 DEF InFlightProven
  <2>5. VerifiedMeansProven'
    BY <2>1, <2>3 DEF DeleteUser, VerifiedMeansProven, NoUser, TypeOK, StoreTypeOK, Backed
  <2>6. Delivered' /\ ResetProven'
    BY <1>9, <2>1, <2>3 DEF DelRow, DeleteUser, Delivered, ResetProven, HasLink, NoLink, NoId, Ids
  <2> QED BY <2>4, <2>5, <2>6
<1>10. ASSUME NEW r \in Reqs, StatementFails(r) PROVE MailInv'
  BY <1>10, QuietMail, <1>u, <1>v, DoneInFlight, <1>u, <1>v DEF StatementFails, storeVars, tables
<1>11. ASSUME NEW r \in Reqs, NEW c \in Cookies, Authenticate(r, c) PROVE MailInv'
  <2>1. ASSUME NEW e \in Guarded
        PROVE  SignedIn(e, sessions[c].user).pc
                 \notin {"verify_consume", "verify_mark", "reset_issue"}
    BY DEF SignedIn, Guarded, FirstStep
  <2>2. InFlightProven'
    BY <1>11, <2>1, GotoInFlight, <1>u, <1>v DEF Authenticate, storeVars
  <2> QED BY <1>11, <2>2, QuietMail, <1>u, <1>v DEF Authenticate, storeVars, tables
<1>12. ASSUME NEW c \in Cookies, Logout(c) PROVE MailInv'
  BY <1>12, QuietMail, <1>u, <1>v DEF Logout, InFlightProven
<1>13. ASSUME NEW c \in Cookies, PruneSession(c) PROVE MailInv'
  BY <1>13, QuietMail, <1>u, <1>v DEF PruneSession, InFlightProven
<1>14. ASSUME NEW t \in Cookies \cup Links, Lapse(t) PROVE MailInv'
  BY <1>14, QuietMail, <1>u, <1>v DEF Lapse, InFlightProven, tables
<1>15. ASSUME Restart PROVE MailInv'
  <2>1. InFlightProven'
    BY <1>15 DEF Restart, InFlightProven, Idle
  <2> QED BY <1>15, <2>1, QuietMail, <1>u, <1>v DEF Restart, storeVars, tables
<1>16. ASSUME NEW r \in Reqs, EmailRead(r) PROVE MailInv'
  <2>1. \A a : [req[r] EXCEPT !.pc = "email_update", !.addr = a].pc = "email_update"
    BY DEF TypeOK, ReqRow
  <2>2. InFlightProven'
    BY <1>16, <2>1, DoneInFlight, <1>u, <1>v, GotoInFlight DEF EmailRead, storeVars
  <2> QED BY <1>16, <2>2, QuietMail, <1>u, <1>v DEF EmailRead, storeVars, tables
<1>17. ASSUME NEW r \in Reqs, EmailUpdate(r) PROVE MailInv'
  <2>1. [req[r] EXCEPT !.pc = "email_issue"].pc = "email_issue"
    BY DEF TypeOK, ReqRow
  <2>2. InFlightProven'
    BY <1>17, <2>1, DoneInFlight, <1>l, <1>a, <1>u, <1>v, GotoInFlight DEF EmailUpdate, At
  <2>3. VerifiedMeansProven'
    BY <1>17, <1>a DEF EmailUpdate, At, SetEmail, VerifiedMeansProven, TypeOK, StoreTypeOK, UserRow, NoUser, Live
  <2> QED BY <1>17, <2>2, <2>3, <1>b, <1>v DEF EmailUpdate
<1>18. ASSUME NEW r \in Reqs, EmailIssue(r) PROVE MailInv'
  BY <1>18, <1>i DEF EmailIssue, At, Purposes, TypeOK, LocalsRead
<1>19. ASSUME NEW r \in Reqs, VerifyConsume(r) PROVE MailInv'
  <2> DEFINE row == [req[r] EXCEPT !.pc = "verify_mark", !.link = None]
  <2>1. row.id = req[r].id /\ row.addr = req[r].addr
    BY DEF TypeOK, ReqRow
  <2>a. Goto(r, row) /\ UNCHANGED <<users, proven, inherited>>
    BY <1>19 DEF VerifyConsume
  <2>b. row.id \in Live => <<row.id, row.addr>> \in Backed'
    BY <1>19, <2>1, <2>a, <1>v DEF VerifyConsume, At, InFlightProven
  <2>2. InFlightProven'
    BY <2>a, <2>b, GotoInFlight, <1>u, <1>v
  <2>3. VerifiedMeansProven'
    BY <1>19 DEF VerifyConsume, VerifiedMeansProven
  <2>4. Delivered' /\ ResetProven'
    BY <1>19, <1>v DEF VerifyConsume, DeleteLink, Delivered, ResetProven, HasLink, NoLink, TypeOK, StoreTypeOK
  <2> QED BY <1>19, <2>2, <2>3, <2>4
<1>20. ASSUME NEW r \in Reqs, VerifyMark(r) PROVE MailInv'
  <2>1. InFlightProven'
    BY <1>20, DoneInFlight, <1>l, <1>a, <1>v DEF VerifyMark, At, TypeOK, LocalsRead
  <2>2. VerifiedMeansProven'
    BY <1>20 DEF VerifyMark, At, MarkVerified, VerifiedMeansProven, InFlightProven, Backed,
             TypeOK, StoreTypeOK, UserRow, NoUser, Live
  <2> QED BY <1>20, <2>1, <2>2, <1>b, <1>v DEF VerifyMark
<1>21. ASSUME NEW r \in Reqs, ResetIssue(r) PROVE MailInv'
  BY <1>21, <1>i DEF ResetIssue, At, Purposes, TypeOK, LocalsRead, InFlightProven
<1>22. ASSUME NEW r \in Reqs, ResetStore(r) PROVE MailInv'
  <2>1. [req[r] EXCEPT !.pc = "reset_consume"].pc = "reset_consume"
    BY DEF TypeOK, ReqRow
  <2>2. InFlightProven'
    BY <1>22, <2>1, GotoInFlight, <1>l, <1>a, <1>v DEF ResetStore, At
  <2>3. VerifiedMeansProven'
    BY <1>22, <1>a DEF ResetStore, At, SetPassword, VerifiedMeansProven, TypeOK, StoreTypeOK, UserRow, NoUser, Live
  <2> QED BY <1>22, <2>2, <2>3, <1>b, <1>v DEF ResetStore
<1>23. ASSUME NEW r \in Reqs, ResetConsume(r) PROVE MailInv'
  <2>1. [req[r] EXCEPT !.pc = "reset_signout", !.link = None].pc = "reset_signout"
    BY DEF TypeOK, ReqRow
  <2>2. InFlightProven'
    BY <1>23, <2>1, GotoInFlight, <1>u, <1>v DEF ResetConsume
  <2>3. VerifiedMeansProven'
    BY <1>23 DEF ResetConsume, VerifiedMeansProven
  <2>4. Delivered' /\ ResetProven'
    BY <1>23, <1>v DEF ResetConsume, DeleteLink, Delivered, ResetProven, HasLink, NoLink, TypeOK, StoreTypeOK
  <2> QED BY <1>23, <2>2, <2>3, <2>4
<1>24. ASSUME NEW r \in Reqs, ResetSignout(r) PROVE MailInv'
  BY <1>24, QuietMail, <1>u, <1>v, DoneInFlight, <1>u, <1>v DEF ResetSignout
<1>25. ASSUME NEW r \in Reqs, NEW l \in Links, VerifyLookup(r, l) PROVE MailInv'
  <2> DEFINE row == [Idle EXCEPT !.pc = "verify_consume", !.id = links[l].user,
                                 !.addr = links[l].addr, !.link = l]
  <2>1. mailedTo[l] = links[l].addr
    BY <1>25 DEF VerifyLookup, Presented, HasLink, Delivered
  <2>2. row.id = links[l].user /\ row.addr = links[l].addr
    BY DEF Idle
  <2>a. Goto(r, row) /\ Backed \subseteq Backed' /\ UNCHANGED users
    BY <1>25 DEF VerifyLookup, Backed, tables
  <2>b. <<row.id, row.addr>> \in Backed'
    BY <1>25, <2>1, <2>2 DEF VerifyLookup, Backed
  <2>3. InFlightProven'
    BY <2>a, <2>b, GotoInFlight, <1>u, <1>v
  <2> QED BY <1>25, <2>a, <2>3, QuietMail DEF VerifyLookup, tables
<1>26. ASSUME NEW r \in Reqs, NEW l \in Links, ResetLookup(r, l) PROVE MailInv'
  <2> DEFINE row == [Idle EXCEPT !.pc = "reset_store", !.id = links[l].user,
                                 !.link = l]
  <2>1. row.pc = "reset_store"
    BY DEF Idle
  <2>2. InFlightProven'
    BY <1>26, <2>1, GotoInFlight, <1>u, <1>v DEF ResetLookup, storeVars
  <2> QED BY <1>26, <2>2, QuietMail, <1>u, <1>v DEF ResetLookup, storeVars, tables
<1>27. ASSUME NEW r \in Reqs, NEW addr \in Addrs, ForgotLookup(r, addr) PROVE MailInv'
  <2> DEFINE row(i) == [Idle EXCEPT !.pc = "reset_issue", !.id = i, !.addr = addr]
  <2>1. \A i : row(i).id = i /\ row(i).addr = addr
    BY DEF Idle
  <2>2. PICK i \in Live : /\ users[i].email = addr /\ users[i].verified
                         /\ Goto(r, row(i))
    BY <1>27 DEF ForgotLookup
  <2>3. UNCHANGED <<proven, inherited>> /\ <<row(i).id, row(i).addr>> \in Backed'
    BY <1>27, <2>1, <2>2 DEF ForgotLookup, storeVars, VerifiedMeansProven, Live, Backed
  <2>4. InFlightProven'
    BY <1>27, <2>2, <2>3, GotoInFlight, <1>u, <1>v DEF ForgotLookup, storeVars
  <2> QED BY <1>27, <2>4, QuietMail, <1>u, <1>v DEF ForgotLookup, storeVars, tables
<1>28. ASSUME UNCHANGED vars PROVE MailInv'
  BY <1>28, QuietMail, <1>u, <1>v DEF vars, storeVars, tables, InFlightProven
<1> QED
  BY <1>1, <1>2, <1>3, <1>4, <1>5, <1>6, <1>7, <1>8, <1>9, <1>10, <1>11, <1>12, <1>13, <1>14, <1>15, <1>16, <1>17, <1>18, <1>19, <1>20, <1>21, <1>22, <1>23, <1>24, <1>25, <1>26, <1>27, <1>28
     DEF Next, AuthNext, EmailNext

LEMMA InitMail == Init => MailInv
BY DEF Init, StoreInit, MailInv, Delivered, InFlightProven, ResetProven,
       VerifiedMeansProven, HasLink, NoUser, NoLink, Idle, MailSteps

\* An address marked verified was confirmed from that mailbox by its account,
\* or by one whose id it was given while the confirmation was under way, for
\* any number of accounts and of concurrent requests, with failures and restarts.
THEOREM VerifiedCorrect == Spec => []VerifiedMeansProven
<1>1. MailInv => VerifiedMeansProven
  BY DEF MailInv
<1> QED BY <1>1, InitTypes, StepTypes, InitMail, StepMail, PTL DEF Spec

\* Every password-reset link is delivered to nobody but the mailbox it was made
\* for, which its account has proven, or one whose id it was given while the
\* request for the link was under way.
THEOREM ResetMailCorrect == Spec => []ResetOnlyToProven
<1>1. MailInv => ResetOnlyToProven
  BY DEF MailInv, Delivered, ResetProven, ResetOnlyToProven, HasLink, Backed
<1> QED BY <1>1, InitTypes, StepTypes, InitMail, StepMail, PTL DEF Spec

-----------------------------------------------------------------------------
(* Keys, and the life of a mailed link. *)

\* What a step may do to table users: nothing, or one of six statements.
LEMMA UsersSteps ==
  ASSUME TypeOK, [Next]_vars
  PROVE  \/ UNCHANGED users
         \/ \E i \in Ids, name \in Names, pw \in Passwords : NewUser(i, name, pw)
         \/ \E i \in Ids, pw \in Passwords : SetPassword(i, pw)
         \/ \E i \in Ids, addr \in Addrs : ~AddrTaken(addr, i) /\ SetEmail(i, addr)
         \/ \E i \in Ids, addr \in Addrs : MarkVerified(i, addr)
         \/ \E r \in Reqs : DelRow(r)
<1> DEFINE Goal == \/ UNCHANGED users
                   \/ \E i \in Ids, name \in Names, pw \in Passwords : NewUser(i, name, pw)
                   \/ \E i \in Ids, pw \in Passwords : SetPassword(i, pw)
                   \/ \E i \in Ids, addr \in Addrs : ~AddrTaken(addr, i) /\ SetEmail(i, addr)
                   \/ \E i \in Ids, addr \in Addrs : MarkVerified(i, addr)
                   \/ \E r \in Reqs : DelRow(r)
<1>a. \A r \in Reqs : LocalsRead(req[r])
  BY DEF TypeOK
<1>1. ASSUME NEW r \in Reqs, SetupInsert(r) PROVE Goal
  BY <1>1 DEF SetupInsert, storeVars
<1>2. ASSUME NEW r \in Reqs, AddInsert(r) PROVE Goal
  BY <1>2 DEF AddInsert, storeVars
<1>3. ASSUME NEW r \in Reqs, PwUpdate(r) PROVE Goal
  BY <1>3, <1>a DEF PwUpdate, At, LocalsRead
<1>4. ASSUME NEW r \in Reqs, ResetStore(r) PROVE Goal
  BY <1>4, <1>a DEF ResetStore, At, LocalsRead
<1>5. ASSUME NEW r \in Reqs, EmailUpdate(r) PROVE Goal
  <2>1. req[r].id \in Ids /\ req[r].addr \in Addrs
    BY <1>5, <1>a DEF EmailUpdate, At, LocalsRead
  <2>2. CASE req[r].id \in Live
    BY <1>5, <2>1, <2>2 DEF EmailUpdate
  <2>3. CASE req[r].id \notin Live
    BY <1>5, <2>1, <2>3 DEF EmailUpdate, SetEmail
  <2> QED BY <2>2, <2>3
<1>6. ASSUME NEW r \in Reqs, VerifyMark(r) PROVE Goal
  BY <1>6, <1>a DEF VerifyMark, At, LocalsRead
<1>7. ASSUME NEW r \in Reqs, DelRow(r) PROVE Goal
  BY <1>7
<1>8. ASSUME NEW r \in Reqs,
             \/ SetupCheck(r) \/ LoginLookup(r) \/ SessionInsert(r) \/ PwVerify(r)
             \/ DelCount(r) \/ StatementFails(r) \/ EmailRead(r) \/ EmailIssue(r)
             \/ VerifyConsume(r) \/ ResetIssue(r) \/ ResetConsume(r)
             \/ ResetSignout(r)
             \/ \E c \in Cookies : Authenticate(r, c)
             \/ \E l \in Links : VerifyLookup(r, l) \/ ResetLookup(r, l)
             \/ \E addr \in Addrs : ForgotLookup(r, addr)
      PROVE  UNCHANGED users
  BY <1>8 DEF SetupCheck, LoginLookup, SessionInsert, PwVerify, DelCount, StatementFails,
              EmailRead, EmailIssue, VerifyConsume, ResetIssue, ResetConsume, ResetSignout,
              Authenticate, VerifyLookup, ResetLookup, ForgotLookup, IssueAndSend,
              storeVars, tables
<1>9. ASSUME \/ \E c \in Cookies : Logout(c) \/ PruneSession(c)
             \/ \E t \in Cookies \cup Links : Lapse(t)
             \/ Restart \/ UNCHANGED vars
      PROVE  UNCHANGED users
  BY <1>9 DEF Logout, PruneSession, Lapse, Restart, vars, storeVars, tables
<1> QED
  BY <1>1, <1>2, <1>3, <1>4, <1>5, <1>6, <1>7, <1>8, <1>9 DEF Next, AuthNext, EmailNext

\* A username is taken by the INSERT that checks it and by nothing else; an
\* address by the UPDATE that checks it.
LEMMA StepUniqueKeys == TypeOK /\ UniqueKeys /\ [Next]_vars => UniqueKeys'
<1> SUFFICES ASSUME TypeOK, UniqueKeys, [Next]_vars PROVE UniqueKeys'
  OBVIOUS
<1> USE DEF TypeOK, StoreTypeOK, UniqueKeys, Live
<1>1. CASE UNCHANGED users
  BY <1>1
<1>2. ASSUME NEW i \in Ids, NEW name \in Names, NEW pw \in Passwords,
             NewUser(i, name, pw)
      PROVE  UniqueKeys'
  BY <1>2 DEF NewUser, InsertUser, NoUser, NameTaken
<1>3. ASSUME NEW i \in Ids, NEW pw \in Passwords, SetPassword(i, pw)
      PROVE  UniqueKeys'
  BY <1>3 DEF SetPassword, UserRow, NoUser
<1>4. ASSUME NEW i \in Ids, NEW addr \in Addrs, ~AddrTaken(addr, i), SetEmail(i, addr)
      PROVE  UniqueKeys'
  BY <1>4 DEF SetEmail, AddrTaken, UserRow, NoUser
<1>5. ASSUME NEW i \in Ids, NEW addr \in Addrs, MarkVerified(i, addr)
      PROVE  UniqueKeys'
  BY <1>5 DEF MarkVerified, UserRow, NoUser
<1>6. ASSUME NEW r \in Reqs, DelRow(r)
      PROVE  UniqueKeys'
  BY <1>6 DEF DelRow, DeleteUser, NoUser
<1> QED BY <1>1, <1>2, <1>3, <1>4, <1>5, <1>6, UsersSteps

\* In every reachable state a username, or an e-mail address, names at most
\* one account, so that login and forgotten-password look-ups cannot pick the
\* wrong one, whatever requests interleave.
THEOREM UniqueKeysCorrect == Spec => []UniqueKeys
<1>1. Init => UniqueKeys
  BY DEF Init, StoreInit, UniqueKeys, Live, NoUser
<1> QED BY <1>1, InitTypes, StepTypes, StepUniqueKeys, PTL DEF Spec

\* What a step may do to table email_tokens.
LEMMA LinksSteps ==
  ASSUME TypeOK, [Next]_vars
  PROVE  /\ issued \subseteq issued' /\ spent \subseteq spent'
         /\ \/ UNCHANGED links
            \/ \E l \in Links, i \in Ids, purpose \in Purposes, addr \in Addrs :
                 IssueLink(l, i, purpose, addr)
            \/ \E r \in Reqs : /\ At(r, "verify_consume") \/ At(r, "reset_consume")
                               /\ DeleteLink(req[r].link)
            \/ \E i \in Ids : DeleteUser(i)
<1> DEFINE Goal ==
      /\ issued \subseteq issued' /\ spent \subseteq spent'
      /\ \/ UNCHANGED links
         \/ \E l \in Links, i \in Ids, purpose \in Purposes, addr \in Addrs :
              IssueLink(l, i, purpose, addr)
         \/ \E r \in Reqs : /\ At(r, "verify_consume") \/ At(r, "reset_consume")
                            /\ DeleteLink(req[r].link)
         \/ \E i \in Ids : DeleteUser(i)
<1>a. \A r \in Reqs : LocalsRead(req[r])
  BY DEF TypeOK
<1>1. ASSUME NEW r \in Reqs, EmailIssue(r) \/ ResetIssue(r) PROVE Goal
  <2>1. req[r].id \in Ids /\ req[r].addr \in Addrs
    BY <1>1, <1>a DEF EmailIssue, ResetIssue, At, LocalsRead
  <2>2. PICK purpose \in Purposes : IssueAndSend(r, purpose)
    BY <1>1 DEF EmailIssue, ResetIssue, Purposes
  <2>3. ASSUME NEW l \in Links, IssueLink(l, req[r].id, purpose, req[r].addr)
        PROVE  Goal
    BY <2>1, <2>2, <2>3 DEF IssueAndSend, IssueLink
  <2> QED BY <2>2, <2>3 DEF IssueAndSend
<1>2. ASSUME NEW r \in Reqs, VerifyConsume(r) \/ ResetConsume(r) PROVE Goal
  BY <1>2 DEF VerifyConsume, ResetConsume
<1>3. ASSUME NEW r \in Reqs, DelRow(r) PROVE Goal
  BY <1>3, <1>a DEF DelRow, At, LocalsRead
<1>4. ASSUME NEW r \in Reqs,
             \/ SetupCheck(r) \/ SetupInsert(r) \/ LoginLookup(r) \/ PwVerify(r)
             \/ PwUpdate(r) \/ AddInsert(r) \/ DelCount(r) \/ StatementFails(r)
             \/ EmailRead(r) \/ EmailUpdate(r) \/ VerifyMark(r) \/ ResetSignout(r)
             \/ \E c \in Cookies : Authenticate(r, c)
             \/ \E l \in Links : VerifyLookup(r, l) \/ ResetLookup(r, l)
             \/ \E addr \in Addrs : ForgotLookup(r, addr)
      PROVE  UNCHANGED <<links, issued, spent>>
  BY <1>4 DEF SetupCheck, SetupInsert, NewUser, LoginLookup, PwVerify, PwUpdate, AddInsert,
              DelCount, StatementFails, EmailRead, EmailUpdate, VerifyMark, ResetSignout,
              Authenticate, VerifyLookup, ResetLookup, ForgotLookup, storeVars, tables
<1>5. ASSUME NEW r \in Reqs, SessionInsert(r) \/ ResetStore(r) PROVE Goal
  BY <1>5 DEF SessionInsert, InsertSession, ResetStore
<1>6. ASSUME \/ \E c \in Cookies : Logout(c) \/ PruneSession(c)
             \/ \E t \in Cookies \cup Links : Lapse(t)
             \/ Restart \/ UNCHANGED vars
      PROVE  UNCHANGED <<links, issued, spent>>
  BY <1>6 DEF Logout, PruneSession, Lapse, Restart, vars, storeVars, tables
<1> QED
  BY <1>1, <1>2, <1>3, <1>4, <1>5, <1>6 DEF Next, AuthNext, EmailNext

\* The transaction that issues a link deletes those it replaces.
LEMMA StepOneLink == TypeOK /\ OneLinkPerPurpose /\ [Next]_vars => OneLinkPerPurpose'
<1> SUFFICES ASSUME TypeOK, OneLinkPerPurpose, [Next]_vars PROVE OneLinkPerPurpose'
  OBVIOUS
<1> USE DEF OneLinkPerPurpose, NoLink
<1>1. CASE UNCHANGED links
  BY <1>1
<1>2. ASSUME NEW l \in Links, NEW i \in Ids, NEW purpose \in Purposes, NEW addr \in Addrs,
             IssueLink(l, i, purpose, addr)
      PROVE  OneLinkPerPurpose'
  BY <1>2 DEF IssueLink
<1>3. ASSUME NEW r \in Reqs, DeleteLink(req[r].link)
      PROVE  OneLinkPerPurpose'
  BY <1>3 DEF DeleteLink, TypeOK, StoreTypeOK
<1>4. ASSUME NEW i \in Ids, DeleteUser(i)
      PROVE  OneLinkPerPurpose'
  BY <1>4 DEF DeleteUser
<1> QED BY <1>1, <1>2, <1>3, <1>4, LinksSteps

\* In every reachable state an account has at most one verify link and one
\* reset link with a row, so the newest message is the one that works.
THEOREM OneLinkCorrect == Spec => []OneLinkPerPurpose
<1>1. Init => OneLinkPerPurpose
  BY DEF Init, StoreInit, OneLinkPerPurpose, NoLink
<1> QED BY <1>1, InitTypes, StepTypes, StepOneLink, PTL DEF Spec

\* A link with a row was issued.
RowsIssued == \A l \in Links : links[l].user # NoId => l \in issued

\* What a request between two statements may count on about its link: it is
\* not a reset link, or belongs to the account whose password it stores, or
\* has changed it.
InFlightLink(r) ==
  /\ req[r].pc \in {"verify_consume", "reset_store", "reset_consume"} =>
       req[r].link \in issued
  /\ At(r, "verify_consume") => ~HasLink(req[r].link, "reset")
  /\ At(r, "reset_store") /\ HasLink(req[r].link, "reset") =>
       links[req[r].link].user = req[r].id
  /\ At(r, "reset_consume") /\ HasLink(req[r].link, "reset") =>
       req[r].link \in spent

\* Inductive with TypeOK and NoOrphans: the property is about a step, and the
\* steps that consume a link go by what an earlier one read.
BurnInv == RowsIssued /\ \A r \in Reqs : InFlightLink(r)

\* Once issued, a link keeps its row until it loses it for good.
LEMMA IssuedLinks ==
  ASSUME TypeOK, BurnInv, [Next]_vars
  PROVE  /\ RowsIssued'
         /\ issued \subseteq issued' /\ spent \subseteq spent'
         /\ \A l \in Links \cap issued : links'[l] \in {links[l], NoLink}
<1> USE DEF TypeOK, StoreTypeOK, BurnInv, RowsIssued, NoLink
<1> DEFINE Kept == RowsIssued' /\ \A l \in Links \cap issued : links'[l] \in {links[l], NoLink}
<1>a. issued \subseteq issued' /\ spent \subseteq spent'
  BY LinksSteps
<1>1. CASE UNCHANGED links
  BY <1>1, <1>a
<1>2. ASSUME NEW l \in Links, NEW i \in Ids, NEW purpose \in Purposes, NEW addr \in Addrs,
             IssueLink(l, i, purpose, addr)
      PROVE  Kept
  BY <1>2 DEF IssueLink
<1>3. ASSUME NEW r \in Reqs, DeleteLink(req[r].link)
      PROVE  Kept
  BY <1>3, <1>a DEF DeleteLink
<1>4. ASSUME NEW i \in Ids, DeleteUser(i)
      PROVE  Kept
  BY <1>4, <1>a DEF DeleteUser
<1> QED BY <1>a, <1>1, <1>2, <1>3, <1>4, LinksSteps

\* A request that was where it is keeps what it counts on.
LEMMA SameRequest ==
  ASSUME TypeOK, BurnInv, [Next]_vars, NEW r \in Reqs, req'[r] = req[r]
  PROVE  InFlightLink(r)'
<1>1. req[r].pc \in {"verify_consume", "reset_store", "reset_consume"} =>
        /\ req[r].link \in Links \cap issued
        /\ links'[req[r].link] \in {links[req[r].link], NoLink}
  BY IssuedLinks DEF TypeOK, LocalsRead, BurnInv, InFlightLink
<1> QED
  BY <1>1, IssuedLinks DEF BurnInv, InFlightLink, At, HasLink, NoLink

\* A request that goes on to any other statement counts on nothing.
LEMMA OtherRequest ==
  ASSUME NEW r \in Reqs,
         req'[r].pc \notin {"verify_consume", "reset_store", "reset_consume"}
  PROVE  InFlightLink(r)'
BY DEF InFlightLink, At

\* The requests a step leaves where they are, and the one it moves.
LEMMA GotoOthers ==
  ASSUME TypeOK, NEW r \in Reqs, NEW row, Goto(r, row)
  PROVE  req'[r] = row /\ \A q \in Reqs \ {r} : req'[q] = req[q]
BY DEF TypeOK, Goto

LEMMA StepBurn == TypeOK /\ NoOrphans /\ BurnInv /\ [Next]_vars => BurnInv'
<1> SUFFICES ASSUME TypeOK, NoOrphans, BurnInv, [Next]_vars,
                    NEW q \in Reqs
             PROVE  InFlightLink(q)'
  BY IssuedLinks DEF BurnInv
<1> DEFINE Tricky == {"verify_consume", "reset_store", "reset_consume"}
<1> SUFFICES ASSUME req'[q] # req[q], req'[q].pc \in Tricky
             PROVE  InFlightLink(q)'
  BY SameRequest, OtherRequest
<1>a. Idle.pc = "idle"
  BY DEF Idle
<1>b. ASSUME NEW r \in Reqs, NEW row, Goto(r, row) PROVE q = r /\ row = req'[q]
  BY <1>b, GotoOthers
<1>c. \A r \in Reqs : \A row : Goto(r, row) => row.pc \in Tricky
  BY <1>b
<1>d. \A r \in Reqs : ~Done(r)
  BY <1>a, <1>c DEF Done
<1>e. ASSUME NEW r \in Reqs, NEW pc, pc \notin Tricky, NEW i, NEW a
      PROVE  /\ ~Goto(r, [req[r] EXCEPT !.pc = pc])
             /\ ~Goto(r, [req[r] EXCEPT !.pc = pc, !.addr = a])
             /\ ~Goto(r, [req[r] EXCEPT !.pc = pc, !.link = a])
             /\ ~Goto(r, [Idle EXCEPT !.pc = pc])
             /\ ~Goto(r, [Idle EXCEPT !.pc = pc, !.id = i])
             /\ ~Goto(r, [Idle EXCEPT !.pc = pc, !.id = i, !.addr = a])
  <2>1. /\ [req[r] EXCEPT !.pc = pc].pc = pc
        /\ [req[r] EXCEPT !.pc = pc, !.addr = a].pc = pc
        /\ [req[r] EXCEPT !.pc = pc, !.link = a].pc = pc
    BY DEF TypeOK, ReqRow
  <2>2. /\ [Idle EXCEPT !.pc = pc].pc = pc
        /\ [Idle EXCEPT !.pc = pc, !.id = i].pc = pc
        /\ [Idle EXCEPT !.pc = pc, !.id = i, !.addr = a].pc = pc
    BY DEF Idle
  <2> QED BY <1>c, <1>e, <2>1, <2>2
<1>1. ASSUME NEW r \in Reqs, NEW l \in Links, VerifyLookup(r, l)
      PROVE  InFlightLink(q)'
  <2> DEFINE row == [Idle EXCEPT !.pc = "verify_consume", !.id = links[l].user,
                                 !.addr = links[l].addr, !.link = l]
  <2>1. row.pc = "verify_consume" /\ row.link = l
    BY DEF Idle
  <2>2. q = r /\ req'[q] = row
    BY <1>1, <1>b DEF VerifyLookup
  <2>3. l \in issued /\ ~HasLink(l, "reset")
    BY <1>1 DEF VerifyLookup, Presented, HasLink, BurnInv, RowsIssued
  <2> QED BY <1>1, <2>1, <2>2, <2>3 DEF VerifyLookup, InFlightLink, At, HasLink, tables
<1>2. ASSUME NEW r \in Reqs, NEW l \in Links, ResetLookup(r, l)
      PROVE  InFlightLink(q)'
  <2> DEFINE row == [Idle EXCEPT !.pc = "reset_store", !.id = links[l].user, !.link = l]
  <2>1. row.pc = "reset_store" /\ row.link = l /\ row.id = links[l].user
    BY DEF Idle
  <2>2. q = r /\ req'[q] = row
    BY <1>2, <1>b DEF ResetLookup
  <2>3. l \in issued
    BY <1>2 DEF ResetLookup, Presented, HasLink, BurnInv, RowsIssued
  <2> QED BY <1>2, <2>1, <2>2, <2>3 DEF ResetLookup, InFlightLink, At, HasLink, storeVars, tables
<1>3. ASSUME NEW r \in Reqs, ResetStore(r)
      PROVE  InFlightLink(q)'
  <2> DEFINE row == [req[r] EXCEPT !.pc = "reset_consume"]
  <2>1. row.pc = "reset_consume" /\ row.link = req[r].link
    BY DEF TypeOK, ReqRow
  <2>2. q = r /\ req'[q] = row
    BY <1>3, <1>b DEF ResetStore
  <2>3. /\ req[r].link \in Links \cap issued
        /\ HasLink(req[r].link, "reset") => links[req[r].link].user = req[r].id
    BY <1>3 DEF ResetStore, BurnInv, InFlightLink, At, TypeOK, LocalsRead
  <2>4. HasLink(req[r].link, "reset") => req[r].link \in spent'
    BY <1>3, <2>3 DEF ResetStore, NoOrphans, HasLink
  <2> QED BY <1>3, <2>1, <2>2, <2>3, <2>4 DEF ResetStore, InFlightLink, At, HasLink
<1>4. \A r \in Reqs : ~(SetupCheck(r) \/ PwVerify(r) \/ DelCount(r) \/ EmailRead(r)
                        \/ EmailUpdate(r) \/ VerifyConsume(r) \/ ResetConsume(r))
  BY <1>d, <1>e DEF SetupCheck, PwVerify, DelCount, EmailRead, EmailUpdate, VerifyConsume, ResetConsume
<1>5. \A r \in Reqs : ~(SetupInsert(r) \/ LoginLookup(r))
  <2>1. \A i, name, pw : Welcome(i, name, pw).pc \notin Tricky
    BY DEF Welcome
  <2> QED BY <1>c, <1>d, <2>1 DEF SetupInsert, LoginLookup
<1>6. \A r \in Reqs, c \in Cookies : ~Authenticate(r, c)
  <2>1. \A e \in Guarded : \A me : SignedIn(e, me).pc \notin Tricky
    BY DEF SignedIn, Guarded, FirstStep
  <2> QED BY <1>c, <2>1 DEF Authenticate
<1>7. \A r \in Reqs, addr \in Addrs : ~ForgotLookup(r, addr)
  BY <1>e DEF ForgotLookup
<1>8. \A r \in Reqs : ~(SessionInsert(r) \/ PwUpdate(r) \/ AddInsert(r) \/ DelRow(r)
                        \/ StatementFails(r) \/ EmailIssue(r) \/ VerifyMark(r)
                        \/ ResetIssue(r) \/ ResetSignout(r))
  BY <1>d DEF SessionInsert, PwUpdate, AddInsert, DelRow, StatementFails, EmailIssue,
              VerifyMark, ResetIssue, IssueAndSend, ResetSignout
<1>9. ~(\/ \E c \in Cookies : Logout(c) \/ PruneSession(c)
        \/ \E t \in Cookies \cup Links : Lapse(t)
        \/ Restart \/ UNCHANGED vars)
  BY <1>a DEF Logout, PruneSession, Lapse, Restart, vars
<1> QED
  BY <1>1, <1>2, <1>3, <1>4, <1>5, <1>6, <1>7, <1>8, <1>9 DEF Next, AuthNext, EmailNext

\* The statement that takes a reset link's row away is a newer link's, its
\* account's removal, or the last of a reset that changed the password.
LEMMA StepBurned ==
  ASSUME TypeOK, BurnInv, [Next]_vars, NEW l \in Links, Burned(l)
  PROVE  \/ l \in spent
         \/ links[l].user \notin Live'
         \/ \E k \in Links \ issued : links'[k].user = links[l].user
<1> USE DEF Burned, HasLink
<1>1. CASE UNCHANGED links
  BY <1>1
<1>2. ASSUME NEW k \in Links, NEW i \in Ids, NEW purpose \in Purposes, NEW addr \in Addrs,
             IssueLink(k, i, purpose, addr)
      PROVE  \E n \in Links \ issued : links'[n].user = links[l].user
  <2>1. l # k
    BY <1>2 DEF IssueLink, BurnInv, RowsIssued
  <2>2. links'[k].user = i /\ links[l].user = i
    BY <1>2, <2>1 DEF IssueLink
  <2> QED BY <1>2, <2>2 DEF IssueLink
<1>3. ASSUME NEW r \in Reqs, At(r, "verify_consume") \/ At(r, "reset_consume"),
             DeleteLink(req[r].link)
      PROVE  l \in spent
  <2>1. l = req[r].link
    BY <1>3 DEF DeleteLink, TypeOK, StoreTypeOK
  <2> QED BY <1>3, <2>1 DEF BurnInv, InFlightLink
<1>4. ASSUME NEW i \in Ids, DeleteUser(i)
      PROVE  links[l].user \notin Live'
  <2>1. links[l].user = i
    BY <1>4 DEF DeleteUser
  <2> QED BY <1>4, <2>1, LiveSteps
<1> QED BY <1>1, <1>2, <1>3, <1>4, LinksSteps

\* A reset link that works is never burned by a refused form, a failed
\* statement, a restart or another request, however many run.
THEOREM ResetBurnedCorrect == Spec => ResetBurnedOnlyByUse
<1>1. Init => NoOrphans /\ BurnInv
  BY DEF Init, StoreInit, NoOrphans, HasSession, NoSession, NoLink, BurnInv, RowsIssued,
         InFlightLink, At, Idle
<1>2. TypeOK /\ BurnInv /\ [Next]_vars =>
        [\A l \in Links : Burned(l) =>
           \/ l \in spent
           \/ links[l].user \notin Live'
           \/ \E k \in Links \ issued : links'[k].user = links[l].user]_vars
  BY StepBurned
<1> QED
  BY <1>1, <1>2, InitTypes, StepTypes, StepNoOrphans, StepBurn, PTL DEF Spec, ResetBurnedOnlyByUse

-----------------------------------------------------------------------------
(* What holds when requests are served one after the other. *)

OneAtATime == \A r, q \in Reqs : r = q

\* The statement a request is at, and the one it goes on to.
LEMMA PcSteps ==
  ASSUME TypeOK, NEW r \in Reqs
  PROVE  /\ SetupCheck(r) => At(r, "idle") /\ At(r, "setup_insert")'
         /\ SetupInsert(r) => /\ At(r, "setup_insert")
                              /\ At(r, "session_insert")' \/ At(r, "idle")'
         /\ LoginLookup(r) => At(r, "idle") /\ At(r, "session_insert")'
         /\ \A c \in Cookies : Authenticate(r, c) =>
              /\ At(r, "idle")
              /\ \/ "password" \in Traffic /\ At(r, "pw_verify")'
                 \/ At(r, "add_insert")' \/ At(r, "del_count")' \/ At(r, "email_read")'
         /\ PwVerify(r) => At(r, "pw_verify") /\ (At(r, "pw_update")' \/ At(r, "idle")')
         /\ DelCount(r) => At(r, "del_count") /\ (At(r, "del_row")' \/ At(r, "idle")')
         /\ EmailRead(r) => At(r, "email_read") /\ (At(r, "email_update")' \/ At(r, "idle")')
         /\ EmailUpdate(r) => At(r, "email_update") /\ (At(r, "email_issue")' \/ At(r, "idle")')
         /\ \A l \in Links : VerifyLookup(r, l) => At(r, "idle") /\ At(r, "verify_consume")'
         /\ VerifyConsume(r) => At(r, "verify_consume") /\ At(r, "verify_mark")'
         /\ \A addr \in Addrs : ForgotLookup(r, addr) => At(r, "idle") /\ At(r, "reset_issue")'
         /\ \A l \in Links : ResetLookup(r, l) => At(r, "idle") /\ At(r, "reset_store")'
         /\ ResetStore(r) => At(r, "reset_store") /\ At(r, "reset_consume")'
         /\ ResetConsume(r) => At(r, "reset_consume") /\ At(r, "reset_signout")'
         /\ SessionInsert(r) => At(r, "session_insert") /\ At(r, "idle")'
         /\ PwUpdate(r) => At(r, "pw_update") /\ At(r, "idle")'
         /\ AddInsert(r) => At(r, "add_insert") /\ At(r, "idle")'
         /\ DelRow(r) => At(r, "del_row") /\ At(r, "idle")'
         /\ EmailIssue(r) => At(r, "email_issue") /\ At(r, "idle")'
         /\ VerifyMark(r) => At(r, "verify_mark") /\ At(r, "idle")'
         /\ ResetIssue(r) => At(r, "reset_issue") /\ At(r, "idle")'
         /\ ResetSignout(r) => At(r, "reset_signout") /\ At(r, "idle")'
         /\ StatementFails(r) => At(r, "idle")'
<1>1. \A row : Goto(r, row) => req'[r] = row
  BY GotoOthers
<1>2. Done(r) => At(r, "idle")'
  BY <1>1 DEF Done, At, Idle
<1>3. /\ SetupCheck(r) => At(r, "idle") /\ At(r, "setup_insert")'
      /\ \A c \in Cookies : Authenticate(r, c) =>
           /\ At(r, "idle")
           /\ \/ "password" \in Traffic /\ At(r, "pw_verify")'
              \/ At(r, "add_insert")' \/ At(r, "del_count")' \/ At(r, "email_read")'
      /\ LoginLookup(r) => At(r, "idle") /\ At(r, "session_insert")'
      /\ SetupInsert(r) => /\ At(r, "setup_insert")
                           /\ At(r, "session_insert")' \/ At(r, "idle")'
  <2>1. \A i, name, pw : Welcome(i, name, pw).pc = "session_insert"
    BY DEF Welcome
  <2>2. [Idle EXCEPT !.pc = "setup_insert"].pc = "setup_insert"
    BY DEF Idle
  <2>3. ASSUME NEW c \in Cookies, Authenticate(r, c)
        PROVE  /\ At(r, "idle")
               /\ \/ "password" \in Traffic /\ At(r, "pw_verify")'
                  \/ At(r, "add_insert")' \/ At(r, "del_count")' \/ At(r, "email_read")'
    <3>1. PICK e \in Guarded \cap Traffic : Goto(r, SignedIn(e, sessions[c].user))
      BY <2>3 DEF Authenticate
    <3>2. SignedIn(e, sessions[c].user).pc = FirstStep[e]
      BY DEF SignedIn
    <3>3. req'[r].pc = FirstStep[e]
      BY <3>1, <3>2, <1>1
    <3> QED BY <2>3, <3>1, <3>3 DEF Authenticate, At, Guarded, FirstStep
  <2>4. SetupCheck(r) => At(r, "idle") /\ At(r, "setup_insert")'
    BY <1>1, <2>2 DEF SetupCheck, At
  <2>5. LoginLookup(r) => At(r, "idle") /\ At(r, "session_insert")'
    BY <1>1, <2>1 DEF LoginLookup, At
  <2>6. SetupInsert(r) => /\ At(r, "setup_insert")
                          /\ At(r, "session_insert")' \/ At(r, "idle")'
    BY <1>1, <1>2, <2>1 DEF SetupInsert, At
  <2> QED BY <2>3, <2>4, <2>5, <2>6
<1>4. /\ PwVerify(r) => At(r, "pw_verify") /\ (At(r, "pw_update")' \/ At(r, "idle")')
      /\ DelCount(r) => At(r, "del_count") /\ (At(r, "del_row")' \/ At(r, "idle")')
      /\ EmailRead(r) => At(r, "email_read") /\ (At(r, "email_update")' \/ At(r, "idle")')
      /\ EmailUpdate(r) => At(r, "email_update") /\ (At(r, "email_issue")' \/ At(r, "idle")')
  <2>1. \A pc, addr : /\ [req[r] EXCEPT !.pc = pc].pc = pc
                      /\ [req[r] EXCEPT !.pc = pc, !.addr = addr].pc = pc
    BY DEF TypeOK, ReqRow
  <2>2. \A t : [Idle EXCEPT !.pc = "del_row", !.id = t].pc = "del_row"
    BY DEF Idle
  <2>3. PwVerify(r) => At(r, "pw_verify") /\ (At(r, "pw_update")' \/ At(r, "idle")')
    BY <1>1, <1>2, <2>1 DEF PwVerify, At
  <2>4. DelCount(r) => At(r, "del_count") /\ (At(r, "del_row")' \/ At(r, "idle")')
    BY <1>1, <1>2, <2>2 DEF DelCount, At
  <2>5. ASSUME EmailRead(r)
        PROVE  At(r, "email_read") /\ (At(r, "email_update")' \/ At(r, "idle")')
    <3> DEFINE row(addr) == [req[r] EXCEPT !.pc = "email_update", !.addr = addr]
    <3>1. \A addr : row(addr).pc = "email_update"
      BY <2>1
    <3>2. At(r, "email_read") /\ \E addr \in Addrs : Goto(r, row(addr)) \/ Done(r)
      BY <2>5 DEF EmailRead
    <3> QED BY <1>1, <1>2, <3>1, <3>2 DEF At
  <2>6. EmailUpdate(r) => At(r, "email_update") /\ (At(r, "email_issue")' \/ At(r, "idle")')
    BY <1>1, <1>2, <2>1 DEF EmailUpdate, At
  <2> QED BY <2>3, <2>4, <2>5, <2>6
<1>5. /\ \A l \in Links : VerifyLookup(r, l) => At(r, "idle") /\ At(r, "verify_consume")'
      /\ VerifyConsume(r) => At(r, "verify_consume") /\ At(r, "verify_mark")'
      /\ \A addr \in Addrs : ForgotLookup(r, addr) => At(r, "idle") /\ At(r, "reset_issue")'
      /\ \A l \in Links : ResetLookup(r, l) => At(r, "idle") /\ At(r, "reset_store")'
      /\ ResetStore(r) => At(r, "reset_store") /\ At(r, "reset_consume")'
      /\ ResetConsume(r) => At(r, "reset_consume") /\ At(r, "reset_signout")'
  <2>1. \A pc : /\ [req[r] EXCEPT !.pc = pc].pc = pc
                /\ [req[r] EXCEPT !.pc = pc, !.link = None].pc = pc
    BY DEF TypeOK, ReqRow
  <2>2. ASSUME NEW l \in Links, VerifyLookup(r, l)
        PROVE  At(r, "idle") /\ At(r, "verify_consume")'
    <3> DEFINE row == [Idle EXCEPT !.pc = "verify_consume", !.id = links[l].user,
                                   !.addr = links[l].addr, !.link = l]
    <3>1. row.pc = "verify_consume"
      BY DEF Idle
    <3> QED BY <1>1, <3>1, <2>2 DEF VerifyLookup, At
  <2>4. VerifyConsume(r) => At(r, "verify_consume") /\ At(r, "verify_mark")'
    BY <1>1, <2>1 DEF VerifyConsume, At
  <2>5. ASSUME NEW addr \in Addrs, ForgotLookup(r, addr)
        PROVE  At(r, "idle") /\ At(r, "reset_issue")'
    <3> DEFINE row(i) == [Idle EXCEPT !.pc = "reset_issue", !.id = i, !.addr = addr]
    <3>1. \A i : row(i).pc = "reset_issue"
      BY DEF Idle
    <3> QED BY <1>1, <3>1, <2>5 DEF ForgotLookup, At
  <2>6. ASSUME NEW l \in Links, ResetLookup(r, l)
        PROVE  At(r, "idle") /\ At(r, "reset_store")'
    <3> DEFINE row == [Idle EXCEPT !.pc = "reset_store", !.id = links[l].user, !.link = l]
    <3>1. row.pc = "reset_store"
      BY DEF Idle
    <3> QED BY <1>1, <3>1, <2>6 DEF ResetLookup, At
  <2>7. ResetStore(r) => At(r, "reset_store") /\ At(r, "reset_consume")'
    BY <1>1, <2>1 DEF ResetStore, At
  <2>8. ResetConsume(r) => At(r, "reset_consume") /\ At(r, "reset_signout")'
    BY <1>1, <2>1 DEF ResetConsume, At
  <2> QED BY <2>2, <2>4, <2>5, <2>6, <2>7, <2>8
<1>6. /\ SessionInsert(r) => At(r, "session_insert") /\ At(r, "idle")'
      /\ PwUpdate(r) => At(r, "pw_update") /\ At(r, "idle")'
      /\ AddInsert(r) => At(r, "add_insert") /\ At(r, "idle")'
      /\ DelRow(r) => At(r, "del_row") /\ At(r, "idle")'
      /\ EmailIssue(r) => At(r, "email_issue") /\ At(r, "idle")'
      /\ VerifyMark(r) => At(r, "verify_mark") /\ At(r, "idle")'
      /\ ResetIssue(r) => At(r, "reset_issue") /\ At(r, "idle")'
      /\ ResetSignout(r) => At(r, "reset_signout") /\ At(r, "idle")'
      /\ StatementFails(r) => At(r, "idle")'
  BY <1>2 DEF SessionInsert, PwUpdate, AddInsert, DelRow, EmailIssue, VerifyMark, ResetIssue,
              ResetSignout, StatementFails, IssueAndSend
<1> QED BY <1>3, <1>4, <1>5, <1>6

\* deleteUser has counted two accounts, and there is still another one.
SpareAccount == \A r \in Reqs : At(r, "del_row") => \E j \in Live : j # req[r].id

LEMMA StepSpare ==
  ASSUME OneAtATime, TypeOK, SpareAccount, [Next]_vars
  PROVE  SpareAccount'
<1> USE DEF SpareAccount
<1>1. ASSUME UNCHANGED <<users, req>> PROVE SpareAccount'
  BY <1>1 DEF Live, At
<1>2. ASSUME NEW r \in Reqs, ~At(r, "del_row")' PROVE SpareAccount'
  BY <1>2 DEF OneAtATime
<1>3. ASSUME NEW r \in Reqs, DelCount(r) PROVE SpareAccount'
  <2>1. CASE Done(r)
    BY <2>1, <1>2, GotoOthers DEF Done, At, Idle
  <2>2. CASE ~Done(r)
    <3> DEFINE row(t) == [Idle EXCEPT !.pc = "del_row", !.id = t]
    <3>1. PICK target \in Ids, i \in Live, j \in Live : i # j /\ Goto(r, row(target))
      BY <1>3, <2>2 DEF DelCount
    <3>2. row(target).id = target
      BY DEF Idle
    <3>3. req'[r].id = target
      BY <3>1, <3>2, GotoOthers
    <3>4. Live' = Live
      BY <1>3 DEF DelCount, storeVars, Live
    <3> QED BY <3>1, <3>3, <3>4 DEF OneAtATime
  <2> QED BY <2>1, <2>2
<1>4. ASSUME NEW r \in Reqs,
             \/ SetupCheck(r) \/ SetupInsert(r) \/ LoginLookup(r) \/ SessionInsert(r)
             \/ PwVerify(r) \/ PwUpdate(r) \/ AddInsert(r) \/ DelRow(r) \/ StatementFails(r)
             \/ EmailRead(r) \/ EmailUpdate(r) \/ EmailIssue(r) \/ VerifyConsume(r)
             \/ VerifyMark(r) \/ ResetIssue(r) \/ ResetStore(r) \/ ResetConsume(r)
             \/ ResetSignout(r)
             \/ \E c \in Cookies : Authenticate(r, c)
             \/ \E l \in Links : VerifyLookup(r, l) \/ ResetLookup(r, l)
             \/ \E addr \in Addrs : ForgotLookup(r, addr)
      PROVE  SpareAccount'
  <2>1. ~At(r, "del_row")'
    BY <1>4, PcSteps DEF At
  <2> QED BY <2>1, <1>2
<1>5. ASSUME \/ \E c \in Cookies : Logout(c) \/ PruneSession(c)
             \/ \E t \in Cookies \cup Links : Lapse(t)
             \/ UNCHANGED vars
      PROVE  SpareAccount'
  BY <1>5, <1>1 DEF Logout, PruneSession, Lapse, vars, storeVars, tables
<1>6. ASSUME Restart PROVE SpareAccount'
  BY <1>6 DEF Restart, At, Idle
<1> QED
  BY <1>3, <1>4, <1>5, <1>6 DEF Next, AuthNext, EmailNext

\* With requests served one at a time, also if they fail half-way or the
\* process is killed, the last account is never removed.
THEOREM AccountsRemainCorrect == ASSUME OneAtATime PROVE Spec => AccountsRemain
<1>1. Init => SpareAccount
  BY DEF Init, StoreInit, SpareAccount, At, Idle
<1>2. TypeOK /\ SpareAccount /\ [Next]_vars => SpareAccount'
  BY StepSpare
<1>3. TypeOK /\ SpareAccount /\ [Next]_vars => [Live # {} => Live' # {}]_vars
  <2> SUFFICES ASSUME TypeOK, SpareAccount, [Next]_vars, Live # {} PROVE Live' # {}
    OBVIOUS
  <2>1. CASE UNCHANGED users
    BY <2>1 DEF Live
  <2>2. ASSUME NEW i \in Ids, NEW name \in Names, NEW pw \in Passwords, NewUser(i, name, pw)
        PROVE  Live' # {}
    BY <2>2, LiveSteps DEF NewUser
  <2>3. ASSUME NEW i \in Ids, \/ \E pw \in Passwords : SetPassword(i, pw)
                              \/ \E addr \in Addrs : SetEmail(i, addr) \/ MarkVerified(i, addr)
        PROVE  Live' # {}
    BY <2>3, LiveSteps
  <2>4. ASSUME NEW r \in Reqs, DelRow(r) PROVE Live' # {}
    <3>1. req[r].id \in Ids /\ DeleteUser(req[r].id) /\ \E j \in Live : j # req[r].id
      BY <2>4 DEF DelRow, At, TypeOK, LocalsRead, SpareAccount
    <3> QED BY <3>1, LiveSteps
  <2> QED BY <2>1, <2>2, <2>3, <2>4, UsersSteps
<1> QED
  BY <1>1, <1>2, <1>3, InitTypes, StepTypes, PTL DEF Spec, AccountsRemain

\* A reset link that has changed a password has no row, unless the request
\* that used it is about to consume it.
SpentLinks ==
  \A l \in spent : /\ l \in issued
                   /\ HasLink(l, "reset") =>
                        \E r \in Reqs : At(r, "reset_consume") /\ req[r].link = l

UsedInv == SpentLinks /\ LinkUsedOnce

LEMMA StepUsed ==
  ASSUME OneAtATime, ~Faulty, TypeOK, BurnInv, UsedInv, [Next]_vars
  PROVE  UsedInv'
<1> USE DEF UsedInv, SpentLinks, LinkUsedOnce
<1>a. /\ issued \subseteq issued' /\ spent \subseteq Links
      /\ \A l \in Links \cap issued : HasLink(l, "reset")' => HasLink(l, "reset")
  BY IssuedLinks DEF HasLink, NoLink, TypeOK, StoreTypeOK
<1>1. ASSUME UNCHANGED <<spent, req>> PROVE UsedInv'
  BY <1>1, <1>a DEF At
<1>2. ASSUME NEW r \in Reqs, ~At(r, "reset_consume"), ~At(r, "reset_store")', UNCHANGED spent
      PROVE  UsedInv'
  BY <1>2, <1>a DEF OneAtATime
<1>3. ASSUME NEW r \in Reqs,
             \/ SetupCheck(r) \/ SetupInsert(r) \/ LoginLookup(r) \/ SessionInsert(r)
             \/ PwVerify(r) \/ PwUpdate(r) \/ AddInsert(r) \/ DelCount(r) \/ DelRow(r)
             \/ EmailRead(r) \/ EmailUpdate(r) \/ EmailIssue(r) \/ VerifyConsume(r)
             \/ VerifyMark(r) \/ ResetIssue(r) \/ ResetSignout(r)
             \/ \E c \in Cookies : Authenticate(r, c)
             \/ \E l \in Links : VerifyLookup(r, l)
             \/ \E addr \in Addrs : ForgotLookup(r, addr)
      PROVE  UsedInv'
  <2>1. ~At(r, "reset_consume") /\ ~At(r, "reset_store")'
    BY <1>3, PcSteps DEF At
  <2>2. UNCHANGED spent
    BY <1>3 DEF SetupCheck, SetupInsert, NewUser, LoginLookup, SessionInsert, PwVerify, PwUpdate,
                AddInsert, DelCount, DelRow, EmailRead, EmailUpdate, EmailIssue, VerifyConsume,
                VerifyMark, ResetIssue, ResetSignout, IssueAndSend, Authenticate, VerifyLookup,
                ForgotLookup, storeVars
  <2> QED BY <2>1, <2>2, <1>2
<1>4. ASSUME NEW r \in Reqs, NEW l \in Links, ResetLookup(r, l) PROVE UsedInv'
  <2> DEFINE row == [Idle EXCEPT !.pc = "reset_store", !.id = links[l].user, !.link = l]
  <2>1. row.link = l
    BY DEF Idle
  <2>2. req'[r].link = l
    BY <1>4, <2>1, GotoOthers DEF ResetLookup
  <2>3. At(r, "idle") /\ HasLink(l, "reset") /\ UNCHANGED <<spent, links, issued>>
    BY <1>4 DEF ResetLookup, Presented, storeVars, tables
  <2>4. \A k \in spent : ~HasLink(k, "reset")
    BY <2>3 DEF At, OneAtATime
  <2> QED BY <1>a, <2>2, <2>3, <2>4 DEF OneAtATime
<1>5. ASSUME NEW r \in Reqs, ResetStore(r) PROVE UsedInv'
  <2> DEFINE row == [req[r] EXCEPT !.pc = "reset_consume"]
  <2>1. row.link = req[r].link
    BY DEF TypeOK, ReqRow
  <2>2. At(r, "reset_store") /\ At(r, "reset_consume")' /\ req'[r].link = req[r].link
    BY <1>5, <2>1, GotoOthers, PcSteps DEF ResetStore
  <2>3. req[r].link \in issued /\ spent' \subseteq spent \cup {req[r].link}
    BY <1>5, <2>2 DEF ResetStore, BurnInv, InFlightLink, At
  <2>4. \A k \in spent : ~HasLink(k, "reset")
    BY <2>2 DEF At, OneAtATime
  <2> QED BY <1>a, <2>2, <2>3, <2>4 DEF At, OneAtATime
<1>6. ASSUME NEW r \in Reqs, ResetConsume(r) PROVE UsedInv'
  <2>1. At(r, "reset_consume") /\ At(r, "reset_signout")' /\ UNCHANGED spent
    BY <1>6, PcSteps DEF ResetConsume
  <2>2. links'[req[r].link].user = NoId
    BY <1>6, <2>1 DEF ResetConsume, DeleteLink, NoLink, TypeOK, StoreTypeOK, LocalsRead, At
  <2>3. \A k \in spent : ~HasLink(k, "reset")'
    BY <1>a, <2>1, <2>2 DEF OneAtATime, HasLink
  <2> QED BY <1>a, <2>1, <2>3 DEF At, OneAtATime
<1>7. ASSUME \/ \E c \in Cookies : Logout(c) \/ PruneSession(c)
             \/ \E t \in Cookies \cup Links : Lapse(t)
             \/ UNCHANGED vars
      PROVE  UsedInv'
  BY <1>7, <1>1 DEF Logout, PruneSession, Lapse, vars, storeVars, tables
<1>8. ~Restart /\ \A r \in Reqs : ~StatementFails(r)
  BY DEF Restart, StatementFails
<1> QED
  BY <1>3, <1>4, <1>5, <1>6, <1>7, <1>8 DEF Next, AuthNext, EmailNext

\* With requests served one at a time and no failure between its statements,
\* a reset link changes one password, once.
THEOREM LinkUsedOnceCorrect == ASSUME OneAtATime, ~Faulty PROVE Spec => []LinkUsedOnce
<1>1. Init => NoOrphans /\ BurnInv /\ UsedInv
  BY DEF Init, StoreInit, NoOrphans, HasSession, NoSession, NoLink, BurnInv, RowsIssued,
         InFlightLink, At, Idle, UsedInv, SpentLinks, LinkUsedOnce
<1>2. TypeOK /\ BurnInv /\ UsedInv /\ [Next]_vars => UsedInv'
  BY StepUsed
<1>3. UsedInv => LinkUsedOnce
  BY DEF UsedInv
<1> QED
  BY <1>1, <1>2, <1>3, InitTypes, StepTypes, StepNoOrphans, StepBurn, PTL DEF Spec

\* The password that was checked, or chosen, to sign in is still the account's.
Checked(r) ==
  At(r, "session_insert") => req[r].id \in Live /\ users[req[r].id].pw = req[r].pw

MatchInv ==
  /\ SessionsMatchPassword
  /\ \A r \in Reqs : Checked(r) /\ req[r].pc \notin {"pw_verify", "pw_update"}

\* One request, at a statement that is not the end of a reset: every session
\* matches.
LEMMA AllMatch ==
  ASSUME OneAtATime, MatchInv, NEW r \in Reqs,
         req[r].pc \notin {"reset_consume", "reset_signout"}
  PROVE  \A c \in Cookies : HasSession(c) => sessions[c].pw = users[sessions[c].user].pw
BY DEF OneAtATime, MatchInv, SessionsMatchPassword

LEMMA StepMatch ==
  ASSUME OneAtATime, ~Faulty, "password" \notin Traffic,
         TypeOK, NoOrphans, MatchInv, [Next]_vars
  PROVE  MatchInv'
<1> USE DEF MatchInv, SessionsMatchPassword
<1> DEFINE Quiet == {"session_insert", "pw_verify", "pw_update"}
           Matching == \A c \in Cookies : HasSession(c) =>
                         sessions[c].pw = users[sessions[c].user].pw
<1>t. /\ users \in [Ids -> UserRow] /\ sessions \in [Cookies -> SessionRow]
      /\ \A r \in Reqs : LocalsRead(req[r])
  BY DEF TypeOK, StoreTypeOK
<1>s. \A c \in Cookies : HasSession(c) => sessions[c].user \in Live /\ sessions[c].user \in Ids
  BY DEF NoOrphans, Live
\* The step of a request that is not at the end of a reset, before or after.
<1>1. ASSUME NEW r \in Reqs, req'[r].pc \notin Quiet, Matching' PROVE MatchInv'
  BY <1>1 DEF OneAtATime, Checked, At
<1>2. ASSUME NEW r \in Reqs, req[r].pc \notin {"reset_consume", "reset_signout"},
             req'[r].pc \notin Quiet, UNCHANGED <<users, sessions>>
      PROVE  MatchInv'
  BY <1>1, <1>2, AllMatch DEF HasSession
<1>3. ASSUME NEW r \in Reqs,
             \/ SetupCheck(r) \/ DelCount(r) \/ EmailRead(r) \/ EmailIssue(r)
             \/ VerifyConsume(r) \/ ResetIssue(r)
             \/ \E c \in Cookies : Authenticate(r, c)
             \/ \E l \in Links : VerifyLookup(r, l) \/ ResetLookup(r, l)
             \/ \E addr \in Addrs : ForgotLookup(r, addr)
      PROVE  MatchInv'
  <2>1. req[r].pc \notin {"reset_consume", "reset_signout"} /\ req'[r].pc \notin Quiet
    BY <1>3, PcSteps DEF At
  <2>2. UNCHANGED <<users, sessions>>
    BY <1>3 DEF SetupCheck, DelCount, EmailRead, EmailIssue, VerifyConsume, ResetIssue,
                IssueAndSend, Authenticate, VerifyLookup, ResetLookup, ForgotLookup,
                storeVars, tables
  <2> QED BY <1>2, <2>1, <2>2
\* An INSERT takes an id nobody has, and so no session.
<1>4. ASSUME NEW i \in Ids, NEW name \in Names, NEW pw \in Passwords, NewUser(i, name, pw),
             Matching
      PROVE  Matching' /\ i \in Live' /\ users'[i].pw = pw
  <2>1. i \notin Live
    BY <1>4 DEF NewUser, IsNextRowid, Ids
  <2>2. i \in Live' /\ users'[i].pw = pw /\ \A j \in Live : users'[j] = users[j]
    BY <1>4, <1>t, <2>1, NoneAssumption DEF NewUser, InsertUser, NoUser, Live
  <2> QED BY <1>4, <1>s, <2>2 DEF NewUser, HasSession
<1>5. ASSUME NEW r \in Reqs, SetupInsert(r) PROVE MatchInv'
  <2>0. At(r, "setup_insert") /\ Matching
    BY <1>5, AllMatch DEF SetupInsert, At
  <2>1. ASSUME Done(r), UNCHANGED storeVars PROVE MatchInv'
    BY <2>0, <2>1, <1>2, GotoOthers DEF Done, At, Idle, storeVars, tables
  <2>2. ASSUME NEW i \in Ids, NEW name \in Names, NEW pw \in Passwords, NewUser(i, name, pw),
               Goto(r, Welcome(i, name, pw))
        PROVE  MatchInv'
    <3>1. Matching' /\ i \in Live' /\ users'[i].pw = pw
      BY <2>0, <2>2, <1>4
    <3>2. req'[r].pc = "session_insert" /\ req'[r].id = i /\ req'[r].pw = pw
      BY <2>2, GotoOthers DEF Welcome
    <3> QED BY <3>1, <3>2 DEF OneAtATime, Checked
  <2> QED BY <1>5, <2>1, <2>2 DEF SetupInsert
<1>6. ASSUME NEW r \in Reqs, AddInsert(r) PROVE MatchInv'
  <2>0. Matching /\ req'[r].pc \notin Quiet
    BY <1>6, AllMatch, PcSteps DEF At
  <2> QED BY <1>6, <2>0, <1>1, <1>4 DEF AddInsert, storeVars, tables, HasSession
<1>7. ASSUME NEW r \in Reqs, LoginLookup(r) PROVE MatchInv'
  <2>1. PICK i \in Ids, name \in Names, pw \in Passwords :
          Matches(i, name, pw) /\ Goto(r, Welcome(i, name, pw))
    BY <1>7 DEF LoginLookup
  <2>2. req'[r].pc = "session_insert" /\ req'[r].id = i /\ req'[r].pw = pw
    BY <2>1, GotoOthers DEF Welcome
  <2>3. Matching /\ UNCHANGED <<users, sessions>>
    BY <1>7, AllMatch DEF LoginLookup, At, storeVars, tables
  <2> QED BY <2>1, <2>2, <2>3 DEF OneAtATime, Checked, Matches, Live, HasSession
<1>8. ASSUME NEW r \in Reqs, SessionInsert(r) PROVE MatchInv'
  <2>1. At(r, "session_insert") /\ req'[r].pc \notin Quiet /\ Matching
    BY <1>8, AllMatch, PcSteps DEF At
  <2>2. Checked(r) /\ req[r].id \in Ids
    BY <2>1, <1>t DEF At, LocalsRead
  <2>3. Matching'
    BY <1>8, <1>t, <2>1, <2>2 DEF SessionInsert, InsertSession, HasSession, Checked
  <2> QED BY <1>1, <2>1, <2>3
<1>9. ASSUME NEW r \in Reqs, DelRow(r) PROVE MatchInv'
  <2>1. Matching /\ req'[r].pc \notin Quiet
    BY <1>9, AllMatch, PcSteps DEF At
  <2>2. Matching'
    BY <1>9, <1>t, <1>s, <2>1 DEF DelRow, DeleteUser, HasSession, NoSession
  <2> QED BY <1>1, <2>1, <2>2
<1>10. ASSUME NEW r \in Reqs, EmailUpdate(r) \/ VerifyMark(r) PROVE MatchInv'
  <2>1. Matching /\ req'[r].pc \notin Quiet /\ req[r].id \in Ids
    BY <1>10, <1>t, AllMatch, PcSteps DEF At, LocalsRead
  <2>2. UNCHANGED sessions /\ \A i \in Live : users'[i].pw = users[i].pw
    BY <1>10, <1>t, <2>1 DEF EmailUpdate, VerifyMark, SetEmail, MarkVerified, UserRow, NoUser, Live
  <2> QED BY <1>1, <1>s, <2>1, <2>2 DEF HasSession
<1>11. ASSUME NEW r \in Reqs, ResetStore(r) PROVE MatchInv'
  <2> DEFINE row == [req[r] EXCEPT !.pc = "reset_consume"]
  <2>1. row.id = req[r].id
    BY DEF TypeOK, ReqRow
  <2>2. At(r, "reset_store") /\ At(r, "reset_consume")' /\ req'[r].id = req[r].id
    BY <1>11, <2>1, GotoOthers, PcSteps DEF ResetStore
  <2>3. Matching /\ UNCHANGED sessions /\ \A i \in Ids \ {req[r].id} : users'[i] = users[i]
    BY <1>11, <1>t, <2>2, AllMatch DEF ResetStore, SetPassword, At
  <2> QED BY <1>s, <2>2, <2>3 DEF OneAtATime, Checked, At, HasSession
<1>12. ASSUME NEW r \in Reqs, ResetConsume(r) PROVE MatchInv'
  <2> DEFINE row == [req[r] EXCEPT !.pc = "reset_signout", !.link = None]
  <2>1. row.id = req[r].id
    BY DEF TypeOK, ReqRow
  <2>2. At(r, "reset_signout")' /\ req'[r].id = req[r].id
    BY <1>12, <2>1, GotoOthers, PcSteps DEF ResetConsume
  <2>3. UNCHANGED <<users, sessions>>
    BY <1>12 DEF ResetConsume
  <2> QED BY <2>2, <2>3 DEF OneAtATime, Checked, At, HasSession
<1>13. ASSUME NEW r \in Reqs, ResetSignout(r) PROVE MatchInv'
  <2>1. req'[r].pc \notin Quiet
    BY <1>13, PcSteps DEF At
  <2>2. Matching'
    BY <1>13 DEF ResetSignout, DeleteSessionsOf, HasSession, NoSession, OneAtATime
  <2> QED BY <1>1, <2>1, <2>2
<1>14. ASSUME NEW c \in Cookies, Logout(c) \/ PruneSession(c) PROVE MatchInv'
  BY <1>14, <1>t DEF Logout, PruneSession, DeleteSession, HasSession, NoSession, Checked, At, Live
<1>15. ASSUME \/ \E t \in Cookies \cup Links : Lapse(t)
              \/ UNCHANGED vars
       PROVE  MatchInv'
  BY <1>15 DEF Lapse, vars, storeVars, tables, HasSession, Checked, At, Live
<1>16. /\ ~Restart
       /\ \A r \in Reqs : ~(StatementFails(r) \/ PwVerify(r) \/ PwUpdate(r))
  BY DEF Restart, StatementFails, PwVerify, PwUpdate, At
<1> QED
  BY <1>3, <1>5, <1>6, <1>7, <1>8, <1>9, <1>10, <1>11, <1>12, <1>13, <1>14, <1>15, <1>16
     DEF Next, AuthNext, EmailNext

\* Where passwords change by reset only, and requests are served one at a time
\* and to their end, nobody stays signed in with a password that was replaced.
THEOREM SessionsMatchCorrect ==
  ASSUME OneAtATime, ~Faulty, "password" \notin Traffic
  PROVE  Spec => []SessionsMatchPassword
<1>1. Init => NoOrphans /\ MatchInv
  BY DEF Init, StoreInit, NoOrphans, HasSession, NoSession, NoLink, MatchInv,
         SessionsMatchPassword, Checked, At, Idle
<1>2. TypeOK /\ NoOrphans /\ MatchInv /\ [Next]_vars => MatchInv'
  BY StepMatch
<1>3. MatchInv => SessionsMatchPassword
  BY DEF MatchInv
<1> QED
  BY <1>1, <1>2, <1>3, InitTypes, StepTypes, StepNoOrphans, PTL DEF Spec

\* With requests served one at a time no account inherits anything, so that the
\* exception of VerifiedMeansProven and ResetOnlyToProven never applies: an
\* address counts as verified, and a reset link is mailed, by what the account
\* itself has proven.
THEOREM OwnMailCorrect ==
  ASSUME OneAtATime
  PROVE  Spec => [](VerifiedByItsAccount /\ ResetOfItsAccount)
<1> DEFINE Own == inherited = {}
<1>1. Init => Own
  BY DEF Init, StoreInit
<1>2. Own /\ [Next]_vars => Own'
  <2> SUFFICES ASSUME Own, [Next]_vars PROVE Own'
    OBVIOUS
  <2>1. ASSUME NEW r \in Reqs, At(r, "setup_insert") \/ At(r, "add_insert"),
               NEW i \in Ids, NEW name \in Names, NEW pw \in Passwords, NewUser(i, name, pw)
        PROVE  Own'
    <3>1. ClaimsOf(i) = {}
      BY <2>1 DEF OneAtATime, ClaimsOf, MailSteps, At
    <3> QED BY <2>1, <3>1 DEF NewUser
  <2>2. ASSUME NEW r \in Reqs, SetupInsert(r) \/ AddInsert(r) PROVE Own'
    BY <2>1, <2>2 DEF SetupInsert, AddInsert, storeVars
  <2>3. ASSUME NEW r \in Reqs, DelRow(r) PROVE Own'
    BY <2>3 DEF DelRow, DeleteUser, Forget
  <2>4. ASSUME NEW r \in Reqs,
               \/ SetupCheck(r) \/ LoginLookup(r) \/ SessionInsert(r)
               \/ PwVerify(r) \/ PwUpdate(r) \/ DelCount(r) \/ StatementFails(r)
               \/ EmailRead(r) \/ EmailUpdate(r) \/ EmailIssue(r) \/ VerifyConsume(r)
               \/ VerifyMark(r) \/ ResetIssue(r) \/ ResetStore(r) \/ ResetConsume(r)
               \/ ResetSignout(r)
               \/ \E c \in Cookies : Authenticate(r, c)
               \/ \E l \in Links : VerifyLookup(r, l) \/ ResetLookup(r, l)
               \/ \E addr \in Addrs : ForgotLookup(r, addr)
        PROVE  UNCHANGED inherited
    BY <2>4 DEF SetupCheck, LoginLookup, SessionInsert, PwVerify, PwUpdate, DelCount,
                StatementFails, EmailRead, EmailUpdate, EmailIssue, VerifyConsume, VerifyMark,
                ResetIssue, ResetStore, ResetConsume, ResetSignout, IssueAndSend, Authenticate,
                VerifyLookup, ResetLookup, ForgotLookup, storeVars
  <2>5. ASSUME \/ \E c \in Cookies : Logout(c) \/ PruneSession(c)
               \/ \E t \in Cookies \cup Links : Lapse(t)
               \/ Restart \/ UNCHANGED vars
        PROVE  UNCHANGED inherited
    BY <2>5 DEF Logout, PruneSession, Lapse, Restart, vars, storeVars
  <2> QED BY <2>2, <2>3, <2>4, <2>5 DEF Next, AuthNext, EmailNext
<1>3. Own /\ MailInv => VerifiedByItsAccount /\ ResetOfItsAccount
  BY DEF MailInv, ResetProven, Backed, VerifiedMeansProven, VerifiedByItsAccount,
         ResetOfItsAccount, HasLink
<1> QED
  BY <1>1, <1>2, <1>3, InitTypes, StepTypes, InitMail, StepMail, PTL DEF Spec
=============================================================================
