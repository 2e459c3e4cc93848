---------------------------- MODULE AuthHandlers ----------------------------
(***************************************************************************)
(* The request handlers of internal/web/auth.go: first-run setup, login,   *)
(* logout, the session check in front of every page, and the account page. *)
(* net/http serves each request on a goroutine of its own.  A handler is   *)
(* modelled as the sequence of its SQL statements, one action each; req[r] *)
(* holds what the handler read and will still use, so other requests run   *)
(* between any two of its statements.                                      *)
(*                                                                         *)
(* Form fields are chosen when the statement that uses them runs.  The     *)
(* login limiter may refuse any attempt, as a request that is never served *)
(* (its counters are in LoginLimiter).                                     *)
(***************************************************************************)
EXTENDS AccountStore, FiniteSets

CONSTANTS
  Reqs,      \* bound: requests in flight at once
  Traffic,   \* the endpoints that receive requests
  Faulty,    \* whether statements may fail and the process may be killed
  MaxLapses  \* bound: the tokens that run out of time

Endpoints == {"setup", "login", "logout", "password", "add", "delete",
              "email", "verify", "forgot", "reset"}

ASSUME TrafficAssumption == Traffic \subseteq Endpoints
ASSUME FaultyAssumption == Faulty \in BOOLEAN
ASSUME LapsesAssumption == MaxLapses \in Nat

VARIABLE req   \* req[r]: the next statement of request r, and its locals

vars == <<storeVars, req>>

AuthSteps == {"setup_insert", "session_insert", "pw_verify", "pw_update",
              "add_insert", "del_count", "del_row"}
EmailSteps == {"email_read", "email_update", "email_issue",
               "verify_consume", "verify_mark", "reset_issue",
               "reset_store", "reset_consume", "reset_signout"}

ReqRow == [pc : {"idle"} \cup AuthSteps \cup EmailSteps,
           id : Ids \cup {NoId}, name : Names \cup {None},
           pw : Passwords \cup {None}, addr : Addrs \cup {None},
           link : Links \cup {None}]
Idle == [pc |-> "idle", id |-> NoId, name |-> None, pw |-> None,
         addr |-> None, link |-> None]

At(r, pc) == req[r].pc = pc
Goto(r, next) == req' = [req EXCEPT ![r] = next]
Done(r) == Goto(r, Idle)

-----------------------------------------------------------------------------
(* First-run setup. *)

\* setupPost, the check: only a count that succeeds and is positive refuses.
SetupCheck(r) ==
  /\ "setup" \in Traffic
  /\ At(r, "idle")
  /\ Live = {} \/ Faulty
  /\ Goto(r, [Idle EXCEPT !.pc = "setup_insert"])
  /\ UNCHANGED storeVars

\* What requests under way have read of an account and will still act on by
\* its id: its confirmed address, or the link that confirms one.
MailSteps == {"verify_consume", "verify_mark", "reset_issue"}
ClaimsOf(i) ==
  {<<i, req[r].addr>> : r \in {q \in Reqs : req[q].pc \in MailSteps /\ req[q].id = i}}

\* createUser: the INSERT either takes the next rowid or fails on UNIQUE.
NewUser(i, name, pw) ==
  /\ ~NameTaken(name)
  /\ IsNextRowid(i)
  /\ InsertUser(i, name, pw)
  /\ inherited' = inherited \cup ClaimsOf(i)
  /\ UNCHANGED <<sessions, links, issued, lapsed, mailedTo, proven, spent>>

\* The credentials of account i have been checked: a session is to start.
Welcome(i, name, pw) ==
  [pc |-> "session_insert", id |-> i, name |-> name, pw |-> pw,
   addr |-> None, link |-> None]

SetupInsert(r) ==
  /\ At(r, "setup_insert")
  /\ \E name \in Names, pw \in Passwords :
       \/ \E i \in Ids :
            /\ NewUser(i, name, pw)
            /\ Goto(r, Welcome(i, name, pw))
       \/ NameTaken(name) /\ Done(r) /\ UNCHANGED storeVars

-----------------------------------------------------------------------------
(* Login, logout and the session check. *)

\* verifyLogin: the row of that username, when the password matches its hash.
Matches(i, name, pw) == i \in Live /\ users[i].name = name /\ users[i].pw = pw

LoginLookup(r) ==
  /\ "login" \in Traffic
  /\ At(r, "idle")
  /\ \E i \in Ids, name \in Names, pw \in Passwords :
       /\ Matches(i, name, pw)
       /\ Goto(r, Welcome(i, name, pw))
  /\ UNCHANGED storeVars

\* startSession: the id was read by an earlier statement of the request.
SessionInsert(r) ==
  /\ At(r, "session_insert")
  /\ \/ /\ req[r].id \in Live
        /\ \E c \in Cookies : InsertSession(c, req[r].id, req[r].name, req[r].pw)
     \/ req[r].id \notin Live /\ UNCHANGED <<sessions, issued>>
  /\ Done(r)
  /\ UNCHANGED <<users, links, lapsed, mailedTo, proven, inherited, spent>>

\* logoutPost is public and has one statement.
Logout(c) ==
  /\ "logout" \in Traffic
  /\ HasSession(c)
  /\ DeleteSession(c)
  /\ UNCHANGED <<users, links, issued, lapsed, mailedTo, proven, inherited, spent, req>>

\* authenticate, on a cookie whose row has expired, removes the row.
PruneSession(c) ==
  /\ HasSession(c) /\ ~InForce(c)
  /\ DeleteSession(c)
  /\ UNCHANGED <<users, links, issued, lapsed, mailedTo, proven, inherited, spent, req>>

\* The endpoints sessionAuth guards, and the first statement of each.
Guarded == {"password", "add", "delete", "email"}
FirstStep == [password |-> "pw_verify", add |-> "add_insert",
              delete |-> "del_count", email |-> "email_read"]

\* authenticate and sessionAuth: the user joined to an unexpired session row
\* becomes the request's "me" for the rest of the request.
SignedIn(e, me) ==
  [pc |-> FirstStep[e], id |-> me, name |-> users[me].name, pw |-> None,
   addr |-> None, link |-> None]

Authenticate(r, c) ==
  /\ At(r, "idle")
  /\ HasSession(c) /\ InForce(c)
  /\ \E e \in Guarded \cap Traffic : Goto(r, SignedIn(e, sessions[c].user))
  /\ UNCHANGED storeVars

-----------------------------------------------------------------------------
(* The account page. *)

\* changePassword: verifyLogin looks the row up by the name "me" had.
PwVerify(r) ==
  /\ At(r, "pw_verify")
  /\ \/ /\ \E i \in Ids, current \in Passwords : Matches(i, req[r].name, current)
        /\ Goto(r, [req[r] EXCEPT !.pc = "pw_update"])
     \/ Done(r)   \* wrong current password, or the new one is not valid
  /\ UNCHANGED storeVars

\* changePassword: the UPDATE goes by the id "me" had.
PwUpdate(r) ==
  /\ At(r, "pw_update")
  /\ \E pw \in Passwords : SetPassword(req[r].id, pw)
  /\ Done(r)
  /\ UNCHANGED <<sessions, links, issued, lapsed, mailedTo, proven, inherited, spent>>

AddInsert(r) ==
  /\ At(r, "add_insert")
  /\ Done(r)
  /\ \E name \in Names, pw \in Passwords :
       \/ \E i \in Ids : NewUser(i, name, pw)
       \/ NameTaken(name) /\ UNCHANGED storeVars

\* Mutant: n < 1 refuses, and one's own account is not compared.
DelCount_OffByOne(r) ==
  /\ At(r, "del_count")
  /\ \E target \in Live :
       Goto(r, [Idle EXCEPT !.pc = "del_row", !.id = target])
  /\ UNCHANGED storeVars

\* deleteUser: not oneself, and not when userCount says one is left.
DelCount(r) ==
  /\ At(r, "del_count")
  /\ \/ \E target \in Ids \ {req[r].id} :
          /\ \E i, j \in Live : i # j
          /\ Goto(r, [Idle EXCEPT !.pc = "del_row", !.id = target])
     \/ (\A i, j \in Live : i = j) /\ Done(r)
  /\ UNCHANGED storeVars

DelRow(r) ==
  /\ At(r, "del_row")
  /\ DeleteUser(req[r].id)
  /\ Done(r)
  /\ UNCHANGED <<issued, lapsed, mailedTo, spent>>

-----------------------------------------------------------------------------
(* The environment. *)

\* The expires_at of a session or of a mailed link passes.
Lapse(t) ==
  /\ t \in issued \ lapsed
  /\ Cardinality(lapsed) < MaxLapses
  /\ lapsed' = lapsed \cup {t}
  /\ UNCHANGED <<tables, issued, mailedTo, proven, inherited, spent, req>>

\* A statement returns an error (disk full, database busy): every handler
\* reports it and returns, and what it did before stays done.
StatementFails(r) ==
  /\ Faulty
  /\ ~At(r, "idle")
  /\ Done(r)
  /\ UNCHANGED storeVars

\* The process is killed and started again: the tables are on disk.
Restart ==
  /\ Faulty
  /\ \E r \in Reqs : ~At(r, "idle")
  /\ req' = [r \in Reqs |-> Idle]
  /\ UNCHANGED storeVars

AuthNext ==
  \/ \E r \in Reqs :
       \/ SetupCheck(r) \/ SetupInsert(r)
       \/ LoginLookup(r) \/ SessionInsert(r)
       \/ PwVerify(r) \/ PwUpdate(r)
       \/ AddInsert(r)
       \/ DelCount(r) \/ DelRow(r)
       \/ StatementFails(r)
       \/ \E c \in Cookies : Authenticate(r, c)
  \/ \E c \in Cookies : Logout(c) \/ PruneSession(c)
  \/ \E t \in Cookies \cup Links : Lapse(t)
  \/ Restart
=============================================================================
