---------------------------- MODULE AccountStore ----------------------------
(***************************************************************************)
(* The SQLite tables behind LabDoc's accounts (users, sessions and         *)
(* email_tokens) and the statements internal/web/auth.go and email.go run  *)
(* on them.  The pool holds one connection (db.go), so a statement, or a   *)
(* transaction, is one atomic step; the request handlers that run between  *)
(* two statements are in AuthHandlers and EmailHandlers.                   *)
(*                                                                         *)
(* A name, password, address, cookie or mailed link is an opaque value.    *)
(* An expires_at column is abstracted to the set of tokens whose time has  *)
(* passed, which may grow at any moment.                                   *)
(***************************************************************************)
EXTENDS Naturals

CONSTANTS
  MaxUsers,   \* bound: rowids of the users table are 1..MaxUsers
  Names,      \* usernames, trimmed
  Passwords,  \* passwords that meet validCredentials
  Addrs,      \* e-mail addresses, trimmed and in lower case
  Cookies,    \* bound: the session tokens randomToken can still return
  Links,      \* bound: the e-mail tokens randomToken can still return
  None        \* SQL NULL, and the value of an unused field

Ids == 1..MaxUsers
NoId == 0

ASSUME MaxUsersAssumption == MaxUsers \in Nat \ {0}
ASSUME NoneAssumption == None \notin Names \cup Passwords \cup Addrs \cup Links
ASSUME TokenAssumption == Cookies \cap Links = {}

VARIABLES
  users,     \* rowid -> row of table users; NoUser where there is no row
  sessions,  \* cookie -> row of table sessions
  links,     \* mailed link -> row of table email_tokens
  issued,    \* tokens randomToken has returned (256 random bits: never again)
  lapsed,    \* tokens whose expires_at has passed
  mailedTo,  \* link -> the mailbox it was delivered to, None if it never was
  proven,    \* history: <<account, address>> whose verify link was followed
  inherited, \* history: <<account, address>> a request under way had read of
             \* an earlier account when its rowid was given out again
  spent      \* history: reset links that have changed a password

tables == <<users, sessions, links>>
storeVars == <<users, sessions, links, issued, lapsed, mailedTo, proven,
               inherited, spent>>

-----------------------------------------------------------------------------
(* Rows.  The name and pw of a session are history: the account name and   *)
(* the password that were checked to start it.                             *)

NoUser == [name |-> None, pw |-> None, email |-> None, verified |-> FALSE]
UserRow == {NoUser} \cup [name : Names, pw : Passwords,
                          email : Addrs \cup {None}, verified : BOOLEAN]

NoSession == [user |-> NoId, name |-> None, pw |-> None]
SessionRow == {NoSession} \cup [user : Ids, name : Names, pw : Passwords]

Purposes == {"verify", "reset"}
NoLink == [user |-> NoId, purpose |-> "none", addr |-> None]
LinkRow == {NoLink} \cup [user : Ids, purpose : Purposes, addr : Addrs]

\* The accounts that exist: userCount() is the size of this set.
Live == {i \in Ids : users[i].name # None}

\* A session or link token that has a row, and one that is still in force.
HasSession(c) == sessions[c].user # NoId
HasLink(l, purpose) == links[l].user # NoId /\ links[l].purpose = purpose
InForce(t) == t \notin lapsed

\* INTEGER PRIMARY KEY without AUTOINCREMENT: the next rowid is one more
\* than the largest in use, so the id of a removed account is used again.
IsNextRowid(i) ==
  /\ i \in Ids
  /\ \A j \in Live : j < i
  /\ i = 1 \/ i - 1 \in Live

-----------------------------------------------------------------------------
(* Statements.  An operator named Op_Change, here and in the other modules, *)
(* is Op with a bug: what a property rules out, and used by no action.      *)

\* UNIQUE(username) and the partial UNIQUE index users_email.
\* (Mutant: only verified addresses are indexed.)
AddrTaken_Verified(addr, i) ==
  \E j \in Live \ {i} : users[j].email = addr /\ users[j].verified
NameTaken(name) == \E i \in Live : users[i].name = name
AddrTaken(addr, i) == \E j \in Live \ {i} : users[j].email = addr

\* INSERT INTO users.
InsertUser(i, name, pw) ==
  users' = [users EXCEPT ![i] = [NoUser EXCEPT !.name = name, !.pw = pw]]

\* Mutant: the row is written whether or not it is there (an upsert).
SetPassword_Upsert(i, pw) == users' = [users EXCEPT ![i].pw = pw]

\* UPDATE users SET password_hash WHERE id = ?; no row, no effect.
SetPassword(i, pw) ==
  users' = IF i \in Live THEN [users EXCEPT ![i].pw = pw] ELSE users

\* UPDATE users SET email = ?, email_verified_at = NULL WHERE id = ?.
SetEmail(i, addr) ==
  users' = IF i \in Live
           THEN [users EXCEPT ![i].email = addr, ![i].verified = FALSE]
           ELSE users

\* Mutant: the WHERE clause does not compare the address.
MarkVerified_AnyAddr(i, addr) ==
  users' = IF i \in Live THEN [users EXCEPT ![i].verified = TRUE] ELSE users

\* UPDATE users SET email_verified_at = now WHERE id = ? AND email = ?.
MarkVerified(i, addr) ==
  users' = IF i \in Live /\ users[i].email = addr
           THEN [users EXCEPT ![i].verified = TRUE]
           ELSE users

\* What was proven to an account says nothing of the next one with its id.
Forget(i) ==
  /\ proven' = {p \in proven : p[1] # i}
  /\ inherited' = {p \in inherited : p[1] # i}

\* Mutant: sessions does not cascade.
DeleteUser_NoCascade(i) ==
  /\ users' = [users EXCEPT ![i] = NoUser]
  /\ links' = [l \in Links |->
                 IF links[l].user = i THEN NoLink ELSE links[l]]
  /\ Forget(i)
  /\ UNCHANGED sessions

\* DELETE FROM users WHERE id = ?, with ON DELETE CASCADE on both children.
DeleteUser(i) ==
  /\ users' = [users EXCEPT ![i] = NoUser]
  /\ sessions' = [c \in Cookies |->
                    IF sessions[c].user = i THEN NoSession ELSE sessions[c]]
  /\ links' = [l \in Links |->
                 IF links[l].user = i THEN NoLink ELSE links[l]]
  /\ Forget(i)

\* INSERT INTO sessions with a fresh token; the foreign key needs the user.
InsertSession(c, i, name, pw) ==
  /\ c \in Cookies \ issued
  /\ sessions' = [sessions EXCEPT ![c] =
                    [user |-> i, name |-> name, pw |-> pw]]
  /\ issued' = issued \cup {c}

\* DELETE FROM sessions WHERE token = ?, and WHERE user_id = ?.
DeleteSession(c) == sessions' = [sessions EXCEPT ![c] = NoSession]
DeleteSessionsOf(i) ==
  sessions' = [c \in Cookies |->
                 IF sessions[c].user = i THEN NoSession ELSE sessions[c]]

\* Mutant: the earlier token of this purpose is kept.
IssueLink_KeepOld(l, i, purpose, addr) ==
  /\ l \in Links \ issued
  /\ links' = [links EXCEPT ![l] =
                 [user |-> i, purpose |-> purpose, addr |-> addr]]
  /\ issued' = issued \cup {l}

\* issueEmailToken: one transaction that deletes the user's tokens of this
\* purpose and inserts a fresh one.
IssueLink(l, i, purpose, addr) ==
  /\ l \in Links \ issued
  /\ links' = [k \in Links |->
                 IF k = l THEN [user |-> i, purpose |-> purpose, addr |-> addr]
                 ELSE IF links[k].user = i /\ links[k].purpose = purpose
                      THEN NoLink ELSE links[k]]
  /\ issued' = issued \cup {l}

\* DELETE FROM email_tokens WHERE token = ?.
DeleteLink(l) == links' = [links EXCEPT ![l] = NoLink]

\* MailConfig.send: SMTP accepts the message or it is lost.
Send(l, addr) ==
  \/ mailedTo' = [mailedTo EXCEPT ![l] = addr]
  \/ UNCHANGED mailedTo

-----------------------------------------------------------------------------
StoreInit ==
  /\ users = [i \in Ids |-> NoUser]
  /\ sessions = [c \in Cookies |-> NoSession]
  /\ links = [l \in Links |-> NoLink]
  /\ issued = {}
  /\ lapsed = {}
  /\ mailedTo = [l \in Links |-> None]
  /\ proven = {}
  /\ inherited = {}
  /\ spent = {}

StoreTypeOK ==
  /\ users \in [Ids -> UserRow]
  /\ sessions \in [Cookies -> SessionRow]
  /\ links \in [Links -> LinkRow]
  /\ issued \in SUBSET (Cookies \cup Links)
  /\ lapsed \in SUBSET (Cookies \cup Links)
  /\ mailedTo \in [Links -> Addrs \cup {None}]
  /\ proven \in SUBSET (Ids \X Addrs)
  /\ inherited \in SUBSET (Ids \X Addrs)
  /\ spent \in SUBSET Links
=============================================================================
