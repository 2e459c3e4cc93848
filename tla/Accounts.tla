------------------------------ MODULE Accounts ------------------------------
(***************************************************************************)
(* LabDoc's account system: the tables of AccountStore driven by the       *)
(* handlers of AuthHandlers and EmailHandlers, and what it promises.       *)
(***************************************************************************)
EXTENDS EmailHandlers

Init == StoreInit /\ req = [r \in Reqs |-> Idle]
Next == AuthNext \/ EmailNext
Spec == Init /\ [][Next]_vars

-----------------------------------------------------------------------------
(* Types. *)

\* Every local a handler still has to use has been read.
LocalsRead(q) ==
  /\ q.pc \notin {"idle", "setup_insert"} => q.id \in Ids
  /\ q.pc = "session_insert" => q.name \in Names /\ q.pw \in Passwords
  /\ q.pc \in {"email_update", "email_issue", "reset_issue",
               "verify_consume", "verify_mark"} => q.addr \in Addrs
  /\ q.pc \in {"verify_consume", "reset_store", "reset_consume"} =>
       q.link \in Links

\* Every table row is whole or absent (an UPDATE by a stale id leaves no half
\* row behind), and no handler uses a local it has not read.
TypeOK ==
  /\ StoreTypeOK
  /\ req \in [Reqs -> ReqRow]
  /\ \A r \in Reqs : LocalsRead(req[r])

-----------------------------------------------------------------------------
(* What holds whatever requests interleave, statements fail or the process *)
(* is killed.                                                              *)

\* No session and no mailed link belongs to an account that does not exist:
\* deleting a user takes its sessions and links with it, and a login or a
\* mail that read the user before it was deleted adds none afterwards.
NoOrphans ==
  /\ \A c \in Cookies : HasSession(c) => sessions[c].user \in Live
  /\ \A l \in Links : links[l].user # NoId => links[l].user \in Live

\* A username, and an e-mail address, names at most one account, so that
\* verifyLogin and forgotPasswordPost, which look up by them, cannot pick
\* the wrong one.
UniqueKeys ==
  \A i, j \in Live :
    i # j => /\ users[i].name # users[j].name
             /\ users[i].email = users[j].email => users[i].email = None

\* An account has at most one unfinished verify link and one reset link:
\* asking again makes the link mailed before useless (issueEmailToken).
OneLinkPerPurpose ==
  \A k, l \in Links :
    links[k].user # NoId /\ links[k].user = links[l].user
      /\ links[k].purpose = links[l].purpose => k = l

\* An address is shown as verified only when this account followed the link
\* that confirms it from that mailbox, even when the address is changed
\* between the mail and the click, or between the two statements of
\* verifyEmail.  The one exception: the account the link was for was deleted
\* and its rowid given out again while that request was under way.
VerifiedMeansProven ==
  \A i \in Ids :
    users[i].verified => <<i, users[i].email>> \in proven \cup inherited

\* A reset link is delivered to no mailbox but the one it was made for, and
\* that is one its account has proven to read (forgotPasswordPost), with the
\* same exception: a request that was under way when the account it had
\* looked up was deleted and its rowid given out again.
ResetOnlyToProven ==
  \A l \in Links :
    HasLink(l, "reset") =>
      /\ <<links[l].user, links[l].addr>> \in proven \cup inherited
      /\ mailedTo[l] \in {links[l].addr, None}

\* Without the exception neither holds (README, "Where the code and its words
\* part"): both requests go by the id they read in an earlier statement.
VerifiedByItsAccount ==
  \A i \in Ids : users[i].verified => <<i, users[i].email>> \in proven
ResetOfItsAccount ==
  \A l \in Links :
    HasLink(l, "reset") => <<links[l].user, links[l].addr>> \in proven

\* A reset link that works stops working only because it changed the
\* password, because a newer one replaced it, or because its account is
\* gone: a refused form or a failed statement does not burn it.
Burned(l) == HasLink(l, "reset") /\ ~HasLink(l, "reset")'
ResetBurnedOnlyByUse ==
  [][\A l \in Links : Burned(l) =>
       \/ l \in spent
       \/ links[l].user \notin Live'
       \/ \E k \in Links \ issued : links'[k].user = links[l].user]_vars

-----------------------------------------------------------------------------
(* What holds when requests are served one after the other. *)

\* The setup page creates an account only while there is none, so that it
\* cannot be used again once the operator has an account.
SetupOnlyWhenEmpty ==
  [][\A r \in Reqs : SetupInsert(r) /\ users' # users => Live = {}]_vars

\* Once an account exists there is always one: deleteUser refuses to remove
\* the last, and one's own.
AccountsRemain == [][Live # {} => Live' # {}]_vars

\* No request is about to change a password with a reset link that already
\* changed one: a reset link is single-use.
LinkUsedOnce ==
  \A r \in Reqs : At(r, "reset_store") => req[r].link \notin spent

\* Where passwords change by reset only, a session was started with its
\* account's present password, unless the reset that replaced it has yet to
\* sign the account out.
SessionsMatchPassword ==
  \A c \in Cookies : HasSession(c) =>
    \/ sessions[c].pw = users[sessions[c].user].pw
    \/ \E r \in Reqs : /\ req[r].pc \in {"reset_consume", "reset_signout"}
                       /\ req[r].id = sessions[c].user

\* A session belongs to the account whose name was checked to start it, not
\* to a later one that was given the same rowid.
SessionOfItsAccount ==
  \A c \in Cookies :
    HasSession(c) => users[sessions[c].user].name = sessions[c].name
=============================================================================
