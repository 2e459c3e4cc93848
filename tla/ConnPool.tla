------------------------------ MODULE ConnPool ------------------------------
(***************************************************************************)
(* The pool of one database connection (db.Open: SetMaxOpenConns(1)) and   *)
(* how every handler of internal/web uses it.  A handler is the sequence   *)
(* of what it asks of the pool; what the statements do is in the other     *)
(* modules.                                                                *)
(*                                                                         *)
(*   read     a statement on s.db: it takes the connection until its rows  *)
(*            are closed                                                   *)
(*   begin, stmt, commit   a transaction: it keeps the connection          *)
(*   mail     a message handed to the SMTP server, however long that takes *)
(***************************************************************************)
EXTENDS Naturals, Sequences

CONSTANTS
  Reqs,     \* bound: requests in flight
  MaxTags,  \* bound: VLANs ticked in a form
  Nobody      \* nobody

ASSUME ReqsAssumption == Nobody \notin Reqs
ASSUME MaxTagsAssumption == MaxTags \in Nat

Waits == {"read", "begin"}               \* needs the connection to go on
Holds == {"close", "stmt", "commit"}     \* has it

Times(n, op) == [i \in 1..n |-> op]
Reads(n) == Times(n, "read")
Tx(stmts) == <<"begin">> \o stmts \o <<"commit">>

-----------------------------------------------------------------------------
(* crud.go, for every entity. *)

Entities == {"devices", "vlans", "services", "ips", "firewall", "connections"}

\* Fields of kind kMulti, and those whose choices are another entity's rows.
Multis(e) == IF e \in {"devices", "connections"} THEN 1 ELSE 0
Refs(e) == CASE e = "devices" -> 1
             [] e = "vlans" -> 0
             [] e = "services" -> 2
             [] e = "ips" -> 3
             [] e = "firewall" -> 2
             [] e = "connections" -> 4

\* snapshot runs its queries on the queryer it is given.
snapshot(q, e) == Times(1 + Multis(e), q)
addRevision == <<"stmt">>

list == Reads(1)
choices(e) == Reads(Refs(e))
edit(e) == snapshot("read", e) \o choices(e)
history == Reads(1)

\* The link rows of a kMulti field are deleted, then inserted.
links(e, tags) == Times(Multis(e) * (1 + tags), "stmt")

\* Mutant: the row is read back through the pool.
write_OnPool(e, new, tags, changed) ==
  Tx((IF new THEN <<>> ELSE snapshot("stmt", e)) \o <<"stmt">>
     \o links(e, tags) \o snapshot("read", e)
     \o (IF changed THEN addRevision ELSE <<>>))

write(e, new, tags, changed) ==
  Tx((IF new THEN <<>> ELSE snapshot("stmt", e)) \o <<"stmt">>
     \o links(e, tags) \o snapshot("stmt", e)
     \o (IF changed THEN addRevision ELSE <<>>))

remove(e) == Tx(snapshot("stmt", e) \o <<"stmt">> \o addRevision)

-----------------------------------------------------------------------------
(* topology.go. *)

loadTopo == Reads(1)
inventory == Reads(6)
renderTopoList == Reads(1)
topoCreate == Tx(<<"stmt">> \o addRevision)
topoEdit == loadTopo \o inventory
writeTopo(changed) ==
  Tx(<<"stmt">> \o (IF changed THEN <<"stmt">> \o addRevision ELSE <<>>))
removeTopo == Tx(<<"stmt", "stmt">> \o addRevision)
topoShare == Reads(1) \o loadTopo
topoUnshare == Reads(1)

-----------------------------------------------------------------------------
(* auth.go, email.go and server.go. *)

\* authenticate reads the session and may delete it; who is not signed in is
\* sent to setup or login by userCount.
sessionAuth == {Reads(n) : n \in 0..3}

userCount == Reads(1)
createUser == Reads(1)
verifyLogin == Reads(1)
startSession == Reads(1)
accountGet == Reads(2)

\* Mutant: the mail is sent before the token is committed.
sendVerifyEmail_InTx == <<"begin", "stmt", "stmt", "mail", "commit">>

issueEmailToken == Tx(<<"stmt", "stmt">>)
sendVerifyEmail == issueEmailToken \o <<"mail">>
lookupEmailToken == Reads(1)
deleteEmailToken == Reads(1)

setup == userCount \o createUser \o startSession
login == userCount \o verifyLogin \o startSession
logout == Reads(1)
changePassword == verifyLogin \o Reads(1) \o accountGet
addUser == createUser \o accountGet
deleteUser == userCount \o Reads(1) \o accountGet
saveEmail == Reads(2) \o sendVerifyEmail \o accountGet
verifyEmail == lookupEmailToken \o deleteEmailToken \o Reads(1)
forgotPassword == Reads(1) \o issueEmailToken \o <<"mail">>
resetPassword == lookupEmailToken \o Reads(1) \o deleteEmailToken \o Reads(1)
index == Reads(6)
healthz == Reads(1)

-----------------------------------------------------------------------------
(* Routes: what an endpoint does, and what its page does if that fails. *)

Route(ops, page) == [ops |-> ops, page |-> page]

CrudRoutes ==
  UNION {
    {Route(list, <<>>), Route(choices(e), <<>>), Route(edit(e), <<>>),
     Route(remove(e), <<>>), Route(history, <<>>)}
    \cup {Route(write(e, new, tags, changed), choices(e)) :
            new, changed \in BOOLEAN, tags \in 0..MaxTags}
    : e \in Entities}

TopologyRoutes ==
  {Route(ops, <<>>) : ops \in {inventory, renderTopoList, topoEdit, loadTopo,
                               removeTopo, topoShare, topoUnshare}}
  \cup {Route(writeTopo(changed), <<>>) : changed \in BOOLEAN}
  \cup {Route(topoCreate, <<>>)}

AccountRoutes ==
  {Route(ops, <<>>) : ops \in {setup, userCount, login, logout, accountGet,
                               verifyEmail, forgotPassword, lookupEmailToken,
                               resetPassword, index, healthz}}
  \cup {Route(ops, accountGet) : ops \in {changePassword, addUser, deleteUser,
                                          saveEmail}}

Routes == CrudRoutes \cup TopologyRoutes \cup AccountRoutes

-----------------------------------------------------------------------------
VARIABLES
  conn,  \* the request that holds the connection, or Nobody
  todo,  \* request -> what its handler has left to do; <<>> when answered
  page   \* request -> what it does to show an error

poolVars == <<conn, todo, page>>

Idle(r) == todo[r] = <<>>
Ahead(r, ops) == ~Idle(r) /\ Head(todo[r]) \in ops
Becomes(r, ops) == todo' = [todo EXCEPT ![r] = ops]

\* A handler returns early, or shows its error page, which it does once.
Returns(r) ==
  \/ Becomes(r, <<>>) /\ UNCHANGED page
  \/ Becomes(r, page[r]) /\ page' = [page EXCEPT ![r] = <<>>]

Arrive(r) ==
  /\ Idle(r)
  /\ \E auth \in sessionAuth, route \in Routes :
       /\ Becomes(r, auth \o route.ops)
       /\ page' = [page EXCEPT ![r] = route.page]
  /\ UNCHANGED conn

\* database/sql gives the connection to one of those who wait for it; there
\* is no timeout.
Acquire(r) ==
  /\ Ahead(r, Waits)
  /\ conn = Nobody
  /\ conn' = r
  /\ Becomes(r, (IF Head(todo[r]) = "read" THEN <<"close">> ELSE <<>>)
                \o Tail(todo[r]))
  /\ UNCHANGED page

Statement(r) ==
  /\ Ahead(r, {"stmt"})
  /\ conn = r
  /\ Becomes(r, Tail(todo[r]))
  /\ UNCHANGED <<conn, page>>

\* Rows are closed, or the transaction is committed.
Release(r) ==
  /\ Ahead(r, {"close", "commit"})
  /\ conn' = Nobody
  /\ \/ Becomes(r, Tail(todo[r])) /\ UNCHANGED page
     \/ Returns(r)

\* A statement fails or the handler panics: the deferred Rollback or Close
\* runs, and then the handler or Recoverer answers.
Fail(r) ==
  /\ Ahead(r, Holds)
  /\ conn' = Nobody
  /\ Returns(r)

\* mail.send returns, with an error or without.
Mailed(r) ==
  /\ Ahead(r, {"mail"})
  /\ Becomes(r, Tail(todo[r]))
  /\ UNCHANGED <<conn, page>>

PoolInit ==
  /\ conn = Nobody
  /\ todo = [r \in Reqs |-> <<>>]
  /\ page = [r \in Reqs |-> <<>>]

PoolNext ==
  \E r \in Reqs : \/ Arrive(r) \/ Acquire(r) \/ Statement(r) \/ Release(r)
                  \/ Fail(r) \/ Mailed(r)

PoolSpec == PoolInit /\ [][PoolNext]_poolVars

\* Statements end.  The pool picks one of those who wait, at random, each time
\* the connection is free, so nobody is passed over for ever.  Nothing is
\* assumed of the mail server, nor of clients.
PoolFairSpec ==
  /\ PoolSpec
  /\ \A r \in Reqs : /\ WF_poolVars(Statement(r) \/ Release(r) \/ Fail(r))
                     /\ SF_poolVars(Acquire(r))

-----------------------------------------------------------------------------
(* Nobody keeps the connection beyond its answer, and what needs the       *)
(* connection has it.                                                      *)
Ops == Waits \cup Holds \cup {"mail"}
PoolTypeOK ==
  /\ conn \in Reqs \cup {Nobody}
  /\ \A r \in Reqs : todo[r] \in Seq(Ops) /\ page[r] \in Seq({"read"})
  /\ \A r \in Reqs : conn = r => ~Idle(r)
  /\ \A r \in Reqs : Ahead(r, Holds) => conn = r

\* "Code inside a transaction must never touch s.db" (crud.go), nor wait for
\* anything else but the database: who has the connection waits for nobody.
HolderNeverWaits == PoolTypeOK /\ \A r \in Reqs : conn = r => Ahead(r, Holds)

\* Every request is answered, or waits for the mail server; while it does, the
\* other requests are answered.
EveryRequestEnds == \A r \in Reqs : ~Idle(r) ~> Idle(r) \/ Ahead(r, {"mail"})
=============================================================================
