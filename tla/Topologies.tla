----------------------------- MODULE Topologies -----------------------------
(***************************************************************************)
(* Saved network diagrams (internal/web/topology.go): the topologies table *)
(* and its revisions, and the handlers that create, save, share, unshare   *)
(* and delete a diagram.  The pool holds one connection, so a statement or *)
(* a transaction is one step; topoShare has two statements.                *)
(*                                                                         *)
(* A diagram is its name and layout together, one opaque value.  req[r] is *)
(* a request the editor page sent: what the server has yet to do with it,  *)
(* then its answer on the way back.  Requests may overtake each other.     *)
(***************************************************************************)
EXTENDS Naturals, Sequences, FiniteSets

CONSTANTS
  MaxId,    \* bound: rowids are 1..MaxId
  MaxRevs,  \* bound: revisions of diagrams
  Docs,     \* diagrams, as name and layout
  Normal,   \* what validate makes of a diagram: trimmed, rounded and sorted,
            \* or None when it refuses the diagram
  Blank,    \* the diagram a new one is created as
  Tokens,   \* bound: the tokens newShareToken can still return
  Pages,    \* editor pages
  Reqs,     \* bound: requests of editor pages in flight
  None,     \* no token (NULL), and the value of an unused field
  NoTopo    \* no row with that id

Ids == 1..MaxId
NoId == 0

ASSUME TopologyBounds == MaxId \in Nat \ {0} /\ MaxRevs \in Nat
ASSUME BlankAssumption == Blank \in Docs
ASSUME NormalAssumption ==
  /\ Normal \in [Docs -> Docs \cup {None}]
  /\ Normal[Blank] = Blank
  /\ \A d \in Docs : Normal[d] # None => Normal[Normal[d]] = Normal[d]
ASSUME TopologyNone == None \notin Docs \cup Tokens \cup Pages

Row == [doc : Docs, token : Tokens \cup {None}]
ASSUME NoTopoAssumption == NoTopo \notin Row

Notes == {"created", "updated", "deleted"}
Revision == [note : Notes, doc : Docs]

VARIABLES
  topos,    \* rowid -> row of table topologies, or NoTopo
  revs,     \* rowid -> its revisions (of entity_type "topologies")
  req,      \* request -> what is left to do, what it asks or answers, and
            \* the page that waits for it (None once that page is gone)
  revoked   \* history: tokens whose link was stopped or deleted

storeVars == <<topos, revs, revoked>>

Exists(i) == topos[i] # NoTopo
Shared(i) == Exists(i) /\ topos[i].token # None
Newest(i) == revs[i][Len(revs[i])]

Valid(doc) == Normal[doc] # None

\* Rowids are given out again, as in the other tables.
IsNextRowid(i) ==
  /\ \A j \in Ids : Exists(j) => j < i
  /\ i - 1 \in {0} \cup {j \in Ids : Exists(j)}

RoomLeft ==
  Cardinality({n \in Ids \X (1..MaxRevs) : n[2] \in DOMAIN revs[n[1]]}) < MaxRevs
AddRevision(i, doc, note) ==
  /\ RoomLeft
  /\ revs' = [revs EXCEPT ![i] = Append(@, [note |-> note, doc |-> doc])]

\* No link of row i works any more.
Revoke(i) == revoked' = revoked \cup (IF Shared(i) THEN {topos[i].token} ELSE {})

-----------------------------------------------------------------------------
(* Requests.  Asks are handled by the server, answers by the page. *)

Asks == {"save", "share", "share_load", "unshare"}
Answers == {"saved", "shared", "unshared", "refused"}
Idle == [pc |-> "idle", id |-> NoId, doc |-> None, token |-> None,
         page |-> None]
Request == [pc : {"idle"} \cup Asks \cup Answers, id : Ids \cup {NoId},
            doc : Docs \cup {None}, token : Tokens \cup {None},
            page : Pages \cup {None}]

\* A request under way names a diagram, and a save carries one; what is not
\* under way is waited for by no page.
Whole(q) ==
  /\ q.pc # "idle" => q.id \in Ids
  /\ q.pc = "idle" => q.page = None
  /\ q.pc = "save" => q.doc \in Docs

At(r, pc) == req[r].pc = pc
Reply(r, reply) == req' = [req EXCEPT ![r] = reply]
Answer(r, pc) == Reply(r, [req[r] EXCEPT !.pc = pc, !.doc = None])

-----------------------------------------------------------------------------
(* The handlers. *)

\* topoCreate.
Create(i) ==
  /\ IsNextRowid(i)
  /\ topos' = [topos EXCEPT ![i] = [doc |-> Blank, token |-> None]]
  /\ AddRevision(i, Blank, "created")
  /\ UNCHANGED <<req, revoked>>

\* Mutant: an unchanged diagram is written again.
WriteTopo_Always(i, doc) ==
  /\ topos' = [topos EXCEPT ![i].doc = doc]
  /\ AddRevision(i, doc, "updated")

\* writeTopo, on a row that is there; an unchanged diagram is not written.
WriteTopo(i, doc) ==
  IF topos[i].doc = doc THEN UNCHANGED <<topos, revs>>
  ELSE /\ topos' = [topos EXCEPT ![i].doc = doc]
       /\ AddRevision(i, doc, "updated")

\* topoSave stores what validate made of the diagram.
Save(r) ==
  /\ At(r, "save")
  /\ LET i == req[r].id  doc == req[r].doc IN
       IF Valid(doc) /\ Exists(i)
       THEN WriteTopo(i, Normal[doc]) /\ Answer(r, "saved")
       ELSE UNCHANGED <<topos, revs>> /\ Answer(r, "refused")
  /\ UNCHANGED revoked

\* Mutants: a new token each time; a token derived from the diagram.
StoreToken_Replace(i) ==
  \E tok \in Tokens \ revoked :
    /\ \A j \in Ids : Shared(j) => topos[j].token # tok
    /\ topos' = [topos EXCEPT ![i].token = tok]
StoreToken_Derived(i) ==
  IF Shared(i) THEN UNCHANGED topos
  ELSE \E tok \in Tokens :
         /\ \A j \in Ids : Shared(j) => topos[j].token # tok
         /\ topos' = [topos EXCEPT ![i].token = tok]

\* UPDATE ... share_token = COALESCE(share_token, ?), with a random token.
StoreToken(i) ==
  IF Shared(i) THEN UNCHANGED topos
  ELSE \E tok \in Tokens \ revoked :
         /\ \A j \in Ids : Shared(j) => topos[j].token # tok
         /\ topos' = [topos EXCEPT ![i].token = tok]

\* topoShare: store a token, then read it back.
ShareStore(r) ==
  /\ At(r, "share")
  /\ LET i == req[r].id IN
       IF Exists(i) THEN StoreToken(i) /\ Answer(r, "share_load")
       ELSE UNCHANGED topos /\ Answer(r, "refused")
  /\ UNCHANGED <<revs, revoked>>

ShareLoad(r) ==
  /\ At(r, "share_load")
  /\ LET i == req[r].id IN
       IF Exists(i)
       THEN Reply(r, [req[r] EXCEPT !.pc = "shared", !.token = topos[i].token])
       ELSE Answer(r, "refused")
  /\ UNCHANGED storeVars

\* Mutant: the answer does not wait for the UPDATE to find its row.
Unshare_Unchecked(r) ==
  /\ At(r, "unshare")
  /\ Answer(r, "unshared")
  /\ UNCHANGED <<topos, revs, revoked>>

\* topoUnshare.
Unshare(r) ==
  /\ At(r, "unshare")
  /\ LET i == req[r].id IN
       IF Exists(i)
       THEN /\ topos' = [topos EXCEPT ![i].token = None]
            /\ Revoke(i)
            /\ Answer(r, "unshared")
       ELSE UNCHANGED <<topos, revoked>> /\ Answer(r, "refused")
  /\ UNCHANGED revs

\* topoDelete, from the list of diagrams.
Delete(i) ==
  /\ Exists(i)
  /\ topos' = [topos EXCEPT ![i] = NoTopo]
  /\ AddRevision(i, topos[i].doc, "deleted")
  /\ Revoke(i)
  /\ UNCHANGED req

ServerInit ==
  /\ topos = [i \in Ids |-> NoTopo]
  /\ revs = [i \in Ids |-> <<>>]
  /\ req = [r \in Reqs |-> Idle]
  /\ revoked = {}

ServerNext ==
  \/ \E i \in Ids : Create(i) \/ Delete(i)
  \/ \E r \in Reqs : Save(r) \/ ShareStore(r) \/ ShareLoad(r) \/ Unshare(r)

ServerTypeOK ==
  /\ topos \in [Ids -> Row \cup {NoTopo}]
  /\ revs \in [Ids -> Seq(Revision)]
  /\ req \in [Reqs -> Request]
  /\ \A r \in Reqs : Whole(req[r])
  /\ revoked \in SUBSET Tokens
=============================================================================
