-------------------------- MODULE TopologiesProofs --------------------------
(***************************************************************************)
(* Machine-checked theorems about TopologyEditor: share links, histories   *)
(* and clean pages, for any number of diagrams, pages, requests and tokens,*)
(* answers late, lost or out of order, and ids used again.                 *)
(***************************************************************************)
EXTENDS TopologyEditor, TLAPS

\* Two diagrams never have the same token (UNIQUE share_token, random ones).
TokensApart ==
  \A i, j \in Ids :
    Shared(i) /\ Shared(j) /\ topos[i].token = topos[j].token => i = j

\* What is shown works as long as tokens are apart and none is revived.
LinkInv == TokensApart /\ RevokedForGood /\ LinkWorks

-----------------------------------------------------------------------------
(* Type correctness. *)

LEMMA IdleTypes == Idle \in Request /\ Whole(Idle) /\ Idle.page = None
BY DEF Idle, Request, Whole, NoId

\* What a request is replaced by fits the page that waits for it.
Fits(row) ==
  /\ row \in Request /\ Whole(row)
  /\ row.page # None => page[row.page].id = row.id

LEMMA ReplyTypes ==
  ASSUME TypeOK, NEW r \in Reqs, NEW row, Fits(row), Reply(r, row), UNCHANGED page
  PROVE  req' \in [Reqs -> Request] /\ \A q \in Reqs : Fits(req[q])'
BY DEF TypeOK, ServerTypeOK, Fits, Reply

LEMMA AnswerFits ==
  ASSUME TypeOK, NEW r \in Reqs, ~At(r, "idle"),
         NEW pc \in (Asks \cup Answers) \ {"save"}
  PROVE  /\ Fits([req[r] EXCEPT !.pc = pc, !.doc = None])
         /\ \A token \in Tokens \cup {None} :
              Fits([req[r] EXCEPT !.pc = pc, !.token = token])
<1>1. req[r] \in Request /\ req[r].id \in Ids /\ Fits(req[r])
  BY DEF TypeOK, ServerTypeOK, Whole, Fits, At
<1> QED BY <1>1 DEF Fits, Request, Whole, Asks, Answers

\* A request that is turned away becomes an answer to its page.
LEMMA TurnedAway ==
  ASSUME NEW r \in Reqs, TurnAway(r)
  PROVE  \E pc \in {"saved", "refused", "unshared"} :
           /\ Answer(r, pc) /\ ~At(r, "idle") /\ req[r].page \in Lapsing
           /\ UNCHANGED <<storeVars, page>>
BY DEF TurnAway, At

LEMMA InitTypes == Init => TypeOK
<1> SUFFICES ASSUME Init PROVE TypeOK
  OBVIOUS
<1>1. \A i \in Ids : revs[i] \in Seq(Revision)
  BY DEF Init, ServerInit
<1> QED BY <1>1, IdleTypes DEF Init, ServerInit, TypeOK, ServerTypeOK

\* The statements of the handlers keep the table and the histories typed.
LEMMA StoreTypes ==
  ASSUME ServerTypeOK, NEW i \in Ids, NEW doc \in Docs
  PROVE  /\ \A note \in Notes : AddRevision(i, doc, note) => revs' \in [Ids -> Seq(Revision)]
         /\ Exists(i) /\ WriteTopo(i, doc) =>
              topos' \in [Ids -> Row \cup {NoTopo}] /\ revs' \in [Ids -> Seq(Revision)]
         /\ Exists(i) /\ StoreToken(i) => topos' \in [Ids -> Row \cup {NoTopo}]
         /\ Revoke(i) => revoked' \in SUBSET Tokens
<1> USE DEF ServerTypeOK
<1>1. Exists(i) => topos[i] \in Row
  BY DEF Exists
<1>2. ASSUME NEW note \in Notes, AddRevision(i, doc, note)
      PROVE  revs' \in [Ids -> Seq(Revision)]
  <2>1. [note |-> note, doc |-> doc] \in Revision
    BY DEF Revision
  <2>2. Append(revs[i], [note |-> note, doc |-> doc]) \in Seq(Revision)
    BY <2>1
  <2> QED BY <1>2, <2>2 DEF AddRevision
<1>3. ASSUME Exists(i), WriteTopo(i, doc)
      PROVE  topos' \in [Ids -> Row \cup {NoTopo}] /\ revs' \in [Ids -> Seq(Revision)]
  <2>1. [topos[i] EXCEPT !.doc = doc] \in Row
    BY <1>1, <1>3 DEF Row
  <2> QED BY <1>2, <1>3, <2>1 DEF WriteTopo, Notes
<1>4. ASSUME Exists(i), StoreToken(i)
      PROVE  topos' \in [Ids -> Row \cup {NoTopo}]
  <2>1. \A tok \in Tokens : [topos[i] EXCEPT !.token = tok] \in Row
    BY <1>1, <1>4 DEF Row
  <2> QED BY <1>4, <2>1 DEF StoreToken
<1>5. Revoke(i) => revoked' \in SUBSET Tokens
  BY <1>1 DEF Revoke, Shared, Row
<1> QED BY <1>2, <1>3, <1>4, <1>5

\* TypeOK is its parts, with Fits for the requests.
LEMMA TypeParts ==
  TypeOK <=> /\ topos \in [Ids -> Row \cup {NoTopo}]
             /\ revs \in [Ids -> Seq(Revision)]
             /\ revoked \in SUBSET Tokens
             /\ req \in [Reqs -> Request]
             /\ \A q \in Reqs : Fits(req[q])
             /\ page \in [Pages -> OpenPage \cup {Closed}]
BY DEF TypeOK, ServerTypeOK, Fits

LEMMA ServerTypes == TypeOK /\ ServerNext /\ UNCHANGED page => TypeOK'
<1> SUFFICES ASSUME TypeOK, ServerNext, UNCHANGED page PROVE TypeOK'
  OBVIOUS
<1>t. /\ ServerTypeOK
      /\ page' \in [Pages -> OpenPage \cup {Closed}]
      /\ \A i \in Ids : Exists(i) => topos[i] \in Row
  BY DEF TypeOK, ServerTypeOK, Exists
<1>1. ASSUME NEW i \in Ids, Create(i) PROVE TypeOK'
  <2>1. [doc |-> Blank, token |-> None] \in Row
    BY BlankAssumption DEF Row
  <2> QED BY <1>1, <1>t, <2>1, StoreTypes, BlankAssumption
          DEF Create, TypeOK, ServerTypeOK, Notes
<1>2. ASSUME NEW i \in Ids, Delete(i) PROVE TypeOK'
  <2>1. topos[i].doc \in Docs
    BY <1>2, <1>t DEF Delete, Row
  <2> QED BY <1>2, <1>t, <2>1, StoreTypes DEF Delete, TypeOK, ServerTypeOK, Notes
<1>a. ASSUME NEW r \in Reqs, ~At(r, "idle"),
             NEW pc \in (Asks \cup Answers) \ {"save"}, Answer(r, pc)
      PROVE  req' \in [Reqs -> Request] /\ \A q \in Reqs : Fits(req[q])'
  BY <1>a, AnswerFits, ReplyTypes DEF Answer
<1>r. ASSUME NEW r \in Reqs, ~At(r, "idle")
      PROVE  req[r].id \in Ids /\ (At(r, "save") => req[r].doc \in Docs)
  BY <1>r DEF TypeOK, ServerTypeOK, Whole, At
<1>3. ASSUME NEW r \in Reqs, Save(r) PROVE TypeOK'
  <2>1. req[r].id \in Ids /\ req[r].doc \in Docs
    BY <1>3, <1>r DEF Save, At
  <2>2. req' \in [Reqs -> Request] /\ \A q \in Reqs : Fits(req[q])'
    BY <1>3, <1>a DEF Save, At, Asks, Answers
  <2>3. CASE Valid(req[r].doc) /\ Exists(req[r].id)
    <3>1. Normal[req[r].doc] \in Docs
      BY <2>1, <2>3, NormalAssumption DEF Valid
    <3>2. topos' \in [Ids -> Row \cup {NoTopo}] /\ revs' \in [Ids -> Seq(Revision)]
      BY <1>3, <1>t, <2>1, <2>3, <3>1, StoreTypes DEF Save
    <3> QED BY <1>3, <1>t, <2>2, <3>2 DEF Save, TypeOK, ServerTypeOK, Fits
  <2>4. CASE ~(Valid(req[r].doc) /\ Exists(req[r].id))
    BY <1>3, <1>t, <2>2, <2>4 DEF Save, TypeOK, ServerTypeOK, Fits
  <2> QED BY <2>3, <2>4
<1>4. ASSUME NEW r \in Reqs, ShareStore(r) PROVE TypeOK'
  <2>1. req[r].id \in Ids
    BY <1>4, <1>r DEF ShareStore, At
  <2>2. req' \in [Reqs -> Request] /\ \A q \in Reqs : Fits(req[q])'
    BY <1>4, <1>a DEF ShareStore, At, Asks, Answers
  <2>3. topos' \in [Ids -> Row \cup {NoTopo}]
    BY <1>4, <1>t, <2>1, StoreTypes, BlankAssumption DEF ShareStore, ServerTypeOK
  <2> QED BY <1>4, <1>t, <2>2, <2>3 DEF ShareStore, TypeOK, ServerTypeOK, Fits
<1>5. ASSUME NEW r \in Reqs, ShareLoad(r) PROVE TypeOK'
  <2>1. req[r].id \in Ids
    BY <1>5, <1>r DEF ShareLoad, At
  <2>2. req' \in [Reqs -> Request] /\ \A q \in Reqs : Fits(req[q])'
    <3>1. CASE Exists(req[r].id)
      <4>1. topos[req[r].id].token \in Tokens \cup {None}
        BY <1>t, <2>1, <3>1 DEF Row
      <4>2. Fits([req[r] EXCEPT !.pc = "shared", !.token = topos[req[r].id].token])
        BY <1>5, <4>1, AnswerFits DEF ShareLoad, At, Answers
      <4> QED BY <1>5, <3>1, <4>2, ReplyTypes DEF ShareLoad
    <3>2. CASE ~Exists(req[r].id)
      BY <1>5, <1>a, <3>2 DEF ShareLoad, At, Answers
    <3> QED BY <3>1, <3>2
  <2> QED BY <1>5, <1>t, <2>2 DEF ShareLoad, storeVars, TypeOK, ServerTypeOK, Fits
<1>6. ASSUME NEW r \in Reqs, Unshare(r) PROVE TypeOK'
  <2>1. req[r].id \in Ids
    BY <1>6, <1>r DEF Unshare, At
  <2>2. req' \in [Reqs -> Request] /\ \A q \in Reqs : Fits(req[q])'
    BY <1>6, <1>a DEF Unshare, At, Answers
  <2>3. topos' \in [Ids -> Row \cup {NoTopo}] /\ revoked' \in SUBSET Tokens
    <3>1. CASE Exists(req[r].id)
      <4>1. [topos[req[r].id] EXCEPT !.token = None] \in Row
        BY <1>t, <2>1, <3>1 DEF Row
      <4> QED BY <1>6, <1>t, <2>1, <3>1, <4>1, StoreTypes, BlankAssumption
              DEF Unshare, ServerTypeOK
    <3>2. CASE ~Exists(req[r].id)
      BY <1>6, <1>t, <3>2 DEF Unshare, ServerTypeOK
    <3> QED BY <3>1, <3>2
  <2> QED BY <1>6, <1>t, <2>2, <2>3 DEF Unshare, TypeOK, ServerTypeOK, Fits
<1> QED BY <1>1, <1>2, <1>3, <1>4, <1>5, <1>6 DEF ServerNext

\* An open page is one of its diagram, and stays typed when a field changes.
LEMMA OpenPages ==
  ASSUME TypeOK, NEW p \in Pages, IsOpen(p)
  PROVE  /\ page[p] \in OpenPage
         /\ \A doc \in Docs, dirty \in BOOLEAN :
              [page[p] EXCEPT !.doc = doc, !.dirty = dirty] \in OpenPage
         /\ \A dirty \in BOOLEAN : [page[p] EXCEPT !.dirty = dirty] \in OpenPage
         /\ \A share \in Tokens \cup {None} : [page[p] EXCEPT !.share = share] \in OpenPage
<1>1. page[p] \in OpenPage
  BY DEF TypeOK, IsOpen, Closed
<1> QED BY <1>1 DEF OpenPage

\* A request that a page waits for is under way, about the page's diagram.
LEMMA Awaited ==
  ASSUME TypeOK, NEW r \in Reqs, req[r].page # None
  PROVE  /\ req[r].page \in Pages /\ req[r].id \in Ids
         /\ req[r].pc # "idle"
         /\ IsOpen(req[r].page) /\ page[req[r].page].id = req[r].id
<1>1. req[r] \in Request /\ Whole(req[r])
  BY DEF TypeOK, ServerTypeOK
<1> QED BY <1>1 DEF TypeOK, Request, Whole, IsOpen, Ids, NoId

LEMMA PageTypes == TypeOK /\ PageNext => TypeOK'
<1> SUFFICES ASSUME TypeOK, PageNext PROVE TypeOK'
  OBVIOUS
<1> DEFINE Parts == /\ req \in [Reqs -> Request]
                    /\ \A q \in Reqs : Fits(req[q])
                    /\ page \in [Pages -> OpenPage \cup {Closed}]
<1>t. Parts
  BY DEF TypeOK, ServerTypeOK, Fits
<1>u. ASSUME UNCHANGED storeVars, Parts' PROVE TypeOK'
  BY <1>u DEF TypeOK, ServerTypeOK, Fits, storeVars
<1>v. ASSUME /\ page' \in [Pages -> OpenPage \cup {Closed}]
             /\ \A x \in Pages : page'[x].id = page[x].id,
             NEW row, Fits(row)
      PROVE  Fits(row)'
  <2>1. row.page \in Pages \cup {None}
    BY <1>v DEF Fits, Request
  <2> QED BY <1>v, <2>1 DEF Fits
<1>1. ASSUME NEW p \in Pages, Leave(p) PROVE Parts'
  <2>1. ASSUME NEW r \in Reqs PROVE req'[r] \in Request /\ Fits(req[r])'
    <3>1. CASE req[r].page = p
      <4>1. /\ req'[r] = [req[r] EXCEPT !.page = None]
            /\ req[r] \in Request /\ Whole(req[r])
        BY <1>1, <1>t, <3>1 DEF Leave, Fits
      <4> QED BY <4>1 DEF Fits, Request, Whole
    <3>2. CASE req[r].page # p
      BY <1>1, <1>t, <3>2, Awaited DEF Leave, Fits
    <3> QED BY <3>1, <3>2
  <2> QED BY <1>1, <1>t, <2>1 DEF Leave
<1>2. ASSUME NEW p \in Pages, NEW i \in Ids, Open(p, i) PROVE Parts'
  <2>1. topos[i] \in Row
    BY <1>2 DEF Open, Exists, TypeOK, ServerTypeOK
  <2>2. page'[p] \in OpenPage
    BY <1>2, <1>t, <2>1 DEF Open, OpenPage, Row
  <2>3. \A r \in Reqs : req[r].page # p
    BY <1>2, Awaited, TopologyNone DEF Open
  <2> QED BY <1>2, <1>t, <2>2, <2>3 DEF Open, Fits
<1>3. ASSUME NEW p \in Pages, NEW doc \in Docs, Edit(p, doc) PROVE Parts'
  <2>1. page' = [page EXCEPT ![p] = [page[p] EXCEPT !.doc = doc, !.dirty = TRUE]]
    BY <1>3, <1>t DEF Edit
  <2>2. page'[p] \in OpenPage /\ page'[p].id = page[p].id
    BY <1>3, <1>t, <2>1, OpenPages DEF Edit, OpenPage
  <2>3. /\ page' \in [Pages -> OpenPage \cup {Closed}]
        /\ \A x \in Pages : page'[x].id = page[x].id
    BY <1>t, <2>1, <2>2
  <2> QED BY <1>3, <1>t, <1>v, <2>3 DEF Edit
<1>d. ASSUME NEW p \in Pages, Confirm(p) PROVE Parts'
  <2>1. page' = [page EXCEPT ![p] = [page[p] EXCEPT !.dirty = FALSE]]
    BY <1>d, <1>t DEF Confirm
  <2>2. page'[p] \in OpenPage /\ page'[p].id = page[p].id
    BY <1>d, <1>t, <2>1, OpenPages DEF Confirm, OpenPage
  <2>3. /\ page' \in [Pages -> OpenPage \cup {Closed}]
        /\ \A x \in Pages : page'[x].id = page[x].id
    BY <1>t, <2>1, <2>2
  <2> QED BY <1>d, <1>t, <1>v, <2>3 DEF Confirm
<1>4. ASSUME NEW r \in Reqs, Receive(r) PROVE Parts'
  <2> DEFINE p == req[r].page
  <2>1. IsOpen(p) /\ p \in Pages /\ req[r].token \in Tokens \cup {None}
    BY <1>4, <1>t, Awaited DEF Receive, Request
  <2>2. /\ page' \in [Pages -> OpenPage \cup {Closed}]
        /\ \A x \in Pages : page'[x].id = page[x].id
    <3> DEFINE Becomes(row) == page' = [page EXCEPT ![p] = row]
    <3>1. \/ Becomes([page[p] EXCEPT !.dirty = FALSE])
          \/ Becomes([page[p] EXCEPT !.share = req[r].token])
          \/ Becomes([page[p] EXCEPT !.share = None])
          \/ UNCHANGED page
      BY <1>4, <1>t, <2>1 DEF Receive, OnAnswer, Answers
    <3>2. ASSUME NEW row \in OpenPage, row.id = page[p].id, Becomes(row)
          PROVE  /\ page' \in [Pages -> OpenPage \cup {Closed}]
                 /\ \A x \in Pages : page'[x].id = page[x].id
      BY <1>t, <2>1, <3>2
    <3>3. /\ [page[p] EXCEPT !.dirty = FALSE].id = page[p].id
          /\ \A share : [page[p] EXCEPT !.share = share].id = page[p].id
      BY <2>1, OpenPages DEF OpenPage
    <3> QED BY <1>t, <2>1, <3>1, <3>2, <3>3, OpenPages
  <2>3. Fits(Idle)
    BY IdleTypes DEF Fits
  <2> QED BY <1>4, <1>t, <1>v, <2>2, <2>3 DEF Receive, Fits
<1>5. ASSUME NEW r \in Reqs, Disconnect(r) PROVE Parts'
  <2>1. Fits([req[r] EXCEPT !.page = None])
    BY <1>5, <1>t DEF Disconnect, Fits, Request, Whole, Asks
  <2>2. req' = [req EXCEPT ![r] = [req[r] EXCEPT !.page = None]]
    BY <1>5, <1>t DEF Disconnect
  <2> QED BY <1>5, <1>t, <2>1, <2>2 DEF Disconnect, Fits
<1>6. ASSUME NEW r \in Reqs, Lose(r) PROVE Parts'
  BY <1>6, <1>t, IdleTypes DEF Lose, Fits
<1>c. ASSUME NEW r \in Reqs, NEW p \in Pages, IsOpen(p), UNCHANGED page,
             NEW pc \in Asks, NEW doc \in Docs \cup {None}, NEW tok \in Tokens \cup {None},
             pc = "save" => doc \in Docs, Ask(r, p, pc, doc, tok)
      PROVE  Parts'
  <2>1. page[p].id \in Ids
    BY <1>c, OpenPages DEF OpenPage
  <2>2. Fits([pc |-> pc, id |-> page[p].id, doc |-> doc, token |-> tok, page |-> p])
    BY <1>c, <2>1 DEF Fits, Request, Whole, Asks
  <2> QED BY <1>c, <1>t, <2>2 DEF Ask, Fits
<1>7. ASSUME NEW r \in Reqs, NEW p \in Pages, ClickSave(r, p) PROVE Parts'
  <2>1. page[p].doc \in Docs
    BY <1>7, OpenPages DEF ClickSave, OpenPage
  <2> QED BY <1>7, <1>c, <2>1 DEF ClickSave, Asks
<1>8. ASSUME NEW r \in Reqs, NEW p \in Pages, ClickShare(r, p) \/ ClickUnshare(r, p)
      PROVE  Parts'
  <2>1. page[p].share \in Tokens \cup {None}
    BY <1>8, OpenPages DEF ClickShare, ClickUnshare, OpenPage
  <2> QED BY <1>8, <1>c, <2>1 DEF ClickShare, ClickUnshare, Asks
<1>9. ASSUME NEW r \in Reqs, TurnAway(r) PROVE Parts'
  <2>1. PICK pc \in {"saved", "refused", "unshared"} :
          Answer(r, pc) /\ ~At(r, "idle") /\ UNCHANGED page
    BY <1>9, TurnedAway
  <2>2. Fits([req[r] EXCEPT !.pc = pc, !.doc = None])
    BY <2>1, AnswerFits DEF Answers
  <2>3. req' \in [Reqs -> Request] /\ \A q \in Reqs : Fits(req[q])'
    BY <2>1, <2>2, ReplyTypes DEF Answer
  <2> QED BY <1>t, <2>1, <2>3
<1>10. UNCHANGED storeVars
  BY DEF PageNext, Confirm, Leave, Open, Edit, Receive, TurnAway, Disconnect, Lose, ClickSave,
         ClickShare, ClickUnshare
<1> QED BY <1>1, <1>2, <1>3, <1>d, <1>4, <1>5, <1>6, <1>7, <1>8, <1>9, <1>10, <1>u DEF PageNext

LEMMA StepTypes == TypeOK /\ [Next]_vars => TypeOK'
<1>1. TypeOK /\ UNCHANGED vars => TypeOK'
  BY DEF TypeOK, ServerTypeOK, vars, storeVars
<1> QED BY <1>1, ServerTypes, PageTypes DEF Next

\* Rows, requests and pages stay whole, and a page waits only for requests
\* about the diagram it has open.
THEOREM TypeCorrect == Spec => []TypeOK
  BY InitTypes, StepTypes, PTL DEF Spec

-----------------------------------------------------------------------------
(* Share links. *)

\* What the handlers do to a link: keep it, end it, or make a new one.
LEMMA LinkSteps ==
  ASSUME TypeOK, TokensApart, RevokedForGood, ServerNext
  PROVE  /\ TokensApart' /\ RevokedForGood'
         /\ \A i \in Ids, tok \in Tokens \cup {None} : Given(i, tok) => Given(i, tok)'
<1> DEFINE Kept == /\ TokensApart' /\ RevokedForGood'
                   /\ \A i \in Ids, tok \in Tokens \cup {None} :
                        Given(i, tok) => Given(i, tok)'
           Same(j) == /\ Shared(j)' <=> Shared(j)
                      /\ Shared(j) => topos'[j].token = topos[j].token
<1> USE DEF TokensApart, RevokedForGood, Given
<1>r. \A i \in Ids : (Exists(i) => topos[i] \in Row) /\ topos[i] \in Row \cup {NoTopo}
  BY DEF TypeOK, ServerTypeOK, Exists
<1>1. ASSUME \A j \in Ids : Same(j), UNCHANGED revoked PROVE Kept
  BY <1>1 DEF Shared
<1>2. ASSUME NEW i \in Ids, ~Shared(i)', Revoke(i),
             \A j \in Ids \ {i} : Same(j)
      PROVE  Kept
  BY <1>2 DEF Shared, Revoke
<1>3. ASSUME NEW i \in Ids, ~Shared(i), Shared(i)', topos'[i].token \notin revoked,
             \A j \in Ids : Shared(j) => topos[j].token # topos'[i].token,
             \A j \in Ids \ {i} : Same(j), UNCHANGED revoked
      PROVE  Kept
  BY <1>3 DEF Shared
<1>p. \A r \in Reqs :
        /\ ~At(r, "idle") => req[r].id \in Ids
        /\ At(r, "save") => req[r].doc \in Docs
  BY DEF TypeOK, ServerTypeOK, Whole, At
<1>w. ASSUME NEW i \in Ids, NEW row, topos' = [topos EXCEPT ![i] = row]
      PROVE  topos'[i] = row /\ \A j \in Ids \ {i} : topos'[j] = topos[j]
  BY <1>w DEF TypeOK, ServerTypeOK
<1>4. ASSUME NEW i \in Ids, Create(i) PROVE Kept
  <2>1. ~Exists(i)
    BY <1>4 DEF Create, IsNextRowid, Ids
  <2>2. topos' = [topos EXCEPT ![i] = [doc |-> Blank, token |-> None]]
    BY <1>4 DEF Create
  <2>3. \A j \in Ids : Same(j)
    BY <1>r, <2>1, <2>2 DEF Shared, Exists, TypeOK, ServerTypeOK
  <2> QED BY <1>1, <1>4, <2>3 DEF Create
<1>5. ASSUME NEW i \in Ids, Delete(i) PROVE Kept
  <2>1. ~Shared(i)' /\ \A j \in Ids \ {i} : Same(j)
    BY <1>5 DEF Delete, Shared, Exists, TypeOK, ServerTypeOK
  <2> QED BY <1>2, <1>5, <2>1 DEF Delete
<1>6. ASSUME NEW r \in Reqs, Save(r) PROVE Kept
  <2>1. PICK i \in Ids : i = req[r].id
    BY <1>6, <1>p DEF Save, At
  <2>2. CASE UNCHANGED topos
    BY <1>1, <1>6, <2>2 DEF Save, Shared, Exists
  <2>3. CASE ~UNCHANGED topos
    <3> DEFINE row == [topos[i] EXCEPT !.doc = Normal[req[r].doc]]
    <3>1. Exists(i) /\ Normal[req[r].doc] \in Docs
      BY <2>1, <1>6, <1>p, <2>3, NormalAssumption DEF Save, Valid, At
    <3>2. row # NoTopo /\ row.token = topos[i].token
      BY <1>r, <2>1, <3>1, NoTopoAssumption DEF Row
    <3>3. topos' = [topos EXCEPT ![i] = row]
      BY <2>1, <1>6, <2>3 DEF Save, WriteTopo
    <3> HIDE DEF row
    <3>4. topos'[i] = row /\ \A j \in Ids \ {i} : topos'[j] = topos[j]
      BY <1>w, <2>1, <3>3
    <3>5. \A j \in Ids : Same(j)
      BY <2>1, <3>1, <3>2, <3>4 DEF Shared, Exists
    <3> QED BY <1>1, <1>6, <3>5 DEF Save
  <2> QED BY <2>2, <2>3
<1>7. ASSUME NEW r \in Reqs, ShareStore(r) PROVE Kept
  <2>1. PICK i \in Ids : i = req[r].id /\ UNCHANGED revoked
    BY <1>7, <1>p DEF ShareStore, At
  <2>2. CASE UNCHANGED topos
    BY <1>1, <2>1, <2>2 DEF Shared, Exists
  <2>3. CASE ~UNCHANGED topos
    <3>1. Exists(i) /\ ~Shared(i)
      BY <2>1, <1>7, <2>3 DEF ShareStore, StoreToken
    <3>2. PICK tok \in Tokens \ revoked :
            /\ \A j \in Ids : Shared(j) => topos[j].token # tok
            /\ topos' = [topos EXCEPT ![i].token = tok]
      BY <2>1, <1>7, <3>1 DEF ShareStore, StoreToken
    <3> DEFINE row == [topos[i] EXCEPT !.token = tok]
    <3>3. row # NoTopo /\ row.token = tok /\ tok # None
      BY <1>r, <2>1, <3>1, <3>2, NoTopoAssumption, TopologyNone DEF Row
    <3>4. topos' = [topos EXCEPT ![i] = row]
      BY <3>2
    <3> HIDE DEF row
    <3>5. topos'[i] = row /\ \A j \in Ids \ {i} : topos'[j] = topos[j]
      BY <1>w, <2>1, <3>4
    <3>6. Shared(i)' /\ \A j \in Ids \ {i} : Same(j)
      BY <2>1, <3>3, <3>5 DEF Shared, Exists
    <3> QED BY <1>3, <2>1, <3>1, <3>2, <3>3, <3>5, <3>6
  <2> QED BY <2>2, <2>3
<1>8. ASSUME NEW r \in Reqs, ShareLoad(r) PROVE Kept
  BY <1>8, <1>1 DEF ShareLoad, storeVars, Shared, Exists
<1>9. ASSUME NEW r \in Reqs, Unshare(r) PROVE Kept
  <2>1. PICK i \in Ids : i = req[r].id
    BY <1>9, <1>p DEF Unshare, At
  <2>2. CASE Exists(i)
    <3> DEFINE row == [topos[i] EXCEPT !.token = None]
    <3>1. topos' = [topos EXCEPT ![i] = row]
      BY <2>1, <1>9, <2>2 DEF Unshare
    <3>2. row.token = None
      BY <1>r, <2>1, <2>2 DEF Row
    <3> HIDE DEF row
    <3>3. topos'[i] = row /\ \A j \in Ids \ {i} : topos'[j] = topos[j]
      BY <1>w, <2>1, <3>1
    <3>4. ~Shared(i)' /\ \A j \in Ids \ {i} : Same(j)
      BY <2>1, <3>2, <3>3 DEF Shared, Exists
    <3>5. Revoke(i)
      BY <2>1, <1>9, <2>2 DEF Unshare
    <3> QED BY <1>2, <2>1, <3>4, <3>5
  <2>3. CASE ~Exists(i)
    BY <2>1, <1>1, <1>9, <2>3 DEF Unshare, Shared, Exists
  <2> QED BY <2>2, <2>3
<1> QED BY <1>4, <1>5, <1>6, <1>7, <1>8, <1>9 DEF ServerNext

\* A link that a page has after a step was there before, or an answer brings
\* it, or it is the one its diagram has.
LEMMA ShownByPages ==
  ASSUME TypeOK, [Next]_vars, NEW p \in Pages, IsOpen(p)'
  PROVE  \/ IsOpen(p) /\ page'[p].id = page[p].id /\ page'[p].share = page[p].share
         \/ page'[p].share = None
         \/ \E r \in Reqs : /\ At(r, "shared") /\ page'[p].id = req[r].id
                            /\ page'[p].share = req[r].token
         \/ Exists(page'[p].id) /\ page'[p].share = topos[page'[p].id].token
<1> DEFINE Goal == \/ IsOpen(p) /\ page'[p].id = page[p].id
                                /\ page'[p].share = page[p].share
                   \/ page'[p].share = None
                   \/ \E r \in Reqs : /\ At(r, "shared") /\ page'[p].id = req[r].id
                                      /\ page'[p].share = req[r].token
                   \/ Exists(page'[p].id) /\ page'[p].share = topos[page'[p].id].token
<1>t. page \in [Pages -> OpenPage \cup {Closed}]
  BY DEF TypeOK
<1>1. CASE UNCHANGED page
  BY <1>1 DEF IsOpen
<1>2. ASSUME NEW q \in Pages, Leave(q) PROVE Goal
  BY <1>2, <1>t DEF Leave, IsOpen, Closed
<1>3. ASSUME NEW q \in Pages, NEW i \in Ids, Open(q, i) PROVE Goal
  BY <1>3, <1>t DEF Open, IsOpen
<1>4. ASSUME NEW q \in Pages, NEW doc \in Docs, Edit(q, doc) PROVE Goal
  <2>1. page[q] \in OpenPage
    BY <1>4, OpenPages DEF Edit
  <2> QED BY <1>4, <1>t, <2>1 DEF Edit, IsOpen, OpenPage
<1>5. ASSUME NEW r \in Reqs, Receive(r) PROVE Goal
  <2>1. PICK q \in Pages : /\ q = req[r].page /\ page[q] \in OpenPage
                           /\ IsOpen(q) /\ page[q].id = req[r].id
    BY <1>5, Awaited, OpenPages DEF Receive
  <2>2. CASE q # p
    BY <1>5, <1>t, <2>1, <2>2 DEF Receive, OnAnswer, Answers, IsOpen
  <2>3. CASE q = p
    <3>1. CASE req[r].pc = "saved"
      BY <1>5, <1>t, <2>1, <2>3, <3>1 DEF Receive, OnAnswer, OpenPage
    <3>2. CASE req[r].pc = "shared"
      BY <1>5, <1>t, <2>1, <2>3, <3>2 DEF Receive, OnAnswer, OpenPage, At
    <3>3. CASE req[r].pc = "unshared"
      BY <1>5, <1>t, <2>1, <2>3, <3>3 DEF Receive, OnAnswer, OpenPage
    <3>4. CASE req[r].pc = "refused"
      BY <1>5, <1>1, <3>4 DEF Receive, OnAnswer
    <3> QED BY <1>5, <3>1, <3>2, <3>3, <3>4 DEF Receive, Answers
  <2> QED BY <2>2, <2>3
<1>6. ASSUME NEW q \in Pages, Confirm(q) PROVE Goal
  BY <1>6, <1>t DEF Confirm, IsOpen
<1> QED BY <1>1, <1>2, <1>3, <1>4, <1>5, <1>6
        DEF Next, vars, PageNext, TurnAway, Disconnect, Lose, ClickSave, ClickShare,
            ClickUnshare

LEMMA ShownByAnswers ==
  ASSUME TypeOK, [Next]_vars, NEW r \in Reqs, At(r, "shared")'
  PROVE  \/ At(r, "shared") /\ req'[r].id = req[r].id /\ req'[r].token = req[r].token
         \/ Exists(req'[r].id) /\ req'[r].token = topos[req'[r].id].token
<1> DEFINE Goal ==
      \/ At(r, "shared") /\ req'[r].id = req[r].id /\ req'[r].token = req[r].token
      \/ Exists(req'[r].id) /\ req'[r].token = topos[req'[r].id].token
<1>t. req \in [Reqs -> Request]
  BY DEF TypeOK, ServerTypeOK
<1>1. CASE req'[r] = req[r]
  BY <1>1 DEF At
<1>2. ASSUME NEW q \in Reqs, NEW row, req' = [req EXCEPT ![q] = row],
             row.pc # "shared"
      PROVE  Goal
  BY <1>1, <1>2, <1>t DEF At
<1>3. ASSUME NEW q \in Reqs, NEW pc, pc # "shared", Answer(q, pc) PROVE Goal
  <2>1. [req[q] EXCEPT !.pc = pc, !.doc = None].pc = pc
    BY <1>t DEF Request
  <2> QED BY <1>2, <1>3, <2>1 DEF Answer, Reply
<1>4. CASE ServerNext
  <2>1. ASSUME NEW i \in Ids, Create(i) \/ Delete(i) PROVE Goal
    BY <1>1, <2>1 DEF Create, Delete
  <2>2. ASSUME NEW q \in Reqs, Save(q) \/ ShareStore(q) \/ Unshare(q) PROVE Goal
    BY <1>3, <2>2 DEF Save, ShareStore, Unshare
  <2>3. ASSUME NEW q \in Reqs, ShareLoad(q) PROVE Goal
    <3>1. CASE Exists(req[q].id)
      <4> DEFINE row == [req[q] EXCEPT !.pc = "shared", !.token = topos[req[q].id].token]
      <4>1. row.id = req[q].id /\ row.token = topos[req[q].id].token
        BY <1>t DEF Request
      <4>2. req' = [req EXCEPT ![q] = row]
        BY <2>3, <3>1 DEF ShareLoad, Reply
      <4> HIDE DEF row
      <4> QED BY <1>1, <1>t, <3>1, <4>1, <4>2
    <3>2. CASE ~Exists(req[q].id)
      BY <1>3, <2>3, <3>2 DEF ShareLoad
    <3> QED BY <3>1, <3>2
  <2> QED BY <1>4, <2>1, <2>2, <2>3 DEF ServerNext
<1>5. CASE PageNext
  <2>1. CASE UNCHANGED req
    BY <1>1, <2>1
  <2>2. ASSUME NEW p \in Pages, Leave(p) PROVE Goal
    <3>1. req[r] \in Request
      BY <1>t
    <3>2. req'[r] = req[r] \/ req'[r] = [req[r] EXCEPT !.page = None]
      BY <2>2 DEF Leave
    <3> QED BY <1>1, <3>1, <3>2 DEF At, Request
  <2>3. ASSUME NEW q \in Reqs, Receive(q) \/ Lose(q) PROVE Goal
    <3>1. Idle.pc # "shared"
      BY DEF Idle
    <3> QED BY <1>2, <2>3, <3>1 DEF Receive, Lose
  <2>4. ASSUME NEW q \in Reqs, Disconnect(q) PROVE Goal
    <3>1. req[q] \in Request
      BY <1>t
    <3>2. req' = [req EXCEPT ![q] = [req[q] EXCEPT !.page = None]]
      BY <2>4 DEF Disconnect
    <3>3. [req[q] EXCEPT !.page = None].pc = req[q].pc
      BY <3>1 DEF Request
    <3> QED BY <1>2, <2>4, <3>2, <3>3 DEF Disconnect, Asks
  <2>5. ASSUME NEW q \in Reqs, NEW p \in Pages,
               ClickSave(q, p) \/ ClickShare(q, p) \/ ClickUnshare(q, p)
        PROVE  Goal
    <3>1. ASSUME NEW pc \in Asks, NEW doc, NEW tok, Ask(q, p, pc, doc, tok) PROVE Goal
      <4> DEFINE row == [pc |-> pc, id |-> page[p].id, doc |-> doc,
                         token |-> tok, page |-> p]
      <4>1. row.pc # "shared"
        BY DEF Asks
      <4>2. req' = [req EXCEPT ![q] = row]
        BY <3>1 DEF Ask
      <4> HIDE DEF row
      <4> QED BY <1>2, <4>1, <4>2
    <3> QED BY <2>5, <3>1 DEF ClickSave, ClickShare, ClickUnshare, Asks
  <2>6. ASSUME NEW q \in Reqs, TurnAway(q) PROVE Goal
    BY <1>3, <2>6, TurnedAway
  <2> QED BY <1>5, <2>1, <2>2, <2>3, <2>4, <2>5, <2>6 DEF PageNext, Open, Edit, Confirm
<1> QED BY <1>1, <1>4, <1>5 DEF Next, vars

LEMMA StepLinks == TypeOK /\ LinkInv /\ [Next]_vars => LinkInv'
<1> SUFFICES ASSUME TypeOK, LinkInv, [Next]_vars PROVE LinkInv'
  OBVIOUS
<1> USE DEF LinkInv
<1>k. /\ TokensApart' /\ RevokedForGood'
      /\ \A i \in Ids, tok \in Tokens \cup {None} : Given(i, tok) => Given(i, tok)'
  <2>1. CASE ServerNext
    BY <2>1, LinkSteps
  <2>2. CASE UNCHANGED storeVars
    BY <2>2 DEF storeVars, TokensApart, RevokedForGood, Given, Shared, Exists
  <2> QED BY <2>1, <2>2 DEF Next, vars, PageNext, Confirm, Leave, Open, Edit, Receive,
          TurnAway, Disconnect, Lose, ClickSave, ClickShare, ClickUnshare
<1>n. /\ \A i \in Ids : Exists(i) => topos[i].token \in Tokens \cup {None}
      /\ \A r \in Reqs : At(r, "shared") =>
           req[r].id \in Ids /\ req[r].token \in Tokens \cup {None}
      /\ \A p \in Pages : IsOpen(p) =>
           page[p].id \in Ids /\ page[p].share \in Tokens \cup {None}
  BY OpenPages DEF TypeOK, ServerTypeOK, Exists, Row, Request, Whole, At, OpenPage
<1>d. ASSUME NEW i \in Ids, Exists(i)
      PROVE  Given(i, topos[i].token)
  BY <1>d DEF Given
<1>1. ASSUME NEW p \in Pages, IsOpen(p)'
      PROVE  Given(page[p].id, page[p].share)'
  <2>1. PICK i \in Ids, tok \in Tokens \cup {None} :
          i = page'[p].id /\ tok = page'[p].share
    BY <1>1, StepTypes DEF TypeOK, IsOpen, Closed, OpenPage
  <2>2. tok = None \/ Given(i, tok)
    BY <1>1, <1>n, <1>d, <2>1, ShownByPages DEF LinkWorks
  <2>3. Given(i, tok)'
    BY <1>k, <2>2 DEF Given
  <2> QED BY <2>1, <2>3 DEF Given
<1>2. ASSUME NEW r \in Reqs, At(r, "shared")'
      PROVE  Given(req[r].id, req[r].token)'
  <2>1. PICK i \in Ids, tok \in Tokens \cup {None} :
          i = req'[r].id /\ tok = req'[r].token
    BY <1>2, StepTypes DEF TypeOK, ServerTypeOK, Request, Whole, At
  <2>2. Given(i, tok)
    BY <1>2, <1>n, <1>d, <2>1, ShownByAnswers DEF LinkWorks
  <2>3. Given(i, tok)'
    BY <1>k, <2>2
  <2> QED BY <2>1, <2>3 DEF Given
<1> QED BY <1>k, <1>1, <1>2 DEF LinkWorks

LEMMA InitLinks == Init => LinkInv
BY DEF Init, ServerInit, LinkInv, TokensApart, RevokedForGood, LinkWorks, Shared,
       Exists, IsOpen, Closed, At, Idle, Ids

\* Stop sharing, and deleting the diagram, revoke a link for good, for any
\* number of diagrams that are given the same id afterwards.
THEOREM RevokedCorrect == Spec => []RevokedForGood
<1>1. LinkInv => RevokedForGood
  BY DEF LinkInv
<1> QED BY <1>1, InitTypes, StepTypes, InitLinks, StepLinks, PTL DEF Spec

\* A link that any page shows is its diagram's one link until it is revoked,
\* for any number of pages and of requests, however their answers overtake
\* each other.
THEOREM LinksCorrect == Spec => []LinkWorks
<1>1. LinkInv => LinkWorks
  BY DEF LinkInv
<1> QED BY <1>1, InitTypes, StepTypes, InitLinks, StepLinks, PTL DEF Spec

-----------------------------------------------------------------------------
(* Stop sharing. *)

\* A request to stop sharing names the link of its diagram, or a dead one.
StopInv ==
  /\ \A r \in Reqs : At(r, "unshare") =>
       req[r].token # None /\ Given(req[r].id, req[r].token)
  /\ StoppedIsRevoked

\* A page asks with the link it shows, and the answer comes from topoUnshare.
LEMMA StopMoves ==
  ASSUME TypeOK, [Next]_vars, NEW r \in Reqs,
         At(r, "unshare")' \/ (At(r, "unshared")' /\ req'[r].page \in Steady)
  PROVE  \/ /\ req'[r].pc = req[r].pc /\ req'[r].id = req[r].id
            /\ req'[r].token = req[r].token
            /\ req'[r].page \in {req[r].page, None}
         \/ \E p \in Pages : /\ At(r, "unshare")' /\ IsOpen(p)
                             /\ page[p].share # None
                             /\ req'[r].id = page[p].id
                             /\ req'[r].token = page[p].share
         \/ /\ At(r, "unshared")' /\ Unshare(r) /\ Exists(req[r].id)
            /\ req'[r].token = req[r].token
<1> DEFINE Same == /\ req'[r].pc = req[r].pc /\ req'[r].id = req[r].id
                   /\ req'[r].token = req[r].token
                   /\ req'[r].page \in {req[r].page, None}
           Asked == \E p \in Pages : /\ At(r, "unshare")' /\ IsOpen(p)
                                     /\ page[p].share # None
                                     /\ req'[r].id = page[p].id
                                     /\ req'[r].token = page[p].share
           Done == /\ At(r, "unshared")' /\ Unshare(r) /\ Exists(req[r].id)
                   /\ req'[r].token = req[r].token
           Goal == Same \/ Asked \/ Done
<1>t. req \in [Reqs -> Request]
  BY DEF TypeOK, ServerTypeOK
<1>1. CASE req'[r] = req[r]
  BY <1>1
<1>2. ASSUME NEW q \in Reqs, NEW row, req' = [req EXCEPT ![q] = row],
             row.pc \notin {"unshare", "unshared"}
      PROVE  Goal
  BY <1>1, <1>2, <1>t DEF At
<1>3. ASSUME NEW q \in Reqs, NEW pc, pc \notin {"unshare", "unshared"}, Answer(q, pc)
      PROVE  Goal
  <2>1. [req[q] EXCEPT !.pc = pc, !.doc = None].pc = pc
    BY <1>t DEF Request
  <2> QED BY <1>2, <1>3, <2>1 DEF Answer, Reply
<1>4. ASSUME NEW q \in Reqs, Unshare(q) PROVE Goal
  <2>1. CASE q = r /\ Exists(req[q].id)
    <3> DEFINE row == [req[q] EXCEPT !.pc = "unshared", !.doc = None]
    <3>1. row.pc = "unshared" /\ row.token = req[q].token
      BY <1>t DEF Request
    <3>2. req' = [req EXCEPT ![q] = row]
      BY <1>4, <2>1 DEF Unshare, Answer, Reply
    <3> HIDE DEF row
    <3> QED BY <1>4, <1>t, <2>1, <3>1, <3>2 DEF At
  <2>2. CASE q # r /\ Exists(req[q].id)
    BY <1>1, <1>4, <1>t, <2>2 DEF Unshare, Answer, Reply
  <2>3. CASE ~Exists(req[q].id)
    BY <1>3, <1>4, <2>3 DEF Unshare
  <2> QED BY <2>1, <2>2, <2>3
<1>5. CASE ServerNext
  <2>1. ASSUME NEW i \in Ids, Create(i) \/ Delete(i) PROVE Goal
    BY <1>1, <2>1 DEF Create, Delete
  <2>2. ASSUME NEW q \in Reqs, Save(q) \/ ShareStore(q) PROVE Goal
    BY <1>3, <2>2 DEF Save, ShareStore
  <2>3. ASSUME NEW q \in Reqs, ShareLoad(q) PROVE Goal
    <3>1. CASE Exists(req[q].id)
      <4> DEFINE row == [req[q] EXCEPT !.pc = "shared", !.token = topos[req[q].id].token]
      <4>1. row.pc = "shared"
        BY <1>t DEF Request
      <4>2. req' = [req EXCEPT ![q] = row]
        BY <2>3, <3>1 DEF ShareLoad, Reply
      <4> HIDE DEF row
      <4> QED BY <1>2, <4>1, <4>2
    <3>2. CASE ~Exists(req[q].id)
      BY <1>3, <2>3, <3>2 DEF ShareLoad
    <3> QED BY <3>1, <3>2
  <2> QED BY <1>4, <1>5, <2>1, <2>2, <2>3 DEF ServerNext
<1>6. CASE PageNext
  <2>1. CASE UNCHANGED req
    BY <1>1, <2>1
  <2>2. ASSUME NEW p \in Pages, Leave(p) PROVE Goal
    <3>1. req[r] \in Request
      BY <1>t
    <3>2. req'[r] = req[r] \/ req'[r] = [req[r] EXCEPT !.page = None]
      BY <2>2 DEF Leave
    <3> QED BY <1>1, <3>1, <3>2 DEF Request
  <2>3. ASSUME NEW q \in Reqs, Receive(q) \/ Lose(q) PROVE Goal
    <3>1. Idle.pc = "idle"
      BY DEF Idle
    <3> QED BY <1>2, <2>3, <3>1 DEF Receive, Lose
  <2>4. ASSUME NEW q \in Reqs, Disconnect(q) PROVE Goal
    <3> DEFINE row == [req[q] EXCEPT !.page = None]
    <3>1. /\ row.pc = req[q].pc /\ row.id = req[q].id
          /\ row.token = req[q].token /\ row.page = None
      BY <1>t DEF Request
    <3>2. req' = [req EXCEPT ![q] = row]
      BY <2>4 DEF Disconnect
    <3> HIDE DEF row
    <3> QED BY <1>1, <1>t, <3>1, <3>2
  <2>5. ASSUME NEW q \in Reqs, NEW p \in Pages, ClickSave(q, p) \/ ClickShare(q, p)
        PROVE  Goal
    BY <1>2, <2>5 DEF ClickSave, ClickShare, Ask
  <2>6. ASSUME NEW q \in Reqs, NEW p \in Pages, ClickUnshare(q, p) PROVE Goal
    <3> DEFINE row == [pc |-> "unshare", id |-> page[p].id, doc |-> None,
                       token |-> page[p].share, page |-> p]
    <3>1. row.pc = "unshare" /\ row.id = page[p].id /\ row.token = page[p].share
      OBVIOUS
    <3>2. req' = [req EXCEPT ![q] = row] /\ IsOpen(p) /\ page[p].share # None
      BY <2>6 DEF ClickUnshare, Ask
    <3> HIDE DEF row
    <3>3. CASE q # r
      BY <1>1, <3>2, <3>3
    <3>4. CASE q = r
      BY <1>t, <3>1, <3>2, <3>4 DEF At
    <3> QED BY <3>3, <3>4
  <2>7. ASSUME NEW q \in Reqs, TurnAway(q) PROVE Goal
    <3>1. PICK pc \in {"saved", "refused", "unshared"} :
            Answer(q, pc) /\ req[q].page \in Lapsing
      BY <2>7, TurnedAway
    <3> DEFINE row == [req[q] EXCEPT !.pc = pc, !.doc = None]
    <3>2. row.pc = pc /\ row.page = req[q].page
      BY <1>t DEF Request
    <3>3. req' = [req EXCEPT ![q] = row]
      BY <3>1 DEF Answer, Reply
    <3> HIDE DEF row
    <3>4. CASE q # r
      BY <1>1, <1>t, <3>3, <3>4
    <3>5. CASE q = r
      BY <1>t, <3>1, <3>2, <3>3, <3>5 DEF At, Steady
    <3> QED BY <3>4, <3>5
  <2> QED BY <1>6, <2>1, <2>2, <2>3, <2>4, <2>5, <2>6, <2>7 DEF PageNext, Open, Edit, Confirm
<1> QED BY <1>1, <1>5, <1>6 DEF Next, vars

LEMMA StepStop ==
  ASSUME TypeOK, LinkInv, StopInv, [Next]_vars
  PROVE  StopInv'
<1> USE DEF StopInv
<1>k. \A i \in Ids, tok \in Tokens \cup {None} : Given(i, tok) => Given(i, tok)'
  <2>1. CASE ServerNext
    BY <2>1, LinkSteps DEF LinkInv
  <2>2. CASE UNCHANGED storeVars
    BY <2>2 DEF storeVars, Given, Exists
  <2> QED BY <2>1, <2>2 DEF Next, vars, PageNext, Confirm, Leave, Open, Edit, Receive,
          TurnAway, Disconnect, Lose, ClickSave, ClickShare, ClickUnshare
<1>r. revoked \subseteq revoked'
  BY DEF Next, vars, ServerNext, storeVars, PageNext, Confirm, Leave, Open, Edit, Receive,
         TurnAway, Disconnect, Lose, ClickSave, ClickShare, ClickUnshare,
         Create, Delete, Save, ShareStore, ShareLoad, Unshare, Revoke
<1>n. /\ req \in [Reqs -> Request] /\ \A r \in Reqs : Whole(req[r])
      /\ \A p \in Pages : IsOpen(p) =>
           page[p].id \in Ids /\ page[p].share \in Tokens \cup {None}
  BY OpenPages DEF TypeOK, ServerTypeOK, OpenPage
<1>1. ASSUME NEW r \in Reqs, At(r, "unshare")'
      PROVE  req'[r].token # None /\ Given(req[r].id, req[r].token)'
  <2>1. PICK i \in Ids, tok \in Tokens \cup {None} :
          i = req'[r].id /\ tok = req'[r].token
    BY <1>1, StepTypes DEF TypeOK, ServerTypeOK, Request, Whole, At
  <2>2. tok # None /\ Given(i, tok)
    BY <1>1, <1>n, <2>1, StopMoves DEF LinkInv, LinkWorks, At
  <2>3. Given(i, tok)'
    BY <1>k, <2>2
  <2> QED BY <2>1, <2>2, <2>3 DEF Given
<1>2. ASSUME NEW r \in Reqs, At(r, "unshared")', req'[r].page \in Steady
      PROVE  req'[r].token \in revoked'
  <2>1. CASE /\ req'[r].pc = req[r].pc /\ req'[r].token = req[r].token
             /\ req'[r].page \in {req[r].page, None}
    BY <1>2, <1>r, <2>1, TopologyNone DEF At, StoppedIsRevoked, Steady
  <2>2. CASE Unshare(r) /\ Exists(req[r].id) /\ req'[r].token = req[r].token
    <3>1. At(r, "unshare") /\ Revoke(req[r].id)
      BY <2>2 DEF Unshare
    <3>2. req[r].token # None /\ Given(req[r].id, req[r].token)
      BY <3>1
    <3> QED BY <1>r, <2>2, <3>1, <3>2 DEF Given, Revoke, Shared
  <2> QED BY <1>2, <2>1, <2>2, StopMoves DEF At
<1> QED BY <1>1, <1>2 DEF StoppedIsRevoked

LEMMA InitStop == Init => StopInv
BY DEF Init, ServerInit, StopInv, StoppedIsRevoked, At, Idle

\* A page that keeps its session and is told that sharing has stopped had a
\* link that is dead by then, for any number of pages, of both kinds, that
\* share and stop sharing the diagram, delete it and create others meanwhile.
THEOREM StopCorrect == Spec => []StoppedIsRevoked
<1>1. StopInv => StoppedIsRevoked
  BY DEF StopInv
<1>2. TypeOK /\ LinkInv /\ StopInv /\ [Next]_vars => StopInv'
  BY StepStop
<1> QED BY <1>1, <1>2, InitTypes, StepTypes, InitLinks, StepLinks, InitStop, PTL DEF Spec

-----------------------------------------------------------------------------
(* Histories, and what a clean page stands for. *)

Stored(i, doc) == \E n \in DOMAIN revs[i] : revs[i][n].doc = doc

\* What the table holds has passed validate.
NormalStored == \A i \in Ids : Exists(i) => Normal[topos[i].doc] = topos[i].doc

LEMMA RevisionSteps ==
  ASSUME TypeOK, NEW i \in Ids, NEW doc \in Docs, NEW note \in Notes,
         AddRevision(i, doc, note)
  PROVE  /\ revs'[i] # <<>> /\ Newest(i)' = [note |-> note, doc |-> doc]
         /\ \A j \in Ids \ {i} : revs'[j] = revs[j]
         /\ \A j \in Ids, d \in Docs : Stored(j, d) => Stored(j, d)'
<1> DEFINE rev == [note |-> note, doc |-> doc]
<1>1. rev \in Revision /\ revs[i] \in Seq(Revision)
  BY DEF Revision, TypeOK, ServerTypeOK
<1>2. revs'[i] = Append(revs[i], rev) /\ \A j \in Ids \ {i} : revs'[j] = revs[j]
  BY DEF AddRevision, TypeOK, ServerTypeOK
<1> HIDE DEF rev
<1>3. /\ Len(revs'[i]) = Len(revs[i]) + 1 /\ revs'[i][Len(revs[i]) + 1] = rev
      /\ \A n \in DOMAIN revs[i] : n \in DOMAIN revs'[i] /\ revs'[i][n] = revs[i][n]
      /\ revs'[i] # <<>>
  BY <1>1, <1>2
<1>4. \A j \in Ids, d \in Docs : Stored(j, d) => Stored(j, d)'
  BY <1>2, <1>3 DEF Stored
<1> QED BY <1>2, <1>3, <1>4 DEF Newest, rev

\* What the server does to a diagram and its history.
LEMMA LogSteps ==
  ASSUME TypeOK, LogMatches, NormalStored, ServerNext
  PROVE  /\ LogMatches' /\ NormalStored'
         /\ \A i \in Ids, d \in Docs : Stored(i, d) => Stored(i, d)'
<1> DEFINE Kept == /\ LogMatches' /\ NormalStored'
                   /\ \A i \in Ids, d \in Docs : Stored(i, d) => Stored(i, d)'
<1>r. \A i \in Ids : Exists(i) => topos[i] \in Row /\ topos[i].doc \in Docs
  BY DEF TypeOK, ServerTypeOK, Exists, Row
<1>s. /\ \A r \in Reqs : ~At(r, "idle") => req[r].id \in Ids
      /\ \A r \in Reqs : At(r, "save") => req[r].doc \in Docs
  BY DEF TypeOK, ServerTypeOK, Whole, At
\* A row is written together with the revision that tells what is in it.
<1>1. ASSUME NEW i \in Ids, NEW doc \in Docs, NEW row, NEW note \in Notes,
             topos' = [topos EXCEPT ![i] = row], AddRevision(i, doc, note),
             row = NoTopo => note = "deleted",
             row # NoTopo => note # "deleted" /\ row.doc = doc /\ Normal[doc] = doc
      PROVE  Kept
  <2>1. topos'[i] = row /\ \A j \in Ids \ {i} : topos'[j] = topos[j]
    BY <1>1 DEF TypeOK, ServerTypeOK
  <2>2. /\ revs'[i] # <<>> /\ Newest(i)'.note = note /\ Newest(i)'.doc = doc
        /\ \A j \in Ids \ {i} : revs'[j] = revs[j]
        /\ \A j \in Ids, d \in Docs : Stored(j, d) => Stored(j, d)'
    BY <1>1, RevisionSteps
  <2>3. NormalStored'
    BY <1>1, <2>1 DEF NormalStored, Exists
  <2>4. LogMatches'
    <3> SUFFICES ASSUME NEW j \in Ids
                 PROVE  IF Exists(j)'
                        THEN /\ revs'[j] # <<>> /\ Newest(j)'.note # "deleted"
                             /\ Newest(j)'.doc = topos'[j].doc
                        ELSE revs'[j] # <<>> => Newest(j)'.note = "deleted"
      BY DEF LogMatches
    <3>1. CASE j = i
      BY <1>1, <2>1, <2>2, <3>1 DEF Exists
    <3>2. CASE j # i
      BY <2>1, <2>2, <3>2 DEF LogMatches, Exists, Newest
    <3> QED BY <3>1, <3>2
  <2> QED BY <2>2, <2>3, <2>4
<1>2. ASSUME UNCHANGED <<topos, revs>> PROVE Kept
  BY <1>2 DEF LogMatches, NormalStored, Stored, Exists, Newest
<1>3. ASSUME UNCHANGED revs,
             \A i \in Ids : /\ Exists(i)' <=> Exists(i)
                            /\ Exists(i) => topos'[i].doc = topos[i].doc
      PROVE  Kept
  BY <1>3 DEF LogMatches, NormalStored, Stored, Newest
<1>4. ASSUME NEW i \in Ids, Create(i) PROVE Kept
  <2>1. [doc |-> Blank, token |-> None] # NoTopo
    BY BlankAssumption, NoTopoAssumption DEF Row
  <2> QED BY <1>1, <1>4, <2>1, BlankAssumption, NormalAssumption DEF Create, Notes
<1>5. ASSUME NEW i \in Ids, Delete(i) PROVE Kept
  BY <1>1, <1>5, <1>r DEF Delete, Notes
<1>6. ASSUME NEW r \in Reqs, Save(r) PROVE Kept
  <2>1. PICK i \in Ids : i = req[r].id
    BY <1>6, <1>s DEF Save, At
  <2>2. CASE UNCHANGED <<topos, revs>>
    BY <1>2, <2>2
  <2>3. CASE ~UNCHANGED <<topos, revs>>
    <3> DEFINE doc == Normal[req[r].doc]
               row == [topos[i] EXCEPT !.doc = doc]
    <3>1. Exists(i) /\ doc \in Docs /\ Normal[doc] = doc
      BY <1>6, <1>s, <2>1, <2>3, NormalAssumption DEF Save, Valid, At
    <3>2. row # NoTopo /\ row.doc = doc
      BY <1>r, <3>1, NoTopoAssumption DEF Row
    <3>3. topos' = [topos EXCEPT ![i] = row] /\ AddRevision(i, doc, "updated")
      BY <1>6, <2>1, <2>3 DEF Save, WriteTopo
    <3> HIDE DEF doc, row
    <3> QED BY <1>1, <3>1, <3>2, <3>3 DEF Notes
  <2> QED BY <2>2, <2>3
<1>7. ASSUME NEW i \in Ids, NEW tok \in Tokens \cup {None}, Exists(i), UNCHANGED revs,
             topos' = [topos EXCEPT ![i] = [topos[i] EXCEPT !.token = tok]]
      PROVE  Kept
  <2> DEFINE row == [topos[i] EXCEPT !.token = tok]
  <2>1. row # NoTopo /\ row.doc = topos[i].doc
    BY <1>r, <1>7, NoTopoAssumption DEF Row
  <2>2. topos' = [topos EXCEPT ![i] = row]
    BY <1>7
  <2> HIDE DEF row
  <2>3. topos'[i] = row /\ \A j \in Ids \ {i} : topos'[j] = topos[j]
    BY <2>2 DEF TypeOK, ServerTypeOK
  <2> QED BY <1>3, <1>7, <2>1, <2>3 DEF Exists
<1>8. ASSUME NEW r \in Reqs, ShareStore(r) PROVE Kept
  <2>1. PICK i \in Ids : i = req[r].id
    BY <1>8, <1>s DEF ShareStore, At
  <2>2. CASE UNCHANGED topos
    BY <1>2, <1>8, <2>2 DEF ShareStore
  <2>3. CASE ~UNCHANGED topos
    <3>1. PICK tok \in Tokens : topos' = [topos EXCEPT ![i].token = tok]
      BY <1>8, <2>1, <2>3 DEF ShareStore, StoreToken
    <3>2. topos' = [topos EXCEPT ![i] = [topos[i] EXCEPT !.token = tok]]
      BY <3>1
    <3> QED BY <1>7, <1>8, <2>1, <2>3, <3>2 DEF ShareStore
  <2> QED BY <2>2, <2>3
<1>9. ASSUME NEW r \in Reqs, ShareLoad(r) PROVE Kept
  BY <1>2, <1>9 DEF ShareLoad, storeVars
<1>10. ASSUME NEW r \in Reqs, Unshare(r) PROVE Kept
  <2>1. PICK i \in Ids : i = req[r].id
    BY <1>10, <1>s DEF Unshare, At
  <2>2. CASE Exists(i)
    <3>1. topos' = [topos EXCEPT ![i] = [topos[i] EXCEPT !.token = None]]
      BY <1>10, <2>1, <2>2 DEF Unshare
    <3> QED BY <1>7, <1>10, <2>1, <2>2, <3>1 DEF Unshare
  <2>3. CASE ~Exists(i)
    BY <1>2, <1>10, <2>1, <2>3 DEF Unshare
  <2> QED BY <2>2, <2>3
<1> QED BY <1>4, <1>5, <1>6, <1>8, <1>9, <1>10 DEF ServerNext

LEMMA InitLog == Init => LogMatches /\ NormalStored
BY DEF Init, ServerInit, LogMatches, NormalStored, Exists, Ids

\* No step of a page touches the store.
LEMMA PagesOnlyAsk ==
  [Next]_vars => (ServerNext /\ UNCHANGED page) \/ UNCHANGED storeVars
BY DEF Next, vars, PageNext, Confirm, Leave, Open, Edit, Receive, TurnAway, Disconnect, Lose,
       ClickSave, ClickShare, ClickUnshare

LEMMA StepLog ==
  TypeOK /\ LogMatches /\ NormalStored /\ [Next]_vars
    => /\ LogMatches' /\ NormalStored'
       /\ \A i \in Ids, d \in Docs : Stored(i, d) => Stored(i, d)'
<1> SUFFICES ASSUME TypeOK, LogMatches, NormalStored, [Next]_vars
             PROVE  /\ LogMatches' /\ NormalStored'
                    /\ \A i \in Ids, d \in Docs : Stored(i, d) => Stored(i, d)'
  OBVIOUS
<1>1. CASE ServerNext
  BY <1>1, LogSteps
<1>2. CASE UNCHANGED storeVars
  BY <1>2 DEF storeVars, LogMatches, NormalStored, Stored, Exists, Newest
<1> QED BY <1>1, <1>2, PagesOnlyAsk

\* However the saves of any number of pages interleave, a history ends with the
\* diagram that is stored, or with its deletion.
THEOREM LogCorrect == Spec => []LogMatches
BY InitTypes, StepTypes, InitLog, StepLog, PTL DEF Spec

-----------------------------------------------------------------------------
(* Calm pages: what is being saved is what the page shows. *)

SaveFine(r) ==
  req[r].page \in Calm =>
    /\ At(r, "save") => req[r].doc = page[req[r].page].doc
    /\ At(r, "saved") => Stored(req[r].id, Normal[page[req[r].page].doc])

CleanInv == \A r \in Reqs : SaveFine(r)

PageFine(p) ==
  StopsWarning(p) => Stored(page[p].id, Normal[page[p].doc])' \/ Confirm(p)

CleanStep == CleanInv' /\ \A p \in Calm : PageFine(p)

LEMMA NewestStored ==
  TypeOK /\ LogMatches => \A i \in Ids : Exists(i) => Stored(i, topos[i].doc)
<1> SUFFICES ASSUME TypeOK, LogMatches, NEW i \in Ids, Exists(i)
             PROVE  Stored(i, topos[i].doc)
  OBVIOUS
<1>1. revs[i] \in Seq(Revision) /\ revs[i] # <<>>
  BY DEF TypeOK, ServerTypeOK, LogMatches
<1>2. Len(revs[i]) \in DOMAIN revs[i]
  BY <1>1
<1> QED BY <1>2 DEF LogMatches, Newest, Stored

LEMMA StoredDocs ==
  TypeOK => \A i \in Ids : \A d : Stored(i, d) => d \in Docs
<1> SUFFICES ASSUME TypeOK, NEW i \in Ids, NEW d, Stored(i, d) PROVE d \in Docs
  OBVIOUS
<1>1. PICK n \in DOMAIN revs[i] : revs[i][n].doc = d
  BY DEF Stored
<1>2. revs[i] \in Seq(Revision)
  BY DEF TypeOK, ServerTypeOK
<1>3. revs[i][n] \in Revision
  BY <1>1, <1>2
<1> QED BY <1>1, <1>3 DEF Revision

LEMMA StepClean ==
  ASSUME TypeOK, LogMatches, NormalStored, CleanInv, [Next]_vars
  PROVE  CleanStep
<1> USE DEF CleanInv, CleanStep
<1>t. /\ page \in [Pages -> OpenPage \cup {Closed}]
      /\ req \in [Reqs -> Request]
      /\ TypeOK' /\ LogMatches'
  BY StepTypes, StepLog DEF TypeOK, ServerTypeOK
<1>k. \A i \in Ids : \A d : Stored(i, d) => Stored(i, d)'
  BY StepLog, StoredDocs
<1>p. Calm \subseteq Pages /\ Calm \cap (Hasty \cup Lapsing) = {} /\ None \notin Calm
  BY TopologyNone DEF Calm, Steady
<1>i. /\ \A p \in Pages : IsOpen(p) => page[p].id \in Ids
      /\ \A r \in Reqs : req[r].page # None =>
           req[r].page \in Pages /\ req[r].id \in Ids
  BY Awaited, OpenPages DEF OpenPage
\* A page or a request that a step leaves alone.
<1>a. ASSUME NEW p \in Calm, page'[p].id = page[p].id,
             page'[p].doc = page[p].doc, page'[p].dirty = page[p].dirty
      PROVE  PageFine(p)
  BY <1>a DEF PageFine, StopsWarning, IsOpen
<1>b. ASSUME NEW r \in Reqs, req'[r] = req[r],
             req[r].page # None => page'[req[r].page].doc = page[req[r].page].doc
      PROVE  SaveFine(r)'
  BY <1>b, <1>i, <1>k, <1>p DEF SaveFine, At, Stored
<1>c. ASSUME NEW r \in Reqs,
             req'[r].page \notin Calm \/ req'[r].pc \notin {"save", "saved"}
      PROVE  SaveFine(r)'
  BY <1>c DEF SaveFine, At
<1>1. ASSUME ServerNext, UNCHANGED page PROVE CleanStep
  <2>1. \A p \in Calm : PageFine(p)
    BY <1>1, <1>a
  <2>2. ASSUME UNCHANGED req PROVE \A r \in Reqs : SaveFine(r)'
    BY <1>1, <1>b, <2>2
  <2>3. ASSUME NEW r \in Reqs, NEW row, req' = [req EXCEPT ![r] = row],
               row.pc \notin {"save", "saved"}
        PROVE  \A q \in Reqs : SaveFine(q)'
    BY <1>1, <1>t, <1>b, <1>c, <2>3
  <2>4. ASSUME NEW r \in Reqs, NEW pc, pc \notin {"save", "saved"}, Answer(r, pc)
        PROVE  \A q \in Reqs : SaveFine(q)'
    <3>1. [req[r] EXCEPT !.pc = pc, !.doc = None].pc = pc
      BY <1>t DEF Request
    <3> QED BY <2>3, <2>4, <3>1 DEF Answer, Reply
  <2>5. ASSUME NEW r \in Reqs, Save(r), Answer(r, "saved")
        PROVE  \A q \in Reqs : SaveFine(q)'
    <3> DEFINE row == [req[r] EXCEPT !.pc = "saved", !.doc = None]
    <3>1. row.pc = "saved" /\ row.id = req[r].id /\ row.page = req[r].page
      BY <1>t DEF Request
    <3>2. req' = [req EXCEPT ![r] = row]
      BY <2>5 DEF Answer, Reply
    <3> HIDE DEF row
    <3>3. PICK i \in Ids : i = req[r].id
      BY <2>5 DEF Save, At, TypeOK, ServerTypeOK, Whole
    <3>4. PICK doc \in Docs : doc = req[r].doc
      BY <2>5 DEF Save, At, TypeOK, ServerTypeOK, Whole
    <3>5. Exists(i)' /\ topos'[i].doc = Normal[doc]
      <4>1. Exists(i) /\ WriteTopo(i, Normal[doc])
        <5>1. "saved" # "refused" /\ req[r] \in Request
          BY <1>t
        <5>2. Answer(r, "refused") => req'[r].pc = "refused"
          BY <1>t, <5>1 DEF Answer, Reply, Request
        <5>3. req'[r].pc = "saved"
          BY <1>t, <3>1, <3>2
        <5> QED BY <2>5, <3>3, <3>4, <5>2, <5>3 DEF Save
      <4>2. topos[i] \in Row
        BY <4>1 DEF TypeOK, ServerTypeOK, Exists
      <4>3. CASE UNCHANGED topos
        BY <4>1, <4>2, <4>3 DEF WriteTopo, Exists, TypeOK, ServerTypeOK, Row
      <4>4. CASE ~UNCHANGED topos
        <5> DEFINE new == [topos[i] EXCEPT !.doc = Normal[doc]]
        <5>1. Normal[doc] \in Docs
          BY <2>5, <3>3, <3>4, <4>4, NormalAssumption DEF Save, Valid
        <5>2. new.doc = Normal[doc] /\ new # NoTopo
          BY <4>2, <5>1, NoTopoAssumption DEF Row
        <5>3. topos' = [topos EXCEPT ![i] = new]
          BY <4>1, <4>4 DEF WriteTopo
        <5> HIDE DEF new
        <5> QED BY <5>2, <5>3 DEF TypeOK, ServerTypeOK, Exists
      <4> QED BY <4>3, <4>4
    <3>6. Stored(i, Normal[doc])'
      <4>1. /\ revs'[i] \in Seq(Revision) /\ revs'[i] # <<>>
            /\ revs'[i][Len(revs'[i])].doc = Normal[doc]
        BY <1>t, <3>5 DEF LogMatches, Newest, TypeOK, ServerTypeOK
      <4>2. Len(revs'[i]) \in DOMAIN revs'[i]
        BY <4>1
      <4> QED BY <4>1, <4>2 DEF Stored
    <3>7. SaveFine(r)'
      BY <1>1, <1>t, <2>5, <3>1, <3>2, <3>3, <3>4, <3>6
         DEF SaveFine, Save, At, Stored
    <3> QED BY <1>1, <1>t, <1>b, <3>2, <3>7
  <2>6. ASSUME NEW r \in Reqs, Save(r) PROVE \A q \in Reqs : SaveFine(q)'
    BY <2>4, <2>5, <2>6 DEF Save
  <2>7. ASSUME NEW r \in Reqs, ShareLoad(r) PROVE \A q \in Reqs : SaveFine(q)'
    <3>1. CASE Exists(req[r].id)
      <4> DEFINE row == [req[r] EXCEPT !.pc = "shared", !.token = topos[req[r].id].token]
      <4>1. row.pc = "shared"
        BY <1>t DEF Request
      <4>2. req' = [req EXCEPT ![r] = row]
        BY <2>7, <3>1 DEF ShareLoad, Reply
      <4> HIDE DEF row
      <4> QED BY <2>3, <4>1, <4>2
    <3>2. CASE ~Exists(req[r].id)
      BY <2>4, <2>7, <3>2 DEF ShareLoad
    <3> QED BY <3>1, <3>2
  <2>8. ASSUME NEW r \in Reqs, ShareStore(r) \/ Unshare(r)
        PROVE  \A q \in Reqs : SaveFine(q)'
    BY <2>4, <2>8 DEF ShareStore, Unshare
  <2>9. ASSUME NEW i \in Ids, Create(i) \/ Delete(i)
        PROVE  \A q \in Reqs : SaveFine(q)'
    BY <2>2, <2>9 DEF Create, Delete
  <2> QED BY <1>1, <2>1, <2>6, <2>7, <2>8, <2>9 DEF ServerNext
<1>2. ASSUME NEW p \in Pages, Leave(p) PROVE CleanStep
  <2>1. ASSUME NEW q \in Calm PROVE PageFine(q)
    BY <1>2, <1>t, <1>a, <1>p DEF Leave, PageFine, StopsWarning, IsOpen, Closed
  <2>2. ASSUME NEW r \in Reqs PROVE SaveFine(r)'
    <3>1. CASE req[r].page = p
      <4>1. req'[r] = [req[r] EXCEPT !.page = None]
        BY <1>2, <3>1 DEF Leave
      <4>2. req'[r].page = None
        BY <1>t, <4>1 DEF Request
      <4> QED BY <1>c, <1>p, <4>2
    <3>2. CASE req[r].page # p
      BY <1>2, <1>t, <1>b, <1>i, <3>2 DEF Leave
    <3> QED BY <3>1, <3>2
  <2> QED BY <2>1, <2>2
<1>3. ASSUME NEW p \in Pages, NEW i \in Ids, Open(p, i) PROVE CleanStep
  <2>1. PICK doc \in Docs : doc = topos[i].doc /\ Normal[doc] = doc /\ Stored(i, doc)
    BY <1>3, NewestStored DEF Open, Exists, TypeOK, ServerTypeOK, Row, NormalStored
  <2>2. Stored(i, doc)'
    BY <1>k, <2>1
  <2>3. page'[p].id = i /\ page'[p].doc = doc
    BY <1>3, <1>t, <2>1 DEF Open
  <2>4. PageFine(p)
    BY <2>1, <2>2, <2>3 DEF PageFine, Stored
  <2>5. \A q \in Pages \ {p} : page'[q] = page[q]
    BY <1>3, <1>t DEF Open
  <2>6. \A r \in Reqs : req[r].page # p
    BY <1>3, <1>i, Awaited, TopologyNone DEF Open
  <2>7. \A r \in Reqs : SaveFine(r)'
    BY <1>3, <1>b, <1>i, <2>5, <2>6 DEF Open
  <2> QED BY <1>a, <1>p, <2>4, <2>5, <2>7
<1>4. ASSUME NEW p \in Pages, NEW doc \in Docs, Edit(p, doc) PROVE CleanStep
  <2>1. page[p] \in OpenPage
    BY <1>4, OpenPages DEF Edit
  <2>2. page'[p].dirty = TRUE
    BY <1>4, <1>t, <2>1 DEF Edit, OpenPage
  <2>3. \A q \in Pages \ {p} : page'[q] = page[q]
    BY <1>4, <1>t DEF Edit
  <2>4. ASSUME NEW r \in Reqs PROVE SaveFine(r)'
    <3>1. CASE req[r].page = p
      BY <1>4, <1>c, <1>p, <3>1 DEF Edit, MayEdit, Sent
    <3>2. CASE req[r].page # p
      BY <1>4, <1>b, <1>i, <2>3, <3>2 DEF Edit
    <3> QED BY <3>1, <3>2
  <2> QED BY <1>a, <1>p, <2>2, <2>3, <2>4 DEF PageFine, StopsWarning
\* The flag is cleared, the copy stays.
<1>d. ASSUME NEW p \in Pages, Confirm(p) PROVE CleanStep
  <2>1. page[p] \in OpenPage
    BY <1>d, OpenPages DEF Confirm
  <2>2. page'[p].doc = page[p].doc
    BY <1>d, <1>t, <2>1 DEF Confirm, OpenPage
  <2>3. \A q \in Pages \ {p} : page'[q] = page[q]
    BY <1>d, <1>t DEF Confirm
  <2>4. \A r \in Reqs : SaveFine(r)'
    BY <1>d, <1>b, <1>i, <2>2, <2>3 DEF Confirm
  <2>5. PageFine(p)
    BY <1>d DEF PageFine
  <2> QED BY <1>a, <1>p, <2>3, <2>4, <2>5
<1>5. ASSUME NEW r \in Reqs, Receive(r) PROVE CleanStep
  <2>1. PICK p \in Pages : /\ p = req[r].page /\ page[p] \in OpenPage
                           /\ IsOpen(p) /\ page[p].id = req[r].id
    BY <1>5, Awaited, OpenPages DEF Receive
  <2>2. \A q \in Pages \ {p} : page'[q] = page[q]
    BY <1>5, <1>t, <2>1 DEF Receive, OnAnswer, Answers
  <2>3. /\ page'[p].id = page[p].id /\ page'[p].doc = page[p].doc
        /\ page'[p].dirty = page[p].dirty \/ At(r, "saved")
    <3>1. CASE req[r].pc = "saved"
      BY <1>5, <1>t, <2>1, <3>1 DEF Receive, OnAnswer, OpenPage, At
    <3>2. CASE req[r].pc = "shared"
      BY <1>5, <1>t, <2>1, <3>2 DEF Receive, OnAnswer, OpenPage
    <3>3. CASE req[r].pc = "unshared"
      BY <1>5, <1>t, <2>1, <3>3 DEF Receive, OnAnswer, OpenPage
    <3>4. CASE req[r].pc = "refused"
      BY <1>5, <3>4 DEF Receive, OnAnswer
    <3> QED BY <1>5, <3>1, <3>2, <3>3, <3>4 DEF Receive, Answers
  <2>4. ASSUME p \in Calm PROVE PageFine(p)
    <3>1. CASE At(r, "saved")
      <4>1. Stored(page[p].id, Normal[page[p].doc])
        BY <1>5, <2>1, <2>4, <3>1 DEF SaveFine, Receive
      <4> QED BY <1>i, <1>k, <2>1, <2>3, <4>1 DEF PageFine, Stored
    <3>2. CASE ~At(r, "saved")
      BY <1>a, <2>3, <2>4, <3>2
    <3> QED BY <3>1, <3>2
  <2>5. ASSUME NEW q \in Reqs PROVE SaveFine(q)'
    <3>1. CASE q = r
      BY <1>5, <1>t, <1>c, <3>1 DEF Receive, Idle
    <3>2. CASE q # r
      BY <1>5, <1>t, <1>b, <1>i, <2>2, <2>3, <3>2 DEF Receive
    <3> QED BY <3>1, <3>2
  <2> QED BY <1>a, <1>p, <2>2, <2>4, <2>5
<1>6. ASSUME UNCHANGED page, NEW r \in Reqs, NEW row, req' = [req EXCEPT ![r] = row],
             row.page \notin Calm \/ row.pc \notin {"save", "saved"}
                             \/ (row.pc = "save" /\ row.doc = page[row.page].doc)
      PROVE  CleanStep
  <2>1. SaveFine(r)'
    BY <1>6, <1>t DEF SaveFine, At
  <2> QED BY <1>6, <1>t, <1>a, <1>b, <2>1
<1>7. ASSUME NEW r \in Reqs, Disconnect(r) PROVE CleanStep
  <2>1. [req[r] EXCEPT !.page = None].page = None
    BY <1>t DEF Request
  <2>2. req' = [req EXCEPT ![r] = [req[r] EXCEPT !.page = None]]
    BY <1>7 DEF Disconnect
  <2> QED BY <1>6, <1>7, <1>p, <2>1, <2>2 DEF Disconnect
<1>8. ASSUME NEW r \in Reqs, Lose(r) PROVE CleanStep
  BY <1>6, <1>8 DEF Lose, Idle
<1>9. ASSUME NEW r \in Reqs, NEW p \in Pages, NEW pc, NEW doc, NEW tok,
             Ask(r, p, pc, doc, tok), UNCHANGED page, pc # "saved", pc = "save" => doc = page[p].doc
      PROVE  CleanStep
  <2> DEFINE row == [pc |-> pc, id |-> page[p].id, doc |-> doc,
                     token |-> tok, page |-> p]
  <2>1. /\ row.pc \notin {"save", "saved"} \/ (row.pc = "save" /\ row.doc = page[row.page].doc)
        /\ req' = [req EXCEPT ![r] = row]
    BY <1>9 DEF Ask
  <2> HIDE DEF row
  <2> QED BY <1>6, <1>9, <2>1
<1>10. CASE UNCHANGED vars
  BY <1>10, <1>a, <1>b DEF vars
<1>11. ASSUME NEW r \in Reqs, TurnAway(r) PROVE CleanStep
  <2>1. PICK pc \in {"saved", "refused", "unshared"} :
          Answer(r, pc) /\ req[r].page \in Lapsing /\ UNCHANGED page
    BY <1>11, TurnedAway DEF storeVars
  <2> DEFINE row == [req[r] EXCEPT !.pc = pc, !.doc = None]
  <2>2. row.page \notin Calm
    BY <1>p, <1>t, <2>1 DEF Request
  <2>3. req' = [req EXCEPT ![r] = row]
    BY <2>1 DEF Answer, Reply
  <2> HIDE DEF row
  <2> QED BY <1>6, <2>1, <2>2, <2>3
<1> QED BY <1>1, <1>2, <1>3, <1>4, <1>d, <1>5, <1>7, <1>8, <1>9, <1>10, <1>11
        DEF Next, PageNext, ClickSave, ClickShare, ClickUnshare

LEMMA InitClean == Init => CleanInv
<1> SUFFICES ASSUME Init PROVE CleanInv
  OBVIOUS
<1>1. \A r \in Reqs : req[r].page \notin Calm
  BY TopologyNone DEF Init, ServerInit, Idle, Calm, Steady
<1> QED BY <1>1 DEF CleanInv, SaveFine

\* A page that keeps its session and is not edited while it waits for a save
\* stops warning only when the server has stored what it shows, or when its
\* user was asked, whatever else happens to the pages, of any kind, the
\* requests and the diagrams.
THEOREM CleanCorrect == Spec => CleanMeansStored
<1>1. TypeOK /\ LogMatches /\ NormalStored /\ CleanInv /\ [Next]_vars => CleanInv'
  BY StepClean DEF CleanStep
<1>2. TypeOK /\ LogMatches /\ NormalStored /\ CleanInv /\ [Next]_vars
        => [\A p \in Calm : StopsWarning(p) => ShowsStored(p)' \/ Confirm(p)]_vars
  BY StepClean DEF CleanStep, PageFine, Stored, ShowsStored
<1> QED
  BY <1>1, <1>2, InitTypes, StepTypes, InitLog, StepLog, InitClean, PTL
     DEF Spec, CleanMeansStored

-----------------------------------------------------------------------------
(* Refinement: a step leaves diagrams and histories alone, or is one of the *)
(* three steps of RecordLog.                                                *)

\* What RecordLog sees of one diagram that changes.
LEMMA OneDiagram ==
  ASSUME NEW i \in Ids, NEW row, TypeOK, topos' = [topos EXCEPT ![i] = row]
  PROVE  /\ row = NoTopo => DocsKept' = [DocsKept EXCEPT ![i] = None]
         /\ \A doc : row # NoTopo /\ row.doc = doc =>
                      DocsKept' = [DocsKept EXCEPT ![i] = doc]
BY DEF TypeOK, ServerTypeOK, DocsKept, Exists

LEMMA RecordMoves ==
  ASSUME TypeOK, [Next]_vars
  PROVE  [Records!Next]_(Records!recordVars)
<1>t. /\ topos \in [Ids -> Row \cup {NoTopo}]
      /\ \A i \in Ids : Exists(i) => topos[i].doc \in Docs /\ DocsKept[i] = topos[i].doc
      /\ \A i \in Ids : ~Exists(i) => DocsKept[i] = None
      /\ None \notin Docs
  BY TopologyNone DEF TypeOK, ServerTypeOK, Exists, DocsKept, Row
<1>1. ASSUME UNCHANGED <<DocsKept, revs>>
      PROVE  [Records!Next]_(Records!recordVars)
  BY <1>1 DEF Records!recordVars
<1>2. ASSUME NEW i \in Ids, Create(i) PROVE Records!Put(i, Blank)
  <2>1. ~Exists(i)
    BY <1>2 DEF Create, IsNextRowid, Ids
  <2> DEFINE row == [doc |-> Blank, token |-> None]
  <2>2. /\ row # NoTopo /\ row.doc = Blank
        /\ topos' = [topos EXCEPT ![i] = row]
    BY <1>2, BlankAssumption, NoTopoAssumption DEF Row, Create
  <2> HIDE DEF row
  <2>3. DocsKept' = [DocsKept EXCEPT ![i] = Blank]
    BY <2>2, OneDiagram
  <2> QED BY <1>2, <1>t, <2>1, <2>3
          DEF Create, AddRevision, Records!Put, Records!Becomes, Records!Noted
<1>3. ASSUME NEW i \in Ids, Delete(i) PROVE Records!Remove(i)
  <2>1. DocsKept' = [DocsKept EXCEPT ![i] = None]
    BY <1>3, OneDiagram DEF Delete
  <2>2. Exists(i) /\ DocsKept[i] = topos[i].doc /\ DocsKept[i] # None
    BY <1>3, <1>t DEF Delete
  <2> QED BY <1>3, <2>1, <2>2
          DEF Delete, AddRevision, Records!Remove, Records!Becomes, Records!Noted
<1>4. ASSUME NEW i \in Ids, NEW doc \in Docs, Exists(i), WriteTopo(i, doc)
      PROVE  Records!Change(i, doc) \/ UNCHANGED <<DocsKept, revs>>
  <2>1. CASE topos[i].doc = doc
    BY <1>4, <2>1 DEF WriteTopo, DocsKept, Exists
  <2>2. CASE topos[i].doc # doc
    <3> DEFINE row == [topos[i] EXCEPT !.doc = doc]
    <3>1. row.doc = doc /\ row # NoTopo
      BY <1>4, <1>t, NoTopoAssumption DEF Row, Exists
    <3>2. topos' = [topos EXCEPT ![i] = row]
      BY <1>4, <2>2 DEF WriteTopo
    <3> HIDE DEF row
    <3>3. DocsKept' = [DocsKept EXCEPT ![i] = doc]
      BY <3>1, <3>2, OneDiagram
    <3> QED BY <1>4, <1>t, <2>2, <3>3
            DEF WriteTopo, AddRevision, Records!Change, Records!Becomes, Records!Noted
  <2> QED BY <2>1, <2>2
<1>5. ASSUME NEW r \in Reqs, Save(r)
      PROVE  [Records!Next]_(Records!recordVars)
  <2>1. req[r].id \in Ids /\ req[r].doc \in Docs
    BY <1>5 DEF Save, At, TypeOK, ServerTypeOK, Whole
  <2>2. CASE Valid(req[r].doc) /\ Exists(req[r].id)
    <3>1. Normal[req[r].doc] \in Docs
      BY <2>1, <2>2, NormalAssumption DEF Valid
    <3> QED BY <1>1, <1>4, <1>5, <2>1, <2>2, <3>1 DEF Save, Records!Next
  <2>3. CASE ~(Valid(req[r].doc) /\ Exists(req[r].id))
    BY <1>1, <1>5, <2>3 DEF Save, DocsKept, Exists
  <2> QED BY <2>2, <2>3
\* A new token is no part of what RecordLog sees.
<1>6. ASSUME NEW i \in Ids, Exists(i), NEW tok \in Tokens \cup {None},
             topos' = [topos EXCEPT ![i].token = tok]
      PROVE  UNCHANGED DocsKept
  <2> DEFINE row == [topos[i] EXCEPT !.token = tok]
  <2>1. row.doc = topos[i].doc /\ row # NoTopo
    BY <1>6, <1>t, NoTopoAssumption DEF Row, Exists
  <2>2. topos' = [topos EXCEPT ![i] = row]
    BY <1>6
  <2> HIDE DEF row
  <2>3. row.doc = DocsKept[i]
    BY <1>6, <1>t, <2>1
  <2>4. DocsKept' = [DocsKept EXCEPT ![i] = DocsKept[i]]
    BY <2>1, <2>2, <2>3, OneDiagram
  <2> QED BY <2>4 DEF DocsKept
<1>7. ASSUME NEW r \in Reqs, ShareStore(r) \/ Unshare(r)
      PROVE  UNCHANGED <<DocsKept, revs>>
  <2>1. req[r].id \in Ids
    BY <1>7 DEF ShareStore, Unshare, At, TypeOK, ServerTypeOK, Whole
  <2>2. UNCHANGED topos => UNCHANGED DocsKept
    BY DEF DocsKept, Exists
  <2> QED BY <1>6, <1>7, <2>1, <2>2 DEF ShareStore, StoreToken, Unshare
<1>8. ASSUME NEW r \in Reqs, ShareLoad(r) PROVE UNCHANGED <<DocsKept, revs>>
  BY <1>8 DEF ShareLoad, storeVars, DocsKept, Exists
<1>9. CASE PageNext \/ UNCHANGED vars
  <2>1. UNCHANGED <<topos, revs>>
    BY <1>9 DEF PageNext, vars, storeVars, Confirm, Leave, Open, Edit, Receive, TurnAway,
                Disconnect, Lose, ClickSave, ClickShare, ClickUnshare
  <2> QED BY <1>1, <2>1 DEF DocsKept, Exists
<1> QED BY <1>1, <1>2, <1>3, <1>5, <1>7, <1>8, <1>9, BlankAssumption
        DEF Next, ServerNext, Records!Next

\* Whatever pages, requests and deletions do to each other, the diagrams and
\* their histories implement RecordLog.
THEOREM Refinement == Spec => RefinesRecords
<1>1. Init => Records!Init
  BY DEF Init, ServerInit, Records!Init, DocsKept, Exists
<1>2. TypeOK /\ [Next]_vars => [Records!Next]_(Records!recordVars)
  BY RecordMoves
<1> QED BY <1>1, <1>2, InitTypes, StepTypes, PTL DEF Spec, RefinesRecords, Records!Spec
=============================================================================
