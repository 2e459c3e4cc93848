--------------------------- MODULE TopologyEditor ---------------------------
(***************************************************************************)
(* The diagram editor in the browser (static/topology.js) and the server   *)
(* of Topologies.  A page is loaded with the diagram and its share token,  *)
(* edits its own copy, and sends asynchronous requests whose answers are   *)
(* handled as they come back; it never loads the diagram again.  An editor *)
(* is always a page of its own (links to it are not boosted), so what is   *)
(* asked by a page that was left changes the flag of no other.             *)
(***************************************************************************)
EXTENDS Topologies

CONSTANTS
  Hasty,    \* pages that are edited while they wait for a save
  Lapsing   \* pages whose session may end while they are open

ASSUME UserAssumption == Hasty \subseteq Pages /\ Lapsing \subseteq Pages

VARIABLES
  page   \* page -> the diagram it has open, its copy, and its flags

vars == <<storeVars, req, page>>

Closed == [id |-> NoId, doc |-> None, dirty |-> FALSE, share |-> None]
OpenPage == [id : Ids, doc : Docs, dirty : BOOLEAN, share : Tokens \cup {None}]

IsOpen(p) == page[p].id # NoId
Sent(p) == {r \in Reqs : req[r].page = p}

MayEdit(p) ==
  p \in Hasty \/ \A r \in Sent(p) : req[r].pc \notin {"save", "saved", "refused"}

\* Of a request to stop sharing, the link the page shows is kept as history.
Ask(r, p, pc, doc, token) ==
  req' = [req EXCEPT ![r] = [pc |-> pc, id |-> page[p].id, doc |-> doc,
                             token |-> token, page |-> p]]

-----------------------------------------------------------------------------
\* topoEdit: the page is rendered with the row.
Open(p, i) ==
  /\ ~IsOpen(p)
  /\ Exists(i)
  /\ page' = [page EXCEPT ![p] = [id |-> i, doc |-> topos[i].doc,
                                  dirty |-> FALSE, share |-> topos[i].token]]
  /\ UNCHANGED <<storeVars, req>>

\* Every handler that changes the copy calls setDirty(true).
Edit(p, doc) ==
  /\ IsOpen(p) /\ MayEdit(p)
  /\ doc # page[p].doc
  /\ page' = [page EXCEPT ![p].doc = doc, ![p].dirty = TRUE]
  /\ UNCHANGED <<storeVars, req>>

\* save(), and the buttons for sharing; Stop sharing shows with a link only.
ClickSave(r, p) ==
  /\ At(r, "idle")
  /\ IsOpen(p)
  /\ Ask(r, p, "save", page[p].doc, None)
  /\ UNCHANGED <<storeVars, page>>

ClickShare(r, p) ==
  /\ At(r, "idle")
  /\ IsOpen(p)
  /\ Ask(r, p, "share", None, None)
  /\ UNCHANGED <<storeVars, page>>

ClickUnshare(r, p) ==
  /\ At(r, "idle")
  /\ IsOpen(p) /\ page[p].share # None
  /\ Ask(r, p, "unshare", None, page[p].share)
  /\ UNCHANGED <<storeVars, page>>

\* Mutant: the status of the answer is not looked at.
OnAnswer_AnyStatus(r) ==
  LET p == req[r].page IN
  CASE req[r].pc \in {"saved", "refused"} ->
         page' = [page EXCEPT ![p].dirty = FALSE]
    [] req[r].pc = "shared"   -> page' = [page EXCEPT ![p].share = req[r].token]
    [] req[r].pc = "unshared" -> page' = [page EXCEPT ![p].share = None]

\* What the page does with an answer; a refusal only changes its status line.
OnAnswer(r) ==
  LET p == req[r].page IN
  CASE req[r].pc = "saved"    -> page' = [page EXCEPT ![p].dirty = FALSE]
    [] req[r].pc = "shared"   -> page' = [page EXCEPT ![p].share = req[r].token]
    [] req[r].pc = "unshared" -> page' = [page EXCEPT ![p].share = None]
    [] req[r].pc = "refused"  -> UNCHANGED page

Receive(r) ==
  /\ req[r].pc \in Answers /\ req[r].page # None
  /\ OnAnswer(r)
  /\ req' = [req EXCEPT ![r] = Idle]
  /\ UNCHANGED storeVars

\* sessionAuth sends a request without a session to the login page, and fetch
\* follows: what the page gets is that page, with status 200.
TurnAway(r) ==
  /\ req[r].page \in Lapsing
  /\ req[r].pc \in {"save", "share", "unshare"}
  /\ Answer(r, CASE req[r].pc = "save"    -> "saved"
                 [] req[r].pc = "share"   -> "refused"   \* it is not JSON
                 [] req[r].pc = "unshare" -> "unshared")
  /\ UNCHANGED <<storeVars, page>>

\* The connection breaks: the page hears of a failure, and what it asked may
\* still be done by the server.
Disconnect(r) ==
  /\ req[r].pc \in Asks /\ req[r].page # None
  /\ req' = [req EXCEPT ![r].page = None]
  /\ UNCHANGED <<storeVars, page>>

\* A request that never arrives, that the server fails on, or whose answer
\* nobody waits for or that is lost.
Lose(r) ==
  /\ ~At(r, "idle")
  /\ req' = [req EXCEPT ![r] = Idle]
  /\ UNCHANGED <<storeVars, page>>

\* Mutant: a page that is opened again hears the answers to the one before.
Leave_Awaited(p) ==
  /\ IsOpen(p)
  /\ page' = [page EXCEPT ![p] = Closed]
  /\ UNCHANGED <<storeVars, req>>

\* In-app navigation asks the user, and clears the flag before the request it
\* makes: the page stays until the answer is swapped in, and for good if the
\* request fails.
Confirm(p) ==
  /\ IsOpen(p) /\ page[p].dirty
  /\ page' = [page EXCEPT ![p].dirty = FALSE]
  /\ UNCHANGED <<storeVars, req>>

\* The page is gone: the answer to in-app navigation replaces it, or the
\* browser unloads it, having asked the user if it is dirty.
Leave(p) ==
  /\ IsOpen(p)
  /\ page' = [page EXCEPT ![p] = Closed]
  /\ req' = [r \in Reqs |-> IF req[r].page = p
                            THEN [req[r] EXCEPT !.page = None] ELSE req[r]]
  /\ UNCHANGED storeVars

Init == ServerInit /\ page = [p \in Pages |-> Closed]

PageNext ==
  \/ \E p \in Pages : \/ Confirm(p) \/ Leave(p)
                      \/ \E i \in Ids : Open(p, i)
                      \/ \E doc \in Docs : Edit(p, doc)
  \/ \E r \in Reqs : \/ Receive(r) \/ TurnAway(r) \/ Disconnect(r) \/ Lose(r)
                     \/ \E p \in Pages : \/ ClickSave(r, p)
                                         \/ ClickShare(r, p)
                                         \/ ClickUnshare(r, p)

Next == (ServerNext /\ UNCHANGED page) \/ PageNext

Spec == Init /\ [][Next]_vars

-----------------------------------------------------------------------------
(* Rows, requests and pages have their shape: a page that is open has a     *)
(* diagram, a page that is gone is waited for by no request.                *)
TypeOK ==
  /\ ServerTypeOK
  /\ page \in [Pages -> OpenPage \cup {Closed}]
  /\ \A r \in Reqs : req[r].page # None => page[req[r].page].id = req[r].id

\* The history of a diagram ends with the diagram as it is stored, or with
\* its deletion, however the saves of several pages interleave
\* (topoCreate, writeTopo, removeTopo).
LogMatches ==
  \A i \in Ids :
    IF Exists(i)
    THEN revs[i] # <<>> /\ Newest(i).note # "deleted" /\ Newest(i).doc = topos[i].doc
    ELSE revs[i] # <<>> => Newest(i).note = "deleted"

\* Stop sharing, and deleting the diagram, revoke a link for good: no later
\* share, of this diagram or of one that was given its id, revives it.
RevokedForGood == \A i \in Ids : Shared(i) => topos[i].token \notin revoked

\* tok is the link of diagram i, or was revoked, or is none.
Given(i, tok) ==
  tok # None => tok \in revoked \/ (Exists(i) /\ topos[i].token = tok)

\* A link that a page shows, or that is on its way to it, is the one link of
\* its diagram, until that link is revoked: sharing again, from any page,
\* never replaces it.
LinkWorks ==
  /\ \A p \in Pages : IsOpen(p) => Given(page[p].id, page[p].share)
  /\ \A r \in Reqs : At(r, "shared") => Given(req[r].id, req[r].token)

\* The page shows a diagram that the server has stored at some time, as
\* validate trimmed and sorted it.
ShowsStored(p) ==
  \E n \in DOMAIN revs[page[p].id] : revs[page[p].id][n].doc = Normal[page[p].doc]

Steady == Pages \ Lapsing
Calm == Steady \ Hasty

\* Page p, which warned or showed something else, is now left without a warning.
StopsWarning(p) ==
  /\ IsOpen(p)' /\ ~page'[p].dirty
  /\ ~IsOpen(p) \/ page[p].dirty \/ page'[p].doc # page[p].doc

\* A page that was unsaved, or showed something else, is left without a warning
\* (setDirty, the clearing of the flag) only when the server has stored what it
\* shows, or when its user was asked and let it go (htmx:beforeRequest): so it
\* is for a page that keeps its session and waits for its saves, whatever the
\* other pages do and however answers are lost or late.
CleanMeansStored ==
  [][\A p \in Calm : StopsWarning(p) => ShowsStored(p)' \/ Confirm(p)]_vars

\* The warning is up while there is something to lose, and goes only with a
\* save or with the user's leave (topology.js 1130-1138).
NoSilentLoss ==
  [][\A p \in Pages : StopsWarning(p) => ShowsStored(p)' \/ Confirm(p)]_vars

\* One warning is all: navigation that was confirmed and then failed leaves a
\* page open that is unsaved and warns no more, so that this does not hold.
WarnsUntilSaved ==
  \A p \in Calm : IsOpen(p) /\ ~page[p].dirty => ShowsStored(p)

\* When a page that keeps its session is told that sharing has stopped, the
\* link it showed is dead (topoUnshare), whichever pages shared and stopped
\* sharing meanwhile.
StoppedIsRevoked ==
  \A r \in Reqs : At(r, "unshared") /\ req[r].page \in Steady =>
    req[r].token \in revoked

\* The diagrams as they are stored, for RecordLog.
DocsKept == [i \in Ids |-> IF Exists(i) THEN topos[i].doc ELSE None]

Records == INSTANCE RecordLog WITH Keys <- Ids, Values <- Docs, Absent <- None,
                                   current <- DocsKept, log <- revs

\* Nothing the pages and handlers do together touches a stored diagram without
\* exactly one revision that says what became of it (topoCreate, writeTopo,
\* removeTopo): the table and its history implement RecordLog.
RefinesRecords == Records!Spec
=============================================================================
