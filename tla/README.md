# LabDoc in TLA+

LabDoc is a Go web application over one SQLite file: it documents a homelab
(devices, VLANs, services, IP assignments, firewall rules, cables), draws
network diagrams in the browser, and has its own accounts. This directory holds
TLA+ modules of the parts of it that keep state, the TLC runs that check them
on small instances, and TLAPS proofs for all instances. Paths below are
relative to `src/`; `web/` stands for `internal/web/`, `db/` for `internal/db/`.

    tlc -config accounts.cfg MCAccounts      # a run (see "Runs")
    tlapm AccountsProofs.tla                 # the proofs of a module

## The system

| Component | State | Operations | Interacts through |
|---|---|---|---|
| Accounts and sessions (`web/auth.go`) | tables `users`, `sessions` | setup, login, logout, session check, change password, add and delete account | statements on the shared pool |
| E-mail verification, password reset (`web/email.go`, `mail.go`) | `users.email*`, table `email_tokens`, mail under way | save address, verify, forgot, reset | the same tables; SMTP; links people follow later |
| Login limiter (`web/auth.go` 207-258) | a map in memory | `allowed`, `fail`, `reset` | a mutex; called before and after a slow `bcrypt` |
| Inventory (`web/crud.go`, `entities.go`) | one table per entity, link tables, `revisions` | `write` (create, update), `remove`, `history` | transactions; the schema's foreign keys act on other tables |
| Connections and their form (`web/connections.go`, `crud.go`) | `connections`, its tagged VLANs, a form somebody has open | the generic ones, `validateConnection`, filling a form and showing it again | inventory rows; several queries per page |
| Topologies (`web/topology.go`) | table `topologies`, `revisions` | create, save, share, unshare, delete; public `/share/` | the editor page, transactions |
| Topology editor (`web/static/topology.js`) | a page's copy, link mode, dirty flag, share token, the inventory it last loaded | drawing, import, conversion of old diagrams; save, share, stop sharing, leave | asynchronous `fetch` to Topologies and `/inventory.json` |
| Drawing (`web/topology.go` 251-624, `topology.js`) | none | the same diagram drawn twice: by the page, and by the server for exports | the stored layout |
| CSRF protection (`web/auth.go` 320-351, `layout.html`) | a cookie; the token in each page | issue, send, compare | cookie jar, several tabs, htmx |
| Database (`db/db.go`) | the file, its `-wal` log, `PRAGMA user_version` | open, migrate, backup, and the restore `README.md` describes | other processes on the same file |
| Connection pool (`db/db.go` 28-30) | who has the one connection | every statement of every handler | everything |
| Pages, flags, version | none, or per request | | |

What makes them hard:

- **Concurrency.** `net/http` runs each request on a goroutine of its own. The
  pool has one connection (`SetMaxOpenConns(1)`), so a *statement or
  transaction* is atomic, but a handler that runs several statements outside a
  transaction interleaves with the others between any two. Most of `auth.go`
  and `email.go` is of that kind, and every page that is made of several
  queries; writes in `crud.go` and `topology.go` are transactions.
- **One connection.** Code that asks the pool for it while it has it waits for
  itself, and everybody with it.
- **Several processes.** A server, another release of it, and `-backup` may have
  the file open at once, and each migrates it when it starts.
- **Partial failure.** Any statement may fail and the process may die between
  two; there is no undo but a transaction's.
- **Ids are used again.** `INTEGER PRIMARY KEY` without `AUTOINCREMENT` gives
  the largest id out again once its row is deleted, and histories, open pages,
  open forms and requests under way refer to rows by id.
- **Lost and late messages.** Mail may never arrive and links may be followed
  at any time; answers to a browser may be lost or overtake each other, and the
  session may end before they are asked for.
- **The schema acts too.** `ON DELETE CASCADE` and `SET NULL` change tables
  the handler does not name.

What makes each component correct, as far as it is stated here: no row refers
to a missing row; an address shown as verified was proven; a reset link goes
to a proven mailbox only (one gap is told of below), works until it is used, and
once; there is always an
account; the limiter bounds failures and lets people back in; a history
accounts for the rows there are; a form that was not touched changes nothing,
and a refused one keeps what was typed; a link that is shown works and one that
is revoked stays dead; no edit is lost without a warning; what is drawn can be
saved, is exported as drawn, whole; no write is refused for its token without a
cause, and the next visit cures it; the file is always at one whole version,
and served only when it is new enough; a reported backup is sound; nobody waits
for the connection for ever. `PROJECT.json` lists the hazards, each with its
line and its properties.

## The modules

| Module | Models | Variables |
|---|---|---|
| `AccountStore` | the tables of accounts, one operator per SQL statement | `users`, `sessions`, `links`, `issued`, `lapsed`, `mailedTo`; history: `proven`, `inherited`, `spent` |
| `AuthHandlers` | the handlers of `auth.go` and the session check | adds `req` |
| `EmailHandlers` | the handlers of `email.go` | |
| `Accounts` | both together: `Init`, `Next`, the properties | |
| `LoginLimiter` | the limiter around a verification of any length | `attempts`, `trying` |
| `Inventory` | every entity with its revisions, generically | `rows`, `revs` |
| `ConnectionForm` | one form from the queries that fill it to the write | `conn`, `vlans`, `form` |
| `Topologies` | diagrams on the server, and the requests about them | `topos`, `revs`, `req`; history: `revoked` |
| `TopologyEditor` | the editor pages, composed with `Topologies` | adds `page` |
| `RecordLog` | abstract: a table with a history | `current`, `log` |
| `Diagrams` | pure operators: `validate`, and what the server draws | |
| `DiagramEditor` | the editor's copy of a diagram and its tools | `copy`, `linkFrom`, `inventory`; bound: `edits` |
| `DiagramImage` | the boxes, key and view of an exported picture | `nodes`, `vlans`, `lines` |
| `Migrations` | processes that open, migrate, back up and restore one file | `db`, `logged`, `lock`, `draft`, `pc`, `next`, `dest`, `files`, `copies`; history: `written`, `restored`; bound: `faults` |
| `SchemaVersions` | abstract: a file at one whole version | `version`, `holds` |
| `ConnPool` | every endpoint as what it asks of the one connection | `conn`, `todo`, `page` |
| `CsrfTokens` | the tokens of one browser's cookie, tabs and requests | `cookie`, `tab`, `req`; history: `disturbed`; bound: `trouble` |
| `AccountsProofs`, `InventoryProofs`, `ConnectionFormProofs`, `TopologiesProofs` | theorems about `Accounts`, `Inventory`, `ConnectionForm`, `TopologyEditor` | |
| `GuardsProofs` | theorems about `LoginLimiter` and `CsrfTokens` | |
| `DatabaseProofs` | theorems about `Migrations` and `ConnPool` | |
| `DiagramProofs` | theorems about `Diagrams`, `DiagramEditor` and `DiagramImage` | |
| `FoldFacts` | what a fold over a sequence returns and keeps, for any step: the facts `DiagramProofs` instantiates | |
| `MCAccounts`, `MCInventory`, `MCConnectionForm`, `MCTopologyEditor`, `MCDiagramEditor`, `MCDiagramImage`, `MCMigrations` | symmetry and values for TLC | |

An operator named `Op_Change` is `Op` with a plausible bug. No action uses it;
putting it in the place of `Op` breaks the property `PROJECT.json` names.

### Accounts

A handler is a chain of statements, and each statement is an action:
`req[r].pc` says which is next, the other fields of `req[r]` are the handler's
local variables, read by earlier statements and possibly stale. `deleteUser` is
`DelCount` then `DelRow`; `resetPasswordPost` is `ResetLookup`, `ResetStore`,
`ResetConsume`, `ResetSignout`; and so on. `SessionInsert` belongs to setup and
to login, which both end in `startSession`. `Authenticate` is the middleware:
the user it reads becomes the request's "me". With `Faulty`, `StatementFails`
ends a request at any of its statements (what was done stays done), `Restart`
ends all of them, and a count that fails in `setupPost` is taken for zero, as
in the code. `Lapse` lets any token expire at any moment, up to `MaxLapses` of
them.

Choices: outgoing mail is configured (without it these endpoints do nothing);
the limiter is not composed with the handlers (it only refuses some of them);
credentials are values that pass validation. `sessions[c].name`, `.pw`,
`proven`, `inherited` and `spent` are history: no guard reads them. `proven` has
the account and address of every link that was followed, and is forgotten with
the account (`Forget`), as its rowid may be another's next. `inherited` names
the one way around that: when a rowid is given out again (`NewUser`), it takes
what requests under way have read of the account before, and go on to use by
that id (`ClaimsOf`). `VerifiedMeansProven` and `ResetOnlyToProven` except
these pairs, and nothing else; without the exception TLC refutes both (see the
table below).

### Login limiter

Time is kept as the two ages the code computes from `time.Now()`: ticks since
`windowStart`, and ticks until `now.After(lockedUntil)` holds (both comparisons
are strict, so a window lasts `Window + 1` ticks and a lockout `Lockout + 1`).
`Begin` is `allowed`; `Fail` and `Succeed` are `fail` and `reset`, any time
later. `Restart` clears the map.

### Inventory

`crud.go` is one generic handler over the table in `entities.go`, and so is the
model: `ForeignKeys` transcribes the schema's references with their `ON DELETE`
action; the plain columns of a row are one opaque value. `Create`, `Update` and
`Remove` are each one transaction; `Lost` and `Dropped` are what SQLite's
referential actions do to the other rows during a delete. One
level of cascades is enough, as no table that a cascading reference points to
has one itself (lemma `Schema` of the proofs). `Checks` are the schema's `NOT NULL`
and `CHECK` constraints on references, which a form must satisfy and which
`RefsValid` requires of every row after every cascade. A form may be posted with
any content at any time. Names of devices and numbers of VLANs are unique;
ports have their two partial indexes.

### The connection form

`Inventory` takes a posted form as given; `ConnectionForm` is about where it
comes from. `OpenEdit` and `ReadLinks` are the two queries of `snapshot`,
`ChooseRef` and `ChooseMulti` those of `choices`; between any two of them
`SaveElsewhere`, `DeleteElsewhere`, `AddVlan` and `DeleteVlan` may happen, and
ids of VLANs come back. A posted value is a value with its spelling:
`validateConnection` and `choices` compare spellings, `parse` only values.
`Save` is the write, `Refuse` shows the form again through `choices`. The
fields `read`, `before`, `typed` and `missed` of `form` are history.

### Topologies and the editor's requests

`Topologies` has the handlers: `Create`, `Save` (with `WriteTopo`, which skips
an unchanged diagram), `ShareStore` then `ShareLoad`, `Unshare`, `Delete`.
A diagram is an opaque value; `Normal` is what `validate` makes of it (trimmed,
rounded, sorted) or `None` when it refuses. `TopologyEditor` adds the pages:
`Open` loads a row, `Edit` changes the page's copy and sets its dirty flag, the
`Click` actions send a request, `Receive` handles an answer. `Disconnect` is a
fetch that fails while the server still acts on it; `Lose` a request or answer
that vanishes or that the server fails on. Leaving is two steps, as in the code:
`Confirm` is the user's consent to in-app navigation, which clears the dirty flag
before the request for the next page is made, and the page stays if that
request fails; `Leave` is the page going, by the answer or unloaded by the
browser, and nobody waits for its requests any more. Two sets say what the users of a page do:
pages in `Hasty` are edited while they wait for a save, and the session of
those in `Lapsing` may end under them, when `TurnAway` answers for the login
page that `fetch` follows the redirect to. A save that was turned away looks
like one that succeeded. `CleanMeansStored` is about steps: a page stops warning
because the server has what it shows, or because its user was asked. That it
warns until then is more than the code gives (`WarnsUntilSaved` in the table
below).

An editor is always a page of its own: the links to it and the form that makes a
diagram are not boosted (`hx-boost="false"` in `topologies.html`), and the login
page leads to the front page. So what a page that was left still waits for
can only change the flag of a document with no editor in it. Back to an editor
through htmx's history, which puts an old page into the same document, is not
modelled.

`RecordLog` is what a table with a history promises: a record comes, changes
and goes one step at a time, each with its one revision, and nothing else
touches either. `RefinesRecords` maps `topos` and `revs` to it.

### Drawing

`Diagrams` has `validate` as two operators: `Faults`, the reasons to refuse that
lie in a diagram's structure, and `Normal`, what it stores; and `renderTopologySVG` as `Picture`: per line its
type and text, per box its tags and colours, and the key. `DiagramEditor` is the
page's side, one action per event handler. What the handlers share (`addLink`,
`addNode`, `addVlanDef`, `linkInventory`, `ensureInternet`, ...) is written as
functions of the copy so that `btn-inv-all` and `convertVlanNodes` are the chains
of them they are in the code. The selected item is not kept, as a handler may
work on any item that is drawn; the first node of link mode is (`linkFrom`).
`SaveAndReopen` is a later visit: the stored form is loaded and `seq` starts
over. `Canvas` is what `render` draws, translated apart from `Picture`.
`Faults` leaves out what `validate` refuses for a text or a place: a label that
was emptied by hand (`topology.go` 188), one that is too long, a position out of
range (194), which auto layout of a very large lab may compute (it knows no
lower or right edge). Such a diagram cannot be saved either, and `WellFormed`
does not speak of it.

Two named assumptions say what comes from outside. `InventoryAssumption` has
what the tables promise of any answer of `/inventory.json`: ids and numbers of
VLANs are unique, a device is in a VLAN once, and a connection has two
different ends (the keys and checks of migrations 0001 and 0004). It does not
say that the lists agree: `inventory` reads them by separate queries, and an id
in one may be missing in another. `StoredAssumption`: a diagram to open was
accepted by `validate`, is its `Normal`, and was drawn here, one link to a pair.

`DiagramImage` is about lengths only. They are tenths of a pixel, so that they
are whole numbers; a text is its number of letters, as the code sizes boxes by
it. How wide a browser's font really draws a letter is outside the code. The view
is as wide as the nodes, 360 pixels, or the key need; neither the texts of links
nor the name of the diagram count (`topology.go` 526). `NothingCutOff` says of
a link's text how long it may be at least: the mean width of its two boxes and
the margins of the picture, so that 29 letters always fit. A longer one may be
cut off (`LabelsFit` in the table below). The name is drawn in one line, 18
pixels high (541), in a size that the code computes nothing from, so no property
speaks of it: a long name over a small diagram runs out of the picture.

### Migrations, backup, restore

A step is one SQLite statement or one look at a file. `Exec` begins the
transaction of a migration and takes SQLite's write lock, `Stamp` writes
`user_version` in it, `Commit` makes `draft` what readers see. `ReadVersion` is
done once, before the loop, so another process may be ahead by the time
`Exec` comes: then the `CREATE TABLE` fails and the process exits. `Busy` is
`busy_timeout` running out. `Stat`, `Vacuum` and `Copied` are `Backup`: VACUUM
INTO copies the content it saw when it began, however long it takes.
`StatementFails`, `CopyFails` and `Kill` may come anywhere; `Restore` is the
operator who stops the service and puts a backup in its place. `logged` is the
`-wal` file: a process that is killed, or leaves through `log.Fatalf`, does not
fold it into the file, and the next one reads it over whatever it finds.
`ClearsLog` says whether the operator removes it.

`SchemaVersions` is the promise: the file holds the first `version` migrations
and moves one up, or to the version of a backup.

### The pool

A handler is the sequence of what it asks of the pool, built as it is in the
code: `write(e, ...)` is `Tx(snapshot("stmt", e) \o ...)`, where the first
argument of `snapshot` is the queryer it is given. `Routes` lists every endpoint,
each behind `sessionAuth`; `Release` may end a handler early and `Fail` at any
statement, when the deferred Rollback runs and the error page is made, which
reads through the pool again.

### CSRF tokens

`csrfProtect` gives a request without the cookie a new token and lets a write
pass that shows the cookie's. `tab` is what each tab shows: the token in its
`<meta>`, that in its forms, and whether a reload would send a form again. A
boosted answer replaces the body only, so the forms get a new token and the
`<meta>`, which the script sends, does not. Actions of the browser and of
htmx 2.0.4 (`Arrive`, `Shown`) are external to the code.

## Runs

| Run | Question | Bounds |
|---|---|---|
| `accounts` | Are the tables whole, keys unique, and do verified addresses and reset links mean what they say, under every endpoint, two interleaved requests, failures and restarts? | 2 users, 2 names, 2 addresses, 2 cookies, 2 links, 2 requests, 1 lapse |
| `accounts_serial` | What is promised when requests come one at a time? | 1 request, 2 passwords, 3 links, 5 lapses |
| `login_limiter` | Are failures bounded, and do lockouts end with a clean window? | 2 clients, 2 in flight, limit 5, window and lockout 3 ticks |
| `inventory` | Do references and histories hold through cascades and reused ids? | all 6 entities, 2 ids each, 6 revisions, 2 values |
| `connection_form` | Is an untouched form harmless, and a refused one kept? | 2 devices, 2 VLANs, values spelled as the form offers them |
| `topology_editor` | Do histories, links and dirty flags agree with the server? | 1 id, 3 revisions, 3 diagrams, 2 tokens, 2 pages (one hasty and lapsing), 2 requests |
| `topology_editor_lost_save` | violated: `NoSilentLoss` when the session ends | 1 page, 1 request |
| `diagram_editor` | Is what the editor builds accepted, exported as drawn, complete? | a new and an old diagram, 2 inventories, 3 nodes, 2 links, 2 VLANs, 1 tag, 7 ids, 2 edits by hand |
| `diagram_image` | Does everything that the view is computed from fit it? | 2 nodes at the corners of the plane, roles of 0 and 80 letters, 1 link with a text of 29 or 80, 2 VLANs |
| `migrations` | Is the file always at one whole version, are backups sound, do servers come up? | 2 servers and 2 backup jobs of 2 releases, 2 migrations, 1 path, 2 faults |
| `conn_pool` | Does nobody wait for himself, and is everyone answered? | 2 requests to any endpoint, forms with up to 2 tags |
| `csrf` | Is a write refused only for a cause, and does a new visit cure it? | 2 tabs, 1 expiry or lost answer, 17 tokens |

Why these bounds are enough to be worth something:

- *Two requests* are what every race found needs, and the handlers share only
  the tables; the proofs below lift the bound for the properties they cover.
  Two users give deletion a survivor and let an id be used again.
- *Two links or tokens* let a newer one replace an older one, or follow a
  revoked one. Tokens are never returned twice (`issued`, `revoked`): they
  carry 256 and 128 random bits. In `csrf` nothing ever holds 17 tokens at once,
  so that `NewToken` always finds one.
- *Six revisions* over all entities suffice to build a device, a service on
  it, an address of both and a VLAN, and still delete two, so that every
  cascade fires and an id is used again.
- *Three revisions of one diagram* are create, delete, create again: the
  id is used again while pages and requests for the first diagram are alive. A
  save that is refused is there one of a deleted diagram; that `validate` may
  refuse as well is covered by the proofs, which hold for any `Normal`.
- *Limits of the drawing* are lowered (3 nodes for 500, 1 tag for 6) so that they
  are met; seven ids are what an import of the whole lab into an empty diagram
  takes. The old diagram has a VLAN box and gaps in its ids; the inventory
  has two cables between the same devices, one recorded from the other end,
  and a VLAN number that diagrams do not take.
- *Two releases* make a server find a file newer than itself, and one migrated
  under it. Two faults are a kill and a restore, or a kill of both servers.
  With one tag at most, a device that is full in `ConvertTags` has any earlier
  tag; the theorem has the general case.
- *Fields of the image* that only add up are at their extremes.
- *No ports* in `inventory` (`Ports = {}`): the two port indexes are left to the
  theorem `RefsCorrect`.
- The counters of the limiter are not cut by any bound: the attempts in flight
  bound them.

Runs with bounded tokens, ids or revisions stop when these run out, hence
`CHECK_DEADLOCK FALSE` in the runs of accounts, inventory, image and
`TopologyEditor`; in the others nothing runs out and deadlock is checked.
Symmetry is used for values that are only compared for equality, and in no run
with a liveness property. `TypeOK` is a run's own invariant, or a conjunct of
the invariant it supports (`RefsValid`, `WellFormed`, `HolderNeverWaits`,
`NothingCutOff`, `WritesPass`, `RefusalKeepsInput`).

**Fairness.** Safety properties assume none. The four liveness properties assume
what the platform gives, and nothing of clients:

- `LockoutEnds`: weak fairness of `Tick`, as time passes whatever the program
  does.
- `ServersComeUp`: weak fairness of each running process, whose statements end
  (`busy_timeout` and the lock of a dead process see to that), and of starting
  a server that is down (`Restart=on-failure` in the service file, or an
  operator). A backup job is started by nobody in particular.
- `EveryRequestEnds`: weak fairness of a statement, release or failure, and
  strong fairness of getting the connection: `database/sql` picks a waiter at
  random when it is free, so none is passed over for ever. The mail server may
  never answer; a request that waits for it is the exception in the property.
- `Recovers`: the server answers, and answers arrive (weak); the one user in
  question visits the page anew and tries again, again and again (strong, as
  each becomes possible only between answers). Nothing is assumed of the other
  tabs, which may keep on sending.

## Where the code and its words part

The properties of the passing runs hold in the code as modelled. One thing the
code says of itself has a run that refutes it:

- `topology_editor_lost_save`: a page whose session has ended saves; the redirect
  is followed, the login page's 200 is taken for success (`topology.js` 1064),
  and the dirty flag is cleared. `topology.js` 1136 promises "You have unsaved
  changes. Leave without saving?".

The others can be seen by putting the property in the place of those of a run's
`.cfg`, with the change named. TLC refutes each.

| Words | Property | In | Change |
|---|---|---|---|
| `auth.go` 609 "At least one account must remain." Two accounts remove each other | `AccountsRemain` | `accounts` | |
| `setupPost` creates the first account: two requests both do | `SetupOnlyWhenEmpty` | `accounts` | |
| `email.go` 313 a reset signs out everywhere: a login that checked the old password is not yet in | `SessionsMatchPassword` | `accounts_serial` | `Reqs = {r1, r2}` |
| a login's session is its account's: the row is deleted and its id given out between lookup and insert | `SessionOfItsAccount` | `accounts` | `Names = {n1, n2, n3}` |
| a reset link is single-use: two requests look it up at once | `LinkUsedOnce` | `accounts` | |
| `README.md` 12, the History page of a record: it shows those of a deleted record with its id | `HistoryOfOneRecord` | `inventory` | |
| `0004_connections.sql` 17, `README.md` 11, a port is cabled once: it may be, from each end | `PortCabledOnce` | `inventory` | `Ports = {p1}` |
| `auth.go` 207, a lockout: an attempt allowed before it fails after its window, and the new entry has no lockout | `LockoutHolds` | `login_limiter` | |
| `email.go` 179 "only mark verified if it's still the one on file": it may be on file of another account, which was given the id since the link was looked up | `VerifiedByItsAccount` | `accounts` | `Cookies = {c1, c2, c3}` |
| `email.go` 239, only a verified address of the account is mailed its reset link: the account is deleted and its id given out before `issueEmailToken` makes a link by that id, which goes to the old mailbox | `ResetOfItsAccount` | `accounts` | |
| `topology.js` 1136 "Leave without saving?": the flag is cleared on consent, and if the navigation then fails, the page stays, unsaved, and asks no more | `WarnsUntilSaved` | `topology_editor` | |
| `topology.js` 1129 "leaving with unsaved work": an edit made while a save is under way is taken for saved | `NoSilentLoss` | `topology_editor` | `Lapsing = {}` |
| `README.md` 39 "Stop sharing revokes it immediately": the login page's 200 hides the link that still works | `StoppedIsRevoked`, for all pages | `topology_editor` | `Pages` for `Steady` in it |
| `README.md` 102, restore: the `-wal` file of the old database is read over the backup | `RestoredIsBackup` | `migrations` | `ClearsLog = FALSE` |
| `README.md` 27, link mode: the VLAN box of the first click is converted, and the link has one end | `LinksHaveEnds` | `diagram_editor` | `FinishesLinks = FALSE` |
| `topology.js` 783 several cables share a link with combined labels: not if recorded from opposite ends | `CablesShareLabel` | `diagram_editor` | |
| `topology.js` 1019 each VLAN box becomes a tag: not on a device that is full | `ConvertKeepsTags` | `diagram_editor` | |
| `topology.go` 503, the two drawings are kept in step: a label of spaces is drawn as such by one, and as the type by the other | `DrawingsAgree` | `diagram_editor` | `Texts <- TypedSpaces` |
| `topology.go` 599 "Link labels last so nodes never cover them": the view does not look at them, and cuts long ones off | `LabelsFit` | `diagram_image` | |
| `topology.go` 359 the key "only lists what the diagram actually uses": VLANs nobody is tagged with are listed | `LegendOnlyUsed` | `diagram_editor` | |
| `layout.html` 21, the script sends the page's token: after a boosted load the forms have a newer one than the `<meta>` it sends | `OwnTokenPasses` | `csrf` | |
| `auth.go` 347 "Reload the page and try again.": a reload sends the refused form again | `Recovers` | `csrf` | `SPECIFICATION ReloadSpec` |
| `crud.go` 148, a snapshot of a record: row and links are read apart | `FilledFromStored` | `connection_form` | |
| `0004_connections.sql` 2, one untagged VLAN on an access port, and rules on trunks: evaded by ids spelled otherwise | `SavedSound` | `connection_form` | `Spellings = {"plain", "other"}` |

Rows that a delete removes or changes through the schema's referential actions
get no revision. `HistoryExplains` states what is left of "every change is
versioned": a row is what its newest revision says but for references to
records deleted since.

## Proofs

All are of the form `Spec => []Inv` or `Spec => Abstract!Spec`, for every value
of the constants that satisfies the modules' named assumptions: any number of
accounts, names, tokens, requests, pages, ticks, processes and releases, with or
without faults. What a theorem assumes beyond that stands before its `PROVE`,
and below with its reason.

- `AccountsProofs`. `TypeCorrect` is inductive: no `UPDATE` by a stale id makes
  half a row, and no handler uses a local it has not read (`LocalsRead`).
  `NoOrphansCorrect` is inductive together with `TypeOK`: what an action does to
  the accounts there are (`LiveSteps`) is compared with the rows it leaves; so
  are `UniqueKeysCorrect` and `OneLinkCorrect`, as the statement or transaction
  that writes a key also checks it or clears the way for it.
  `VerifiedCorrect` and `ResetMailCorrect` follow from `MailInv`, which adds
  what is in flight: a link is only delivered to the address in its row
  (`Delivered`), and a handler between two statements carries an address that the
  account with its id has proven, or inherited when it was given that id
  (`InFlightProven`). Neither property is inductive alone, as the mark is set
  from the handler's locals. `OwnMailCorrect` has both without the exception,
  for requests that are served one at a time: then nothing is under way when an
  id is given out.
  `ResetBurnedCorrect` rests on `BurnInv`: a handler that is about to consume a
  reset link has changed that account's password with it, and one that is about to
  consume a verify link does not hold a reset link, although its row may be
  another's or gone since it was looked up.
  The remaining three also need requests to be served one at a time (`OneAtATime`:
  there is one request), and the table above shows what happens otherwise.
  `AccountsRemainCorrect` holds with failures and kills, as a handler that found
  two accounts is alone until it deletes one (`SpareAccount`).
  `LinkUsedOnceCorrect` and `SessionsMatchCorrect` also need
  that no statement fails (`~Faulty`), since a reset that dies between its
  statements leaves its link, or the old sessions, behind; `UsedInv` says which
  links are spent but there, `MatchInv` what a login has checked.
- `GuardsProofs`, the limiter. `LimiterInv` says that an entry at its limit stays locked at
  least as long as its window lasts (`LockOutlastsWindow`), so that within a
  window the only failures still to come are those in flight
  (`RoomForInFlight`). `FailuresAreBounded` and `LockoutThenFreshStart` follow.
  It needs `Window <= Lockout`, which the code's equal durations satisfy.
- `InventoryProofs`. What the argument takes from the schema is one lemma:
  a row that a cascade removes is referred to by no table, so one level is
  enough, and a reference that must be there cascades (`Schema`). Then a row
  that stays keeps every reference by which it would have gone (`CascadesKept`),
  so that dropping the others leaves its constraints, and `RefsCorrect` is
  inductive with the shape of the tables. `HistoryCorrect` and `LivesCorrect` are
  inductive together (`HistInv`): that a life only ends by a deletion is what
  makes the newest revision speak of the row that has the id now. Both are
  stated of histories as values (`Explained`, `Ordered`), with lemmas on what
  one more revision does to them (`Grows`).
- `ConnectionFormProofs`. `FormInv` says what a form has in each phase of being
  filled: `FilledFrom`, that by the time all queries are done the record is what
  the first one read, or was forgotten; `KeptOf`, how much of a refused form is
  there, and that `missed` has every VLAN that was gone at some time since.
  `QuietCorrect` holds for any spelling, as a filled form is spelled by `str`,
  which `parse` undoes (`RoundTrip`). `RefusalCorrect` assumes that values are
  posted as the program's forms spell them. That what is stored keeps the rules
  for access ports and trunks is no theorem: for plain spellings it is
  `validateConnection` said again, for others it is false (`SavedSound` above).
- `TopologiesProofs`: every property of the run `topology_editor`.
  `TypeCorrect` is inductive: a request that a page waits for is
  about the diagram the page has open, so no answer lands in another diagram's
  page. `RevokedCorrect` and `LinksCorrect` follow from `LinkInv`, which adds
  that no two diagrams share a token (`TokensApart`): else revoking one would
  stop the other's link. `StopCorrect` adds to it that a request to stop sharing
  carries the link its page shows (`StopInv`). `LogCorrect` rests on a row and
  its revision being written by one transaction. `CleanCorrect` is about pages
  that are neither `Hasty` nor `Lapsing`, and adds (`CleanInv`) that what is
  stored has passed `validate`, for a page that is opened, that an awaited save
  carries the page's copy, and that the history holds what an answered one
  carried; then a page stops warning by a save of what it shows, or by `Confirm`. `Refinement` maps every step to one of `RecordLog` or a stutter.
- `DatabaseProofs`, the file. `TypeCorrect`, which says that the lock is that of the one
  process in a transaction, is inductive with `WithinBinary`. The other theorems assume `ClearsLog`:
  `VersionCorrect` needs that a draft is what the file was, plus its one
  migration, while the lock is held, and that every copy was sound when it was
  taken, as it may be restored; `ServedCorrect` that a process has seen, or
  made, every migration below `next`, which no restore undoes while it runs;
  `BackupsCorrect` that only one process writes to a path it found absent.
  `Refinement` then maps each `Commit` to `Upgrade` and `Restore` to `Restore`
  of `SchemaVersions`.
- `DatabaseProofs`, the pool. `HolderCorrect` is about every endpoint at once. A program
  is `Whole` when it comes without the connection and every transaction in it
  ends; `Whole` is closed under concatenation (`WholeConcat`), so that each
  route is, built as the code builds it (`RoutesWhole`), by one lemma per file.
  The invariant: who has the connection is inside a bracket, all others outside.
- `GuardsProofs`, the tokens. Until the browser is disturbed, the cookie, every page,
  form and request have one token, and before there is a cookie one request at
  most asks for it (`Agree`, `OneAsks`): `WritesCorrect`. That a new token is
  new is counted (`Fresh`): fewer than eight for each tab are in use. Hence the
  assumption on `Tokens`, which stands for 256 random bits.

- `DiagramProofs`, the image. `ImageInv` is little more than the type of what is
  stored; the work is in the sizes. Sums over sequences and
  extremes of finite sets get their laws first (`Sums`, `Extremes`): a part of a
  sum is at most the sum, so a chip lies in its box, and a column of the key in
  the key; the view is as wide as the widest of the nodes with their margins,
  360 pixels, and the key. The text of a link is in the middle between two boxes,
  so that it has half of each on either side, and a margin (`TextFits`).
  `ImageComplete` and `ImageClear` follow for any number of nodes and links and
  any lengths that `validate` lets through.
- `DiagramProofs`, the editor: every property of the run `diagram_editor`.
  `Good` is what every tool needs of the copy and leaves of it: no id is given
  twice, and none above `seq`; tags and VLANs are in strict order and tags are
  listed; a link has two different ends, which are there, and no other link has
  the same two. `EditorInv` adds that link mode holds a node that is drawn, and
  is inductive (`EditorInductive`). `WellFormed` is not: that an
  id is new, or that sorting loses nothing, cannot be seen from it.
  Import and conversion are folds of smaller tools over the lists of the
  inventory, and each step finds what earlier ones left. `Grown` says what one
  step may do: add nodes at the end, and links. It is
  transitive, so it holds of a whole fold, and a line that is drawn in one step is
  there at the end; hence `EditorImportDrawsAll`. For
  `EditorConvertTags` the fold over the boxes keeps that a node carries what it
  was given, or is full. `EditorWellFormed` and `EditorDrawingsAgree`
  follow from `Good`, as `Normal` changes nothing in a good copy.
  All assume `FinishesLinks`, that boxes are not converted while a link is begun
  (the table above has what happens then), and `EditorDrawingsAgree` also
  `PlainTexts`, that no label is of spaces alone (see the table again).
- `DiagramProofs`, `NormalSettles`: what `validate` stores of any diagram it accepts, it
  accepts again and stores unchanged. `Topologies` assumes that of its `Normal`
  (`NormalAssumption`), `CleanMeansStored` depends on it, and so does `StoredAssumption`
  above; the theorem says so of the `Normal` that is written out in `Diagrams`,
  where names and positions, which `validate` trims and rounds, are left out.

Recursion over data has no induction rule that the provers can use, so
`FoldFacts` argues by a least counterexample in the natural numbers: a fold over a sequence
is the last step applied to the fold over what comes before (`FoldRuns`), and keeps what every step
keeps (`FoldKeeps`). The step is a parameter of the module, and `DiagramProofs` has one
instance per fold of the editor and of the image.

Only model-checked are the four liveness properties (`LockoutEnds`,
`ServersComeUp`, `EveryRequestEnds`, `Recovers`): liveness under fairness and
`ENABLED` are out of the prover's reach. So are, of course, the properties in
the table above that TLC refutes.

## Not modelled

- Where auto layout puts nodes, dragging, and the copies of a picture the
  browser makes itself (PNG). Of positions, `validate` depends on their range and
  `DiagramImage` takes any in it.
- The text of SVG and HTML output, and the read-only pages: list, view,
  history. `ConnPool` has their queries.
- Flags, the version string, the scheme and host of a request: read once, or per request.
- Passwords, names and addresses as strings: their checks refuse a form and
  touch nothing. The contents of a mail.
- What bcrypt, SQLite, SMTP and the browser do inside; what the code relies on of
  them is marked external in `PROJECT.json` or said above.

## Plan

1. That `Inventory` implements a log per record, with the referential actions as
   steps of their own that write no revision; `RecordLog` is too strict for it.
2. That `SchemaVersions` composes with a pool that is only
   opened after the migrations: `ConnPool` starts where `Migrations` ends.
3. `/inventory.json` composed with `Inventory` and `DiagramEditor`: the four
   queries of the answer are read apart, so a device may refer to a VLAN the
   answer does not have.
4. Larger instances: three pages on one diagram, three requests of accounts.
