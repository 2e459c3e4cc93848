----------------------------- MODULE Inventory ------------------------------
(***************************************************************************)
(* The documented homelab: devices, VLANs, services, IP assignments,       *)
(* firewall rules and connections, with their revision history             *)
(* (internal/web/crud.go, entities.go, connections.go and the SQL schema). *)
(*                                                                         *)
(* One generic handler serves every entity, from a declarative table; the  *)
(* model is generic in the same way.  A save and a delete each run in one  *)
(* SQL transaction, on the pool's only connection, after checks that look  *)
(* at the posted form alone: each is one step, and a statement that fails  *)
(* or a process that dies inside it leaves no trace.  A form may be posted *)
(* at any time after it was opened, so it may name rows removed since.     *)
(***************************************************************************)
EXTENDS Naturals, Sequences, FiniteSets

CONSTANTS
  Kinds,    \* the entities of which rows are written
  MaxId,    \* bound: rowids of each table are 1..MaxId
  MaxRevs,  \* bound: rows of the revisions table
  Values,   \* what an entity's own columns hold, as a whole
  Ports,    \* port names, trimmed and not empty
  None,     \* an empty port, or no mode
  NoRow     \* no row with that id

Entities == {"devices", "vlans", "services", "ips", "firewall", "connections"}
Ids == 1..MaxId
NoId == 0    \* SQL NULL in a reference

ASSUME KindsAssumption == Kinds \subseteq Entities
ASSUME InventoryBounds == MaxId \in Nat \ {0} /\ MaxRevs \in Nat
ASSUME PortsAssumption == None \notin Ports

-----------------------------------------------------------------------------
(* The schema: reference columns, with what ON DELETE does to them. *)

Fk(of, col, to, onDelete, required) ==
  [of |-> of, col |-> col, to |-> to, onDelete |-> onDelete,
   required |-> required]

ForeignKeys == {
  Fk("services",    "host_device_id",   "devices",  "null",    FALSE),
  Fk("services",    "vlan_id",          "vlans",    "null",    FALSE),
  Fk("ips",         "device_id",        "devices",  "cascade", FALSE),
  Fk("ips",         "service_id",       "services", "cascade", FALSE),
  Fk("ips",         "vlan_id",          "vlans",    "null",    FALSE),
  Fk("firewall",    "from_vlan_id",     "vlans",    "cascade", TRUE),
  Fk("firewall",    "to_vlan_id",       "vlans",    "cascade", TRUE),
  Fk("connections", "device_id",        "devices",  "cascade", TRUE),
  Fk("connections", "switch_id",        "devices",  "cascade", TRUE),
  Fk("connections", "untagged_vlan_id", "vlans",    "null",    FALSE)}

KeysOf == [e \in Entities |-> {k \in ForeignKeys : k.of = e}]
Cols == [e \in Entities |-> {k.col : k \in KeysOf[e]}]

\* Entities with a many-to-many link, which is always to vlans.
Multi == {"devices", "connections"}
Modes == {"Access", "Trunk"}

\* A row with its links, as snapshot() reads it: val stands for the plain
\* columns, ref for the references, tags for the linked VLANs.
RowOf(e) ==
  [val : Values,
   ref : [Cols[e] -> Ids \cup {NoId}],
   tags : IF e \in Multi THEN SUBSET Ids ELSE {{}},
   mode : IF e = "connections" THEN Modes ELSE {None},
   device_port : IF e = "connections" THEN Ports \cup {None} ELSE {None},
   switch_port : IF e = "connections" THEN Ports \cup {None} ELSE {None}]

ASSUME NoRowAssumption == \A e \in Entities : NoRow \notin RowOf(e)

Notes == {"created", "updated", "deleted"}
Revision(e) == [note : Notes, snap : RowOf(e)]

VARIABLES
  rows,   \* rows[e][i]: the row of entity e with id i, or NoRow
  revs    \* revs[e][i]: the revisions with that entity_type and entity_id

inventoryVars == <<rows, revs>>

Exists(e, i) == rows[e][i] # NoRow
Newest(e, i) == revs[e][i][Len(revs[e][i])]

\* INTEGER PRIMARY KEY without AUTOINCREMENT reuses the largest id once free.
IsNextRowid(e, i) ==
  /\ \A j \in Ids : Exists(e, j) => j < i
  /\ i - 1 \in {0} \cup {j \in Ids : Exists(e, j)}

-----------------------------------------------------------------------------
(* The checks on a posted form. *)

\* validateConnection: an access port has its VLAN and no other, a trunk at
\* least one tagged VLAN that is not also its native one.
ConnectionValid(row) ==
  /\ row.ref["device_id"] # row.ref["switch_id"]
  /\ row.mode = "Access" =>
       row.ref["untagged_vlan_id"] # NoId /\ row.tags = {}
  /\ row.mode = "Trunk" =>
       row.tags # {} /\ row.ref["untagged_vlan_id"] \notin row.tags

\* The NOT NULL and CHECK constraints on references.
Checks(e, row) ==
  /\ \A k \in KeysOf[e] : k.required => row.ref[k.col] # NoId
  /\ e = "ips" => row.ref["device_id"] # NoId \/ row.ref["service_id"] # NoId
  /\ e = "connections" => row.ref["device_id"] # row.ref["switch_id"]

\* parse and Validate, then the constraints.
FormValid(e, row) ==
  Checks(e, row) /\ (e = "connections" => ConnectionValid(row))

\* The rows a posted form can ask for.
Forms == [e \in Entities |-> {row \in RowOf(e) : FormValid(e, row)}]

\* The foreign keys of the row and of its links.
RefsExist(e, row) ==
  /\ \A k \in KeysOf[e] :
       row.ref[k.col] # NoId => Exists(k.to, row.ref[k.col])
  /\ \A v \in row.tags : Exists("vlans", v)

\* UNIQUE(devices.name), UNIQUE(vlans.number), and the two partial indexes on
\* the ports of connections.
Unique(e, i, row) ==
  \A j \in Ids \ {i} : Exists(e, j) =>
    /\ e \in {"devices", "vlans"} => rows[e][j].val # row.val
    /\ e = "connections" =>
         /\ row.switch_port # None =>
              \/ rows[e][j].ref["switch_id"] # row.ref["switch_id"]
              \/ rows[e][j].switch_port # row.switch_port
         /\ row.device_port # None =>
              \/ rows[e][j].ref["device_id"] # row.ref["device_id"]
              \/ rows[e][j].device_port # row.device_port

Accepted(e, i, row) == RefsExist(e, row) /\ Unique(e, i, row)

-----------------------------------------------------------------------------
(* The transactions.  An operator named Op_Change is Op with a bug: what a  *)
(* property rules out, and used by no action.                              *)

\* addRevision.
RevisionRows ==
  {n \in Entities \X Ids \X (1..MaxRevs) : n[3] \in DOMAIN revs[n[1]][n[2]]}
RoomLeft == Cardinality(RevisionRows) < MaxRevs
AddRevision(e, i, snap, note) ==
  revs' = [revs EXCEPT ![e][i] = Append(@, [note |-> note, snap |-> snap])]

\* write, id == 0.
Create(e, i) ==
  /\ IsNextRowid(e, i)
  /\ \E row \in Forms[e] :
       /\ Accepted(e, i, row)
       /\ rows' = [rows EXCEPT ![e][i] = row]
       /\ AddRevision(e, i, row, "created")

\* Mutants: the snapshot is read before the UPDATE; the row is written
\* whether or not it is there.
Update_SnapshotBefore(e, i) ==
  /\ Exists(e, i)
  /\ \E row \in Forms[e] :
       /\ row # rows[e][i]
       /\ Accepted(e, i, row)
       /\ rows' = [rows EXCEPT ![e][i] = row]
       /\ AddRevision(e, i, rows[e][i], "updated")
Update_Upsert(e, i) ==
  \E row \in Forms[e] :
    /\ row # rows[e][i]
    /\ Accepted(e, i, row)
    /\ rows' = [rows EXCEPT ![e][i] = row]
    /\ AddRevision(e, i, row, "updated")

\* write, on a row that is there; a save that changes nothing has no revision.
Update(e, i) ==
  /\ Exists(e, i)
  /\ \E row \in Forms[e] :
       /\ row # rows[e][i]
       /\ Accepted(e, i, row)
       /\ rows' = [rows EXCEPT ![e][i] = row]
       /\ AddRevision(e, i, row, "updated")

\* What DELETE FROM e WHERE id = i does to the row of x with id j: a cascading
\* reference removes it, the other references and links to i are dropped.
Lost(x, j, e, i) ==
  \/ x = e /\ j = i
  \/ \E k \in KeysOf[x] : /\ k.to = e /\ k.onDelete = "cascade"
                          /\ rows[x][j].ref[k.col] = i
\* (Mutant: only cascading references are declared.)
Dropped_Nothing(x, row, e, i) == row
Dropped(x, row, e, i) ==
  LET into(c) == \E k \in KeysOf[x] : k.col = c /\ k.to = e
  IN [row EXCEPT
        !.ref = [c \in Cols[x] |->
                   IF into(c) /\ row.ref[c] = i THEN NoId ELSE row.ref[c]],
        !.tags = IF e = "vlans" THEN row.tags \ {i} ELSE row.tags]

\* remove.  Only the row that was asked for gets its "deleted" revision.
Remove(e, i) ==
  /\ Exists(e, i)
  /\ rows' = [x \in Entities |-> [j \in Ids |->
                IF ~Exists(x, j) THEN NoRow
                ELSE IF Lost(x, j, e, i) THEN NoRow
                ELSE Dropped(x, rows[x][j], e, i)]]
  /\ AddRevision(e, i, rows[e][i], "deleted")

-----------------------------------------------------------------------------
Init ==
  /\ rows = [e \in Entities |-> [i \in Ids |-> NoRow]]
  /\ revs = [e \in Entities |-> [i \in Ids |-> <<>>]]

Next == RoomLeft /\ \E e \in Kinds, i \in Ids :
                      Create(e, i) \/ Update(e, i) \/ Remove(e, i)

Spec == Init /\ [][Next]_inventoryVars

-----------------------------------------------------------------------------
(* Every row and every snapshot has the shape of its entity. *)
TypeOK ==
  /\ \A e \in Entities : rows[e] \in [Ids -> RowOf(e) \cup {NoRow}]
  /\ \A e \in Entities : revs[e] \in [Ids -> Seq(Revision(e))]

\* The tables are sound: rows have their shape, no reference and no link
\* dangles, and no reference that a deletion drops leaves a row its constraints
\* forbid, whatever is deleted and whatever id is given out again.
RefsValid ==
  /\ TypeOK
  /\ \A e \in Entities, i \in Ids : Exists(e, i) =>
       /\ RefsExist(e, rows[e][i])
       /\ Checks(e, rows[e][i]) /\ Unique(e, i, rows[e][i])

\* Some record with this id was deleted, by a request for it.
WasDeleted(e, i) ==
  i # NoId /\ \E n \in DOMAIN revs[e][i] : revs[e][i][n].note = "deleted"

\* snap's row may have gone with a record it belonged to.
LostWith(e, snap) ==
  \E k \in KeysOf[e] : /\ k.onDelete = "cascade"
                       /\ WasDeleted(k.to, snap.ref[k.col])

\* row is snap, but for references to records deleted since.
SameButDropped(e, row, snap) ==
  /\ \A k \in KeysOf[e] :
       \/ row.ref[k.col] = snap.ref[k.col]
       \/ row.ref[k.col] = NoId /\ WasDeleted(k.to, snap.ref[k.col])
  /\ row.tags \subseteq snap.tags
  /\ \A v \in snap.tags \ row.tags : WasDeleted("vlans", v)
  /\ [row EXCEPT !.ref = snap.ref, !.tags = snap.tags] = snap

\* The history accounts for the present: a row is what its newest revision
\* says but for references to records deleted since, and a record with a
\* history and no row was deleted, or belonged to one that was.
HistoryExplains ==
  \A e \in Entities, i \in Ids :
    IF Exists(e, i)
    THEN /\ revs[e][i] # <<>> /\ Newest(e, i).note # "deleted"
         /\ SameButDropped(e, rows[e][i], Newest(e, i).snap)
    ELSE revs[e][i] # <<>> =>
           Newest(e, i).note = "deleted" \/ LostWith(e, Newest(e, i).snap)

\* A history is one life after another: it opens with "created", nothing but
\* "created" follows the end of a life, and a life only ends by a deletion.
LivesInOrder ==
  \A e \in Entities, i \in Ids : \A n \in DOMAIN revs[e][i] :
    LET rev == revs[e][i][n]
        prev == revs[e][i][n - 1]
    IN IF n = 1 THEN rev.note = "created"
       ELSE /\ prev.note = "deleted" => rev.note = "created"
            /\ rev.note = "created" =>
                 prev.note = "deleted" \/ LostWith(e, prev.snap)

-----------------------------------------------------------------------------
(* What the documentation says and the code does not keep. *)

\* A record's history is about that record: it was created once.
HistoryOfOneRecord ==
  \A e \in Entities, i \in Ids : \A n \in DOMAIN revs[e][i] :
    revs[e][i][n].note = "created" => n = 1

\* A physical port, wherever its cable is entered from, has one cable.
PortCabledOnce ==
  LET ends(c) == {<<c.ref["device_id"], c.device_port>>,
                  <<c.ref["switch_id"], c.switch_port>>}
      cabled == {i \in Ids : Exists("connections", i)}
  IN \A i, j \in cabled : i # j =>
       \A x \in ends(rows["connections"][i]) \cap ends(rows["connections"][j]) :
         x[2] = None
=============================================================================
