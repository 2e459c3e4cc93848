--------------------------- MODULE InventoryProofs ---------------------------
(* Machine-checked theorems about Inventory. *)
EXTENDS Inventory, SequenceTheorems, TLAPS

-----------------------------------------------------------------------------
(* The schema. *)

\* The table a reference column of that name is into.
Target(col) ==
  IF col \in {"host_device_id", "device_id", "switch_id"} THEN "devices"
  ELSE IF col = "service_id" THEN "services" ELSE "vlans"

\* What the declarations of the foreign keys have in common: rows that a
\* cascade removes are referred to by no table, a column's name tells the table
\* it is into, and a reference that must be there cascades.
LEMMA Schema ==
  \A k \in ForeignKeys :
    /\ k.of \in Entities /\ k.to \in Entities
    /\ k.to = Target(k.col)
    /\ k.onDelete = "cascade" => k.of \in {"ips", "firewall", "connections"}
    /\ k.to \notin {"ips", "firewall", "connections"}
    /\ k.required => k.onDelete = "cascade"
BY DEF ForeignKeys, Fk, Target, Entities

LEMMA KeysOfEntity ==
  \A e \in Entities : /\ KeysOf[e] = {k \in ForeignKeys : k.of = e}
                      /\ Cols[e] = {k.col : k \in KeysOf[e]}
BY DEF KeysOf, Cols

\* The keys by which a row goes, or is refused, with one of its references.
LEMMA NamedKeys ==
  /\ \A c \in {"device_id", "service_id"} :
       \E k \in KeysOf["ips"] : k.col = c /\ k.onDelete = "cascade"
  /\ \A c \in {"device_id", "switch_id"} :
       \E k \in KeysOf["connections"] : k.col = c /\ k.onDelete = "cascade"
<1>1. /\ Fk("ips", "device_id", "devices", "cascade", FALSE) \in KeysOf["ips"]
      /\ Fk("ips", "service_id", "services", "cascade", FALSE) \in KeysOf["ips"]
      /\ Fk("connections", "device_id", "devices", "cascade", TRUE) \in KeysOf["connections"]
      /\ Fk("connections", "switch_id", "devices", "cascade", TRUE) \in KeysOf["connections"]
  BY KeysOfEntity DEF ForeignKeys, Fk, Entities
<1> QED BY <1>1 DEF Fk

-----------------------------------------------------------------------------
(* The tables as functions of the entity. *)

Shape ==
  /\ rows = [e \in Entities |-> rows[e]] /\ revs = [e \in Entities |-> revs[e]]
  /\ TypeOK

\* What AddRevision does: one more revision of that record, and the others'
\* histories as they were.
LEMMA Appended ==
  ASSUME Shape, NEW e \in Entities, NEW i \in Ids, NEW snap \in RowOf(e), NEW note \in Notes,
         AddRevision(e, i, snap, note)
  PROVE  /\ revs' = [x \in Entities |-> revs'[x]]
         /\ \A x \in Entities : revs'[x] \in [Ids -> Seq(Revision(x))]
         /\ \A x \in Entities, j \in Ids : x # e \/ j # i => revs'[x][j] = revs[x][j]
         /\ revs'[e][i] = Append(revs[e][i], [note |-> note, snap |-> snap])
<1> USE DEF Shape, TypeOK
<1>1. [note |-> note, snap |-> snap] \in Revision(e)
  BY DEF Revision
<1>2. \A x \in Entities, j \in Ids : revs[x][j] \in Seq(Revision(x))
  OBVIOUS
<1>3. Append(revs[e][i], [note |-> note, snap |-> snap]) \in Seq(Revision(e))
  BY <1>1, <1>2, AppendProperties
<1> HIDE DEF TypeOK, Shape
<1>4. /\ revs = [x \in Entities |-> revs[x]]
      /\ \A x \in Entities : revs[x] \in [Ids -> Seq(Revision(x))]
  BY DEF Shape, TypeOK
<1> QED BY <1>3, <1>4 DEF AddRevision

\* A row written by Create or Update is one of its entity, the others stay.
LEMMA Written ==
  ASSUME Shape, NEW e \in Entities, NEW i \in Ids, NEW row \in RowOf(e),
         rows' = [rows EXCEPT ![e][i] = row]
  PROVE  /\ rows' = [x \in Entities |-> rows'[x]]
         /\ \A x \in Entities : rows'[x] \in [Ids -> RowOf(x) \cup {NoRow}]
         /\ \A x \in Entities, j \in Ids : x # e \/ j # i => rows'[x][j] = rows[x][j]
         /\ rows'[e][i] = row
<1>1. /\ rows = [x \in Entities |-> rows[x]]
      /\ \A x \in Entities : rows[x] \in [Ids -> RowOf(x) \cup {NoRow}]
  BY DEF Shape, TypeOK
<1> QED BY <1>1

LEMMA ShapeRow ==
  ASSUME Shape, NEW e \in Entities, NEW i \in Ids, Exists(e, i)
  PROVE  rows[e][i] \in RowOf(e)
BY DEF Shape, TypeOK, Exists

-----------------------------------------------------------------------------
(* What a deletion does to the rows that stay. *)

\* new is row without what referred to, or was linked with, record i of e.
Without(x, row, new, e, i) ==
  /\ \A k \in KeysOf[x] :
       /\ k.to = e /\ row.ref[k.col] = i => new.ref[k.col] = NoId
       /\ ~(k.to = e /\ row.ref[k.col] = i) => new.ref[k.col] = row.ref[k.col]
  /\ new.tags = IF e = "vlans" THEN row.tags \ {i} ELSE row.tags
  /\ new.val = row.val /\ new.mode = row.mode
  /\ new.device_port = row.device_port /\ new.switch_port = row.switch_port

LEMMA DroppedRow ==
  ASSUME NEW x \in Entities, NEW row \in RowOf(x), NEW e \in Entities, NEW i \in Ids
  PROVE  /\ Dropped(x, row, e, i) \in RowOf(x)
         /\ Without(x, row, Dropped(x, row, e, i), e, i)
<1> DEFINE into(c) == \E k \in KeysOf[x] : k.col = c /\ k.to = e
           ref == [c \in Cols[x] |->
                     IF into(c) /\ row.ref[c] = i THEN NoId ELSE row.ref[c]]
           tags == IF e = "vlans" THEN row.tags \ {i} ELSE row.tags
           new == [row EXCEPT !.ref = ref, !.tags = tags]
<1>1. row.ref \in [Cols[x] -> Ids \cup {NoId}] /\ ref \in [Cols[x] -> Ids \cup {NoId}]
  BY DEF RowOf
<1>2. tags \in IF x \in Multi THEN SUBSET Ids ELSE {{}}
  BY DEF RowOf
<1>3. /\ new \in RowOf(x)
      /\ new.ref = ref /\ new.tags = tags
      /\ new.val = row.val /\ new.mode = row.mode
      /\ new.device_port = row.device_port /\ new.switch_port = row.switch_port
  <2> HIDE DEF ref, tags
  <2> QED BY <1>1, <1>2 DEF RowOf
<1>4. Dropped(x, row, e, i) = new
  BY DEF Dropped
<1>5. \A k \in KeysOf[x] : k.col \in Cols[x] /\ (into(k.col) <=> k.to = e)
  BY Schema, KeysOfEntity
<1>6. \A k \in KeysOf[x] :
        /\ k.to = e /\ row.ref[k.col] = i => ref[k.col] = NoId
        /\ ~(k.to = e /\ row.ref[k.col] = i) => ref[k.col] = row.ref[k.col]
  BY <1>5
<1> HIDE DEF new, ref
<1> QED BY <1>3, <1>4, <1>6 DEF Without

\* Which rows are there after a deletion, and what they hold.
LEMMA Removed ==
  ASSUME Shape, NEW e \in Entities, NEW i \in Ids, Remove(e, i)
  PROVE  /\ rows' = [x \in Entities |-> rows'[x]]
         /\ \A x \in Entities : rows'[x] \in [Ids -> RowOf(x) \cup {NoRow}]
         /\ \A x \in Entities, j \in Ids :
              /\ Exists(x, j)' <=> Exists(x, j) /\ ~Lost(x, j, e, i)
              /\ Exists(x, j)' => Without(x, rows[x][j], rows'[x][j], e, i)
<1>1. \A x \in Entities, j \in Ids :
        rows'[x][j] = IF ~Exists(x, j) THEN NoRow
                      ELSE IF Lost(x, j, e, i) THEN NoRow
                      ELSE Dropped(x, rows[x][j], e, i)
  BY DEF Remove
<1>2. ASSUME NEW x \in Entities, NEW j \in Ids, Exists(x, j)
      PROVE  /\ Dropped(x, rows[x][j], e, i) \in RowOf(x)
             /\ Dropped(x, rows[x][j], e, i) # NoRow
             /\ Without(x, rows[x][j], Dropped(x, rows[x][j], e, i), e, i)
  <2>1. rows[x][j] \in RowOf(x)
    BY <1>2, ShapeRow
  <2>2. /\ Dropped(x, rows[x][j], e, i) \in RowOf(x)
        /\ Without(x, rows[x][j], Dropped(x, rows[x][j], e, i), e, i)
    BY <2>1, DroppedRow
  <2> QED BY <2>2, NoRowAssumption
<1>3. rows' = [x \in Entities |-> rows'[x]]
  BY DEF Remove
<1>4. \A x \in Entities : rows'[x] = [j \in Ids |-> rows'[x][j]]
  BY DEF Remove
<1>5. \A x \in Entities, j \in Ids : rows'[x][j] \in RowOf(x) \cup {NoRow}
  BY <1>1, <1>2
<1>6. \A x \in Entities, j \in Ids :
        /\ Exists(x, j)' <=> Exists(x, j) /\ ~Lost(x, j, e, i)
        /\ Exists(x, j)' => Without(x, rows[x][j], rows'[x][j], e, i)
  BY <1>1, <1>2 DEF Exists
<1> QED BY <1>3, <1>4, <1>5, <1>6

\* The tables keep their shape.
LEMMA StepShape == Shape /\ [Next]_inventoryVars => Shape'
<1> SUFFICES ASSUME Shape, [Next]_inventoryVars PROVE Shape'
  OBVIOUS
<1>1. CASE UNCHANGED inventoryVars
  BY <1>1 DEF Shape, TypeOK, inventoryVars
<1>2. ASSUME NEW e \in Entities, NEW i \in Ids, Create(e, i) \/ Update(e, i)
      PROVE  Shape'
  <2>1. PICK row \in RowOf(e), note \in Notes :
          /\ rows' = [rows EXCEPT ![e][i] = row]
          /\ AddRevision(e, i, row, note)
    BY <1>2 DEF Create, Update, Forms, Notes
  <2> QED BY <2>1, Written, Appended DEF Shape, TypeOK
<1>3. ASSUME NEW e \in Entities, NEW i \in Ids, Remove(e, i)
      PROVE  Shape'
  <2>1. rows[e][i] \in RowOf(e) /\ AddRevision(e, i, rows[e][i], "deleted")
    BY <1>3, ShapeRow DEF Remove
  <2> QED BY <1>3, <2>1, Removed, Appended DEF Shape, TypeOK, Notes
<1> QED BY <1>1, <1>2, <1>3, KindsAssumption DEF Next

LEMMA InitShape == Init => Shape
<1>1. \A e \in Entities : << >> \in Seq(Revision(e))
  BY EmptySeq
<1> QED BY <1>1 DEF Init, Shape, TypeOK

-----------------------------------------------------------------------------
(* References and constraints. *)

\* The rows that are there satisfy the schema.
Sound(e, i) ==
  Exists(e, i) => /\ RefsExist(e, rows[e][i])
                  /\ Checks(e, rows[e][i]) /\ Unique(e, i, rows[e][i])

\* A row that stays keeps every reference by which it would have gone.
LEMMA CascadesKept ==
  ASSUME Shape, NEW e \in Entities, NEW i \in Ids, Remove(e, i),
         NEW x \in Entities, NEW j \in Ids, Exists(x, j)',
         NEW k \in KeysOf[x], k.onDelete = "cascade"
  PROVE  rows'[x][j].ref[k.col] = rows[x][j].ref[k.col]
<1>1. Exists(x, j) /\ ~Lost(x, j, e, i) /\ Without(x, rows[x][j], rows'[x][j], e, i)
  BY Removed
<1>2. ~(k.to = e /\ rows[x][j].ref[k.col] = i)
  BY <1>1 DEF Lost
<1> QED BY <1>1, <1>2 DEF Without

\* A save leaves every table sound.
LEMMA SaveSound ==
  ASSUME Shape, \A x \in Entities, j \in Ids : Sound(x, j),
         NEW e \in Entities, NEW i \in Ids, NEW row \in Forms[e], Accepted(e, i, row),
         rows' = [rows EXCEPT ![e][i] = row],
         NEW x \in Entities, NEW j \in Ids
  PROVE  Sound(x, j)'
<1>1. row \in RowOf(e) /\ Checks(e, row) /\ row # NoRow
  BY NoRowAssumption DEF Forms, FormValid
<1>2. /\ \A y \in Entities, n \in Ids : y # e \/ n # i => rows'[y][n] = rows[y][n]
      /\ rows'[e][i] = row
  BY <1>1, Written
<1>3. \A y \in Entities, n \in Ids : Exists(y, n) => Exists(y, n)'
  BY <1>1, <1>2 DEF Exists
<1>4. ASSUME NEW y \in Entities, NEW some \in RowOf(y), RefsExist(y, some)
      PROVE  RefsExist(y, some)'
  <2>1. \A k \in KeysOf[y] : some.ref[k.col] \in Ids \cup {NoId} /\ k.to \in Entities
    BY Schema, KeysOfEntity DEF RowOf
  <2>2. some.tags \subseteq Ids /\ "vlans" \in Entities
    BY DEF RowOf, Entities
  <2> QED BY <1>3, <1>4, <2>1, <2>2 DEF RefsExist
<1>5. CASE x = e /\ j = i
  <2>1. Unique(e, i, row)'
    BY <1>2 DEF Accepted, Unique, Exists
  <2> QED BY <1>1, <1>2, <1>4, <1>5, <2>1 DEF Sound, Accepted
<1>6. CASE x # e \/ j # i
  <2> SUFFICES ASSUME Exists(x, j)' PROVE Sound(x, j)'
    BY DEF Sound
  <2>1. Exists(x, j) /\ rows'[x][j] = rows[x][j]
    BY <1>2, <1>6 DEF Exists
  <2>2. RefsExist(x, rows[x][j]) /\ Checks(x, rows[x][j]) /\ Unique(x, j, rows[x][j])
    BY <2>1 DEF Sound
  <2> DEFINE old == rows[x][j]
  <2>3. ASSUME NEW n \in Ids \ {j}, Exists(x, n)'
        PROVE  /\ x \in {"devices", "vlans"} => rows'[x][n].val # old.val
               /\ x = "connections" =>
                    /\ old.switch_port # None =>
                         \/ rows'[x][n].ref["switch_id"] # old.ref["switch_id"]
                         \/ rows'[x][n].switch_port # old.switch_port
                    /\ old.device_port # None =>
                         \/ rows'[x][n].ref["device_id"] # old.ref["device_id"]
                         \/ rows'[x][n].device_port # old.device_port
    <3>1. CASE x = e /\ n = i
      BY <1>2, <1>6, <2>1, <3>1 DEF Accepted, Unique, Exists
    <3>2. CASE x # e \/ n # i
      BY <1>2, <2>2, <2>3, <3>2 DEF Unique, Exists
    <3> QED BY <3>1, <3>2
  <2>4. Unique(x, j, rows[x][j])'
    BY <2>1, <2>3 DEF Unique
  <2>5. RefsExist(x, rows[x][j])'
    BY <1>4, <2>1, <2>2, ShapeRow
  <2> QED BY <2>1, <2>2, <2>4, <2>5 DEF Sound, Checks
<1> QED BY <1>5, <1>6

\* A deletion leaves every table sound.
LEMMA RemoveSound ==
  ASSUME Shape, \A x \in Entities, j \in Ids : Sound(x, j),
         NEW e \in Entities, NEW i \in Ids, Remove(e, i),
         NEW x \in Entities, NEW j \in Ids
  PROVE  Sound(x, j)'
<1> SUFFICES ASSUME Exists(x, j)' PROVE Sound(x, j)'
  BY DEF Sound
<1> DEFINE old == rows[x][j]
           new == rows'[x][j]
           Stays(y, n) == rows'[y][n] # NoRow
<1>1. /\ Exists(x, j) /\ ~Lost(x, j, e, i) /\ Without(x, old, new, e, i)
      /\ old \in RowOf(x)
  BY Removed, ShapeRow
<1>2. RefsExist(x, old) /\ Checks(x, old) /\ Unique(x, j, old)
  BY <1>1 DEF Sound
\* Nothing a row can refer to goes but the record that is deleted.
<1>3. ASSUME NEW y \in {"devices", "vlans", "services"}, NEW n \in Ids,
             Exists(y, n), y # e \/ n # i
      PROVE  Stays(y, n)
  <2>1. y \in Entities /\ \A k \in KeysOf[y] : k.onDelete # "cascade"
    BY Schema, KeysOfEntity DEF Entities
  <2> QED BY <1>3, <2>1, Removed DEF Lost, Exists
<1>4. RefsExist(x, rows[x][j])'
  <2>1. ASSUME NEW k \in KeysOf[x], new.ref[k.col] # NoId
        PROVE  Stays(k.to, new.ref[k.col])
    <3>1. k.to \in {"devices", "vlans", "services"} /\ k.col \in Cols[x]
      BY Schema, KeysOfEntity DEF Target
    <3>2. /\ new.ref[k.col] = old.ref[k.col]
          /\ k.to # e \/ old.ref[k.col] # i
      BY <1>1, <2>1 DEF Without
    <3>3. Exists(k.to, old.ref[k.col]) /\ old.ref[k.col] \in Ids
      BY <1>1, <1>2, <2>1, <3>1, <3>2 DEF RefsExist, RowOf
    <3> QED BY <1>3, <3>1, <3>2, <3>3
  <2>2. ASSUME NEW v \in new.tags
        PROVE  Stays("vlans", v)
    <3>1. v \in old.tags /\ ("vlans" # e \/ v # i) /\ v \in Ids
      BY <1>1, <2>2 DEF Without, RowOf
    <3> QED BY <1>2, <1>3, <3>1 DEF RefsExist
  <2> QED BY <2>1, <2>2 DEF RefsExist, Exists
\* Required references cascade.
<1>5. Checks(x, rows[x][j])'
  <2>1. \A k \in KeysOf[x] : k.onDelete = "cascade" => new.ref[k.col] = old.ref[k.col]
    BY CascadesKept
  <2>2. \A k \in KeysOf[x] : k.required => new.ref[k.col] # NoId
    BY <1>2, <2>1, Schema, KeysOfEntity DEF Checks
  <2>3. x = "ips" => /\ new.ref["device_id"] = old.ref["device_id"]
                     /\ new.ref["service_id"] = old.ref["service_id"]
    BY <2>1, NamedKeys
  <2>4. x = "connections" => /\ new.ref["device_id"] = old.ref["device_id"]
                             /\ new.ref["switch_id"] = old.ref["switch_id"]
    BY <2>1, NamedKeys
  <2> QED BY <1>2, <2>2, <2>3, <2>4 DEF Checks
<1>6. Unique(x, j, rows[x][j])'
  <2>1. ASSUME NEW n \in Ids, Exists(x, n)'
        PROVE  /\ Exists(x, n)
               /\ rows'[x][n].val = rows[x][n].val
               /\ rows'[x][n].device_port = rows[x][n].device_port
               /\ rows'[x][n].switch_port = rows[x][n].switch_port
               /\ x = "connections" =>
                    /\ rows'[x][n].ref["device_id"] = rows[x][n].ref["device_id"]
                    /\ rows'[x][n].ref["switch_id"] = rows[x][n].ref["switch_id"]
    <3>1. Exists(x, n) /\ Without(x, rows[x][n], rows'[x][n], e, i)
      BY <2>1, Removed
    <3>2. \A k \in KeysOf[x] : k.onDelete = "cascade" =>
            rows'[x][n].ref[k.col] = rows[x][n].ref[k.col]
      BY <2>1, CascadesKept
    <3> QED BY <3>1, <3>2, NamedKeys DEF Without
  <2>2. ASSUME NEW n \in Ids \ {j}, Exists(x, n)'
        PROVE  /\ x \in {"devices", "vlans"} => rows'[x][n].val # new.val
               /\ x = "connections" =>
                    /\ new.switch_port # None =>
                         \/ rows'[x][n].ref["switch_id"] # new.ref["switch_id"]
                         \/ rows'[x][n].switch_port # new.switch_port
                    /\ new.device_port # None =>
                         \/ rows'[x][n].ref["device_id"] # new.ref["device_id"]
                         \/ rows'[x][n].device_port # new.device_port
    BY <1>2, <2>1, <2>2 DEF Unique
  <2> QED BY <2>2 DEF Unique
<1> QED BY <1>4, <1>5, <1>6 DEF Sound

LEMMA StepSound ==
  Shape /\ (\A x \in Entities, j \in Ids : Sound(x, j)) /\ [Next]_inventoryVars
    => (\A x \in Entities, j \in Ids : Sound(x, j))'
<1> SUFFICES ASSUME Shape, \A x \in Entities, j \in Ids : Sound(x, j),
                    [Next]_inventoryVars, NEW x \in Entities, NEW j \in Ids
             PROVE  Sound(x, j)'
  OBVIOUS
<1>1. CASE UNCHANGED inventoryVars
  BY <1>1 DEF inventoryVars, Sound, Exists, RefsExist, Checks, Unique
<1>2. ASSUME NEW e \in Entities, NEW i \in Ids, Create(e, i) \/ Update(e, i)
      PROVE  Sound(x, j)'
  BY <1>2, SaveSound DEF Create, Update
<1>3. ASSUME NEW e \in Entities, NEW i \in Ids, Remove(e, i)
      PROVE  Sound(x, j)'
  BY <1>3, RemoveSound
<1> QED BY <1>1, <1>2, <1>3, KindsAssumption DEF Next

LEMMA InitSound == Init => \A x \in Entities, j \in Ids : Sound(x, j)
BY DEF Init, Sound, Exists

\* In every reachable state no reference and no link dangles and the
\* constraints of the schema hold, for any number of rows: the referential
\* actions that the migrations declare repair all that a deletion breaks.
THEOREM RefsCorrect == Spec => []RefsValid
<1> DEFINE AllSound == \A x \in Entities, j \in Ids : Sound(x, j)
<1>1. Init => Shape /\ AllSound
  BY InitShape, InitSound
<1>2. Shape /\ AllSound /\ [Next]_inventoryVars => Shape' /\ AllSound'
  BY StepShape, StepSound
<1>3. Shape /\ AllSound => RefsValid
  BY DEF Shape, Sound, RefsValid
<1> HIDE DEF AllSound
<1> QED BY <1>1, <1>2, <1>3, PTL DEF Spec

-----------------------------------------------------------------------------
(* Histories.  h stands for the revisions before or after a step, so that a *)
(* lemma can speak of both.                                                *)

Histories(h) == \A e \in Entities : h[e] \in [Ids -> Seq(Revision(e))]

\* WasDeleted, LostWith and SameButDropped, by the histories h.
DeletedIn(h, e, i) == i # NoId /\ \E n \in DOMAIN h[e][i] : h[e][i][n].note = "deleted"

LostIn(h, e, snap) ==
  \E k \in KeysOf[e] : k.onDelete = "cascade" /\ DeletedIn(h, k.to, snap.ref[k.col])

SameIn(h, e, row, snap) ==
  /\ \A k \in KeysOf[e] :
       \/ row.ref[k.col] = snap.ref[k.col]
       \/ row.ref[k.col] = NoId /\ DeletedIn(h, k.to, snap.ref[k.col])
  /\ row.tags \subseteq snap.tags
  /\ \A v \in snap.tags \ row.tags : DeletedIn(h, "vlans", v)
  /\ row.val = snap.val /\ row.mode = snap.mode
  /\ row.device_port = snap.device_port /\ row.switch_port = snap.switch_port

\* HistoryExplains and LivesInOrder, of one record.
Last(h, e, i) == h[e][i][Len(h[e][i])]

Ended(h, e, rev) == rev.note = "deleted" \/ LostIn(h, e, rev.snap)

Explained(h, e, i, row) ==
  /\ row # NoRow => /\ h[e][i] # <<>> /\ Last(h, e, i).note # "deleted"
                    /\ SameIn(h, e, row, Last(h, e, i).snap)
  /\ row = NoRow /\ h[e][i] # <<>> => Ended(h, e, Last(h, e, i))

Follows(h, e, prev, rev) ==
  /\ prev.note = "deleted" => rev.note = "created"
  /\ rev.note = "created" => Ended(h, e, prev)

Ordered(h, e, i) ==
  \A n \in DOMAIN h[e][i] :
    IF n = 1 THEN h[e][i][n].note = "created" ELSE Follows(h, e, h[e][i][n - 1], h[e][i][n])

HistInv ==
  Shape /\ \A e \in Entities, i \in Ids : /\ Explained(revs, e, i, rows[e][i])
                                          /\ Ordered(revs, e, i)

\* h2 is h with one more revision of record i of e.
Grows(h, h2, e, i, rev) ==
  /\ \A x \in Entities, j \in Ids : x # e \/ j # i => h2[x][j] = h[x][j]
  /\ h2[e][i] = Append(h[e][i], rev)

\* The revisions of one record, one by one.
LEMMA Revisions ==
  ASSUME NEW h, Histories(h), NEW e \in Entities, NEW i \in Ids
  PROVE  /\ h[e][i] \in Seq(Revision(e))
         /\ Len(h[e][i]) \in Nat
         /\ DOMAIN h[e][i] = 1..Len(h[e][i])
         /\ h[e][i] # <<>> <=> Len(h[e][i]) > 0
         /\ \A n \in 1..Len(h[e][i]) : /\ h[e][i][n] \in Revision(e)
                                       /\ h[e][i][n].snap \in RowOf(e)
<1>1. h[e][i] \in Seq(Revision(e))
  BY DEF Histories
<1>2. \A rev \in Revision(e) : rev.snap \in RowOf(e)
  BY DEF Revision
<1> QED BY <1>1, <1>2, EmptySeq, LenProperties, ElementOfSeq

LEMMA LastRevision ==
  ASSUME NEW h, Histories(h), NEW e \in Entities, NEW i \in Ids, h[e][i] # <<>>
  PROVE  Last(h, e, i) \in Revision(e) /\ Last(h, e, i).snap \in RowOf(e)
<1>1. Len(h[e][i]) \in 1..Len(h[e][i])
  BY Revisions
<1> QED BY <1>1, Revisions DEF Last

LEMMA NewRevision ==
  ASSUME NEW h, NEW h2, Histories(h), NEW e \in Entities, NEW i \in Ids,
         NEW rev \in Revision(e), Grows(h, h2, e, i, rev)
  PROVE  /\ h2[e][i] # <<>>
         /\ DOMAIN h2[e][i] = 1..(Len(h[e][i]) + 1)
         /\ \A n \in 1..Len(h[e][i]) : h2[e][i][n] = h[e][i][n]
         /\ h2[e][i][Len(h[e][i]) + 1] = rev
         /\ Last(h2, e, i) = rev
<1> DEFINE old == h[e][i]
<1>1. old \in Seq(Revision(e))
  BY Revisions
<1>2. h2[e][i] = Append(old, rev)
  BY DEF Grows
<1> HIDE DEF old
<1>3. /\ Append(old, rev) # <<>>
      /\ Len(Append(old, rev)) = Len(old) + 1
      /\ \A n \in 1..Len(old) : Append(old, rev)[n] = old[n]
      /\ Append(old, rev)[Len(old) + 1] = rev
      /\ DOMAIN Append(old, rev) = 1..(Len(old) + 1)
  BY <1>1, AppendProperties, LenProperties
<1> QED BY <1>2, <1>3 DEF Last, old

\* A deletion is never forgotten, and so neither is what it explains.
LEMMA DeletionsStay ==
  ASSUME NEW h, NEW h2, Histories(h), NEW e \in Entities, NEW i \in Ids,
         NEW rev \in Revision(e), Grows(h, h2, e, i, rev),
         NEW x \in Entities, NEW j \in Ids \cup {NoId}, DeletedIn(h, x, j)
  PROVE  DeletedIn(h2, x, j)
<1>1. j \in Ids
  BY DEF DeletedIn
<1>2. PICK n \in DOMAIN h[x][j] : h[x][j][n].note = "deleted"
  BY DEF DeletedIn
<1>3. CASE x = e /\ j = i
  <2>1. n \in 1..Len(h[x][j]) /\ Len(h[x][j]) \in Nat
    BY <1>1, <1>2, Revisions
  <2>2. n \in DOMAIN h2[x][j] /\ h2[x][j][n] = h[x][j][n]
    BY <1>3, <2>1, NewRevision
  <2> QED BY <1>1, <1>2, <2>2 DEF DeletedIn
<1>4. CASE x # e \/ j # i
  BY <1>1, <1>4 DEF DeletedIn, Grows
<1> QED BY <1>3, <1>4

LEMMA ExcusesStay ==
  ASSUME NEW h, NEW h2, Histories(h), NEW e \in Entities, NEW i \in Ids,
         NEW rev \in Revision(e), Grows(h, h2, e, i, rev),
         NEW x \in Entities, NEW snap \in RowOf(x)
  PROVE  /\ LostIn(h, x, snap) => LostIn(h2, x, snap)
         /\ \A row \in RowOf(x) : SameIn(h, x, row, snap) => SameIn(h2, x, row, snap)
<1>1. \A k \in KeysOf[x] : k.to \in Entities /\ k.col \in Cols[x] /\ snap.ref[k.col] \in Ids \cup {NoId}
  BY Schema, KeysOfEntity DEF RowOf
<1>2. snap.tags \subseteq Ids /\ "vlans" \in Entities
  BY DEF RowOf, Entities
<1>3. \A k \in KeysOf[x] : DeletedIn(h, k.to, snap.ref[k.col]) => DeletedIn(h2, k.to, snap.ref[k.col])
  BY <1>1, DeletionsStay
<1>4. \A v \in snap.tags : DeletedIn(h, "vlans", v) => DeletedIn(h2, "vlans", v)
  BY <1>2, DeletionsStay
<1> QED BY <1>3, <1>4 DEF LostIn, SameIn

\* The records a step does not touch keep their account and their order.
LEMMA Untouched ==
  ASSUME NEW h, NEW h2, Histories(h), NEW e \in Entities, NEW i \in Ids,
         NEW rev \in Revision(e), Grows(h, h2, e, i, rev),
         NEW x \in Entities, NEW j \in Ids, x # e \/ j # i
  PROVE  /\ \A row \in RowOf(x) \cup {NoRow} : Explained(h, x, j, row) => Explained(h2, x, j, row)
         /\ Ordered(h, x, j) => Ordered(h2, x, j)
<1>1. h2[x][j] = h[x][j] /\ Last(h2, x, j) = Last(h, x, j)
  BY DEF Grows, Last
<1>2. \A n \in 1..Len(h[x][j]) :
        /\ Ended(h, x, h[x][j][n]) => Ended(h2, x, h[x][j][n])
        /\ \A row \in RowOf(x) : SameIn(h, x, row, h[x][j][n].snap) => SameIn(h2, x, row, h[x][j][n].snap)
  BY Revisions, ExcusesStay DEF Ended
<1>3. h[x][j] # <<>> => Len(h[x][j]) \in 1..Len(h[x][j])
  BY Revisions
<1>4. ASSUME NEW row \in RowOf(x) \cup {NoRow}, Explained(h, x, j, row)
      PROVE  Explained(h2, x, j, row)
  BY <1>1, <1>2, <1>3, <1>4 DEF Explained, Last
<1>5. ASSUME Ordered(h, x, j), NEW n \in DOMAIN h[x][j], n # 1
      PROVE  Follows(h2, x, h[x][j][n - 1], h[x][j][n])
  <2>1. n - 1 \in 1..Len(h[x][j])
    BY <1>5, Revisions
  <2> QED BY <1>2, <1>5, <2>1 DEF Ordered, Follows
<1> QED BY <1>1, <1>4, <1>5 DEF Ordered

\* A history stays in order when what is added may follow its last revision.
LEMMA OrderKept ==
  ASSUME NEW h, NEW h2, Histories(h), NEW e \in Entities, NEW i \in Ids,
         NEW rev \in Revision(e), Grows(h, h2, e, i, rev), Ordered(h, e, i),
         h[e][i] = <<>> => rev.note = "created",
         h[e][i] # <<>> => Follows(h, e, Last(h, e, i), rev)
  PROVE  Ordered(h2, e, i)
<1>1. \A n \in 1..Len(h[e][i]) : Ended(h, e, h[e][i][n]) => Ended(h2, e, h[e][i][n])
  BY Revisions, ExcusesStay DEF Ended
<1>2. SUFFICES ASSUME NEW n \in 1..(Len(h[e][i]) + 1)
               PROVE  IF n = 1 THEN h2[e][i][n].note = "created"
                      ELSE Follows(h2, e, h2[e][i][n - 1], h2[e][i][n])
  BY NewRevision DEF Ordered
<1>3. Len(h[e][i]) \in Nat /\ DOMAIN h[e][i] = 1..Len(h[e][i]) /\ (h[e][i] # <<>> <=> Len(h[e][i]) > 0)
  BY Revisions
<1>4. CASE n \in 1..Len(h[e][i])
  <2>1. h2[e][i][n] = h[e][i][n] /\ (n # 1 => n - 1 \in 1..Len(h[e][i]) /\ h2[e][i][n - 1] = h[e][i][n - 1])
    BY <1>3, <1>4, NewRevision
  <2> QED BY <1>1, <1>3, <1>4, <2>1 DEF Ordered, Follows
<1>5. CASE n = Len(h[e][i]) + 1 /\ n # 1
  <2>1. /\ n - 1 = Len(h[e][i]) /\ n - 1 \in 1..Len(h[e][i]) /\ h[e][i] # <<>>
        /\ h2[e][i][n] = rev /\ h2[e][i][n - 1] = Last(h, e, i)
    BY <1>3, <1>5, NewRevision DEF Last
  <2> QED BY <1>1, <1>5, <2>1 DEF Follows, Last
<1>6. CASE n = Len(h[e][i]) + 1 /\ n = 1
  BY <1>3, <1>6, NewRevision
<1> QED BY <1>2, <1>3, <1>4, <1>5, <1>6

-----------------------------------------------------------------------------
(* Steps and histories. *)

\* A step adds one revision of one record.
LEMMA StepGrows ==
  ASSUME Shape, NEW e \in Entities, NEW i \in Ids, NEW snap \in RowOf(e), NEW note \in Notes,
         AddRevision(e, i, snap, note)
  PROVE  /\ Histories(revs)
         /\ [note |-> note, snap |-> snap] \in Revision(e)
         /\ Grows(revs, revs', e, i, [note |-> note, snap |-> snap])
BY Appended DEF Shape, TypeOK, Histories, Revision, Grows

\* A row that was just written is what its revision says.
LEMMA WrittenExplained ==
  ASSUME NEW h, NEW e \in Entities, NEW i \in Ids, NEW row \in RowOf(e), h[e][i] # <<>>,
         Last(h, e, i).note # "deleted", Last(h, e, i).snap = row
  PROVE  Explained(h, e, i, row)
BY NoRowAssumption DEF Explained, SameIn

\* create and update.
LEMMA SaveExplained ==
  ASSUME HistInv, NEW e \in Entities, NEW i \in Ids, NEW row \in RowOf(e),
         NEW note \in {"created", "updated"}, note = "updated" <=> Exists(e, i),
         rows' = [rows EXCEPT ![e][i] = row], AddRevision(e, i, row, note),
         NEW x \in Entities, NEW j \in Ids
  PROVE  Explained(revs', x, j, rows'[x][j]) /\ Ordered(revs', x, j)
<1> DEFINE rev == [note |-> note, snap |-> row]
<1>1. /\ Shape /\ Histories(revs) /\ rev \in Revision(e) /\ Grows(revs, revs', e, i, rev)
      /\ rev.note = note /\ rev.snap = row
  BY StepGrows DEF HistInv, Notes
<1>2. /\ rows'[e][i] = row
      /\ x # e \/ j # i => rows'[x][j] = rows[x][j]
  BY <1>1, Written
<1>3. Explained(revs, x, j, rows[x][j]) /\ Ordered(revs, x, j) /\ rows[x][j] \in RowOf(x) \cup {NoRow}
  BY DEF HistInv, Shape, TypeOK
<1> HIDE DEF rev
<1>4. CASE x # e \/ j # i
  BY <1>1, <1>2, <1>3, <1>4, Untouched
<1>5. CASE x = e /\ j = i
  <2>1. Explained(revs', e, i, row)
    <3>1. revs'[e][i] # <<>> /\ Last(revs', e, i) = rev
      BY <1>1, NewRevision
    <3>2. Last(revs', e, i).note # "deleted" /\ Last(revs', e, i).snap = row
      BY <1>1, <3>1
    <3> QED BY <3>1, <3>2, WrittenExplained
  <2>2. /\ revs[e][i] = <<>> => rev.note = "created"
        /\ revs[e][i] # <<>> => Follows(revs, e, Last(revs, e, i), rev)
    BY <1>1, <1>3, <1>5 DEF Explained, Exists, Follows
  <2>3. Ordered(revs', e, i)
    BY <1>1, <1>3, <1>5, <2>2, OrderKept
  <2> QED BY <1>2, <1>5, <2>1, <2>3
<1> QED BY <1>4, <1>5

\* A row that lost what referred to the deleted record is still its last
\* revision, but for deletions.
LEMMA DroppedExplained ==
  ASSUME NEW h, NEW x \in Entities, NEW e \in Entities, NEW i \in Ids, DeletedIn(h, e, i),
         NEW row \in RowOf(x), NEW new \in RowOf(x), NEW snap \in RowOf(x),
         SameIn(h, x, row, snap), Without(x, row, new, e, i)
  PROVE  SameIn(h, x, new, snap)
<1>1. ASSUME NEW k \in KeysOf[x]
      PROVE  \/ new.ref[k.col] = snap.ref[k.col]
             \/ new.ref[k.col] = NoId /\ DeletedIn(h, k.to, snap.ref[k.col])
  <2>1. CASE k.to = e /\ row.ref[k.col] = i
    BY <2>1 DEF SameIn, Without, DeletedIn
  <2>2. CASE ~(k.to = e /\ row.ref[k.col] = i)
    BY <2>2 DEF SameIn, Without
  <2> QED BY <2>1, <2>2
<1>2. new.tags \subseteq snap.tags /\ \A v \in snap.tags \ new.tags : DeletedIn(h, "vlans", v)
  BY DEF SameIn, Without
<1> QED BY <1>1, <1>2 DEF SameIn, Without

\* remove.
LEMMA RemoveExplained ==
  ASSUME HistInv, NEW e \in Entities, NEW i \in Ids, Remove(e, i),
         NEW x \in Entities, NEW j \in Ids
  PROVE  Explained(revs', x, j, rows'[x][j]) /\ Ordered(revs', x, j)
<1> DEFINE rev == [note |-> "deleted", snap |-> rows[e][i]]
<1>1. /\ Shape /\ Histories(revs) /\ rev \in Revision(e) /\ Grows(revs, revs', e, i, rev)
      /\ rev.note = "deleted"
  BY ShapeRow, StepGrows DEF HistInv, Notes, Remove
<1> HIDE DEF rev
<1>2. /\ Explained(revs, x, j, rows[x][j]) /\ Ordered(revs, x, j)
      /\ rows[x][j] \in RowOf(x) \cup {NoRow}
      /\ Explained(revs, e, i, rows[e][i])
  BY DEF HistInv, Shape, TypeOK
<1>3. /\ rows'[x][j] # NoRow <=> rows[x][j] # NoRow /\ ~Lost(x, j, e, i)
      /\ rows'[x][j] # NoRow => Without(x, rows[x][j], rows'[x][j], e, i)
      /\ rows'[x][j] \in RowOf(x) \cup {NoRow}
  BY <1>1, Removed DEF Exists
<1>4. CASE x = e /\ j = i
  <2>1. rows'[x][j] = NoRow
    BY <1>3, <1>4 DEF Lost
  <2>2. Explained(revs', x, j, NoRow)
    BY <1>1, <1>4, NewRevision DEF Explained, Ended
  <2>3. /\ revs[e][i] # <<>>
        /\ Follows(revs, e, Last(revs, e, i), rev)
    BY <1>1, <1>2 DEF Explained, Follows, Remove, Exists
  <2> QED BY <1>1, <1>2, <1>4, <2>1, <2>2, <2>3, OrderKept
<1>5. CASE x # e \/ j # i
  <2>1. Ordered(revs', x, j) /\ Explained(revs', x, j, rows[x][j])
    BY <1>1, <1>2, <1>5, Untouched
  <2>2. DeletedIn(revs', e, i)
    <3>1. Len(revs[e][i]) \in Nat
      BY <1>1, Revisions
    <3>2. revs'[e][i][Len(revs[e][i]) + 1].note = "deleted" /\ Len(revs[e][i]) + 1 \in DOMAIN revs'[e][i]
      BY <1>1, <3>1, NewRevision
    <3> QED BY <3>2 DEF DeletedIn, Ids, NoId
  <2>3. CASE rows[x][j] = NoRow
    BY <1>3, <2>1, <2>3
  <2>4. CASE rows[x][j] # NoRow /\ rows'[x][j] = NoRow
    <3>1. PICK k \in KeysOf[x] : k.to = e /\ k.onDelete = "cascade" /\ rows[x][j].ref[k.col] = i
      BY <1>3, <1>5, <2>4 DEF Lost
    <3>2. Last(revs', x, j).snap.ref[k.col] = i
      BY <2>1, <2>4, <3>1 DEF Explained, SameIn, Ids, NoId
    <3>3. Ended(revs', x, Last(revs', x, j))
      BY <2>2, <3>1, <3>2 DEF Ended, LostIn
    <3> QED BY <2>1, <2>4, <3>3 DEF Explained
  <2>5. CASE rows'[x][j] # NoRow
    <3> DEFINE snap == Last(revs', x, j).snap
    <3>1. rows[x][j] \in RowOf(x) /\ rows'[x][j] \in RowOf(x) /\ Without(x, rows[x][j], rows'[x][j], e, i)
      BY <1>2, <1>3, <2>5
    <3>2. /\ revs'[x][j] # <<>> /\ Last(revs', x, j).note # "deleted"
          /\ SameIn(revs', x, rows[x][j], snap)
      BY <1>3, <2>1, <2>5 DEF Explained
    <3>3. snap \in RowOf(x)
      <4>1. revs'[x][j] = revs[x][j] /\ revs[x][j] # <<>>
        BY <1>1, <1>5, <3>2 DEF Grows
      <4> QED BY <1>1, <4>1, LastRevision DEF Last
    <3>4. SameIn(revs', x, rows'[x][j], snap)
      BY <2>2, <3>1, <3>2, <3>3, DroppedExplained
    <3> QED BY <2>1, <2>5, <3>2, <3>4 DEF Explained
  <2> QED BY <2>3, <2>4, <2>5
<1> QED BY <1>4, <1>5

LEMMA StepHistories == HistInv /\ [Next]_inventoryVars => HistInv'
<1> SUFFICES ASSUME HistInv, [Next]_inventoryVars,
                    NEW x \in Entities, NEW j \in Ids
             PROVE  Explained(revs', x, j, rows'[x][j]) /\ Ordered(revs', x, j)
  BY StepShape DEF HistInv
<1>1. CASE UNCHANGED inventoryVars
  BY <1>1 DEF inventoryVars, HistInv
<1>2. ASSUME NEW e \in Entities, NEW i \in Ids, Create(e, i)
      PROVE  Explained(revs', x, j, rows'[x][j]) /\ Ordered(revs', x, j)
  <2>1. ~Exists(e, i)
    BY <1>2 DEF Create, IsNextRowid, Ids
  <2>2. PICK row \in RowOf(e) : rows' = [rows EXCEPT ![e][i] = row] /\ AddRevision(e, i, row, "created")
    BY <1>2 DEF Create, Forms
  <2> QED BY <2>1, <2>2, SaveExplained
<1>3. ASSUME NEW e \in Entities, NEW i \in Ids, Update(e, i)
      PROVE  Explained(revs', x, j, rows'[x][j]) /\ Ordered(revs', x, j)
  <2>1. Exists(e, i)
    BY <1>3 DEF Update
  <2>2. PICK row \in RowOf(e) : rows' = [rows EXCEPT ![e][i] = row] /\ AddRevision(e, i, row, "updated")
    BY <1>3 DEF Update, Forms
  <2> QED BY <2>1, <2>2, SaveExplained
<1>4. ASSUME NEW e \in Entities, NEW i \in Ids, Remove(e, i)
      PROVE  Explained(revs', x, j, rows'[x][j]) /\ Ordered(revs', x, j)
  BY <1>4, RemoveExplained
<1> QED BY <1>1, <1>2, <1>3, <1>4, KindsAssumption DEF Next

LEMMA InitHistories == Init => HistInv
<1> SUFFICES ASSUME Init, NEW e \in Entities, NEW i \in Ids
             PROVE  Explained(revs, e, i, rows[e][i]) /\ Ordered(revs, e, i)
  BY InitShape DEF HistInv
<1>1. rows[e][i] = NoRow /\ revs[e][i] = <<>>
  BY DEF Init
<1> QED BY <1>1 DEF Explained, Ordered

\* The operators of the properties, with those used here.
LEMMA SameRow ==
  ASSUME NEW e \in Entities, NEW row \in RowOf(e), NEW snap \in RowOf(e), SameIn(revs, e, row, snap)
  PROVE  SameButDropped(e, row, snap)
<1>1. [row EXCEPT !.ref = snap.ref, !.tags = snap.tags] = snap
  BY DEF SameIn, RowOf
<1> QED BY <1>1 DEF SameIn, SameButDropped, DeletedIn, WasDeleted

LEMMA SameEnd ==
  ASSUME NEW e \in Entities, NEW rev, Ended(revs, e, rev)
  PROVE  rev.note = "deleted" \/ LostWith(e, rev.snap)
BY DEF Ended, LostIn, LostWith, DeletedIn, WasDeleted

\* In every reachable state each row is what its newest revision says, but for
\* references to records deleted since, and each record that is gone has its
\* deletion, or that of a record it belonged to, in the history.
THEOREM HistoryCorrect == Spec => []HistoryExplains
<1>1. HistInv => HistoryExplains
  <2> SUFFICES ASSUME HistInv, NEW e \in Entities, NEW i \in Ids
               PROVE  IF Exists(e, i)
                      THEN /\ revs[e][i] # <<>> /\ Newest(e, i).note # "deleted"
                           /\ SameButDropped(e, rows[e][i], Newest(e, i).snap)
                      ELSE revs[e][i] # <<>> =>
                             Newest(e, i).note = "deleted" \/ LostWith(e, Newest(e, i).snap)
    BY DEF HistoryExplains
  <2>1. /\ Explained(revs, e, i, rows[e][i]) /\ Newest(e, i) = Last(revs, e, i)
        /\ Shape /\ Histories(revs)
    BY DEF HistInv, Newest, Last, Shape, TypeOK, Histories
  <2>2. CASE Exists(e, i)
    <3>1. rows[e][i] \in RowOf(e) /\ revs[e][i] # <<>>
      BY <2>1, <2>2, ShapeRow DEF Explained, Exists
    <3>2. Last(revs, e, i).snap \in RowOf(e)
      BY <2>1, <3>1, LastRevision
    <3> QED BY <2>1, <2>2, <3>1, <3>2, SameRow DEF Explained, Exists
  <2>3. CASE ~Exists(e, i)
    BY <2>1, <2>3, SameEnd DEF Explained, Exists
  <2> QED BY <2>2, <2>3
<1> QED BY <1>1, InitHistories, StepHistories, PTL DEF Spec

\* In every reachable state each history is a sequence of lives: it opens with
\* "created", and only a deletion lies before another "created".
THEOREM LivesCorrect == Spec => []LivesInOrder
<1>1. HistInv => LivesInOrder
  <2> SUFFICES ASSUME HistInv, NEW e \in Entities, NEW i \in Ids, NEW n \in DOMAIN revs[e][i]
               PROVE  LET rev == revs[e][i][n]
                          prev == revs[e][i][n - 1]
                      IN IF n = 1 THEN rev.note = "created"
                         ELSE /\ prev.note = "deleted" => rev.note = "created"
                              /\ rev.note = "created" =>
                                   prev.note = "deleted" \/ LostWith(e, prev.snap)
    BY DEF LivesInOrder
  <2>1. IF n = 1 THEN revs[e][i][n].note = "created"
        ELSE Follows(revs, e, revs[e][i][n - 1], revs[e][i][n])
    BY DEF HistInv, Ordered
  <2> QED BY <2>1, SameEnd DEF Follows
<1> QED BY <1>1, InitHistories, StepHistories, PTL DEF Spec
=============================================================================
