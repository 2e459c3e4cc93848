---------------------------- MODULE ConnectionForm ----------------------------
(***************************************************************************)
(* The form of one record, from the queries that fill it to the write it   *)
(* asks for (mountCRUD's new, edit and save), for the entity that has every*)
(* kind of field that matters: a connection, with its own validation on    *)
(* the values as they were posted (connections.go).  The queries of one    *)
(* page run one by one on the pool, and others write in between; devices   *)
(* stay, VLANs come and go, and their ids are used again.  The device end  *)
(* of the cable is fixed, and ports and notes, which only text is, left    *)
(* out: that a port is in use is one of the ways a write is refused.       *)
(***************************************************************************)
EXTENDS Naturals, FiniteSets

CONSTANTS
  Devices,    \* ids of devices
  Device,     \* the one at the device end
  VlanIds,    \* ids VLANs may have
  Spellings,  \* the ways a value is spelled: "plain", as forms are rendered,
              \* and others that parse makes the same of (" Access", "01")
  Blank,      \* an empty field, or SQL NULL
  NoRow       \* no such record

ASSUME FormAssumption ==
  /\ "plain" \in Spellings
  /\ Device \in Devices
  /\ Blank \notin Devices \cup VlanIds \cup {"Access", "Trunk"}

VARIABLES
  conn,   \* the stored connection, with its links, or NoRow
  vlans,  \* the ids of the VLANs there are
  form    \* the form, and the handler that fills or takes it

vars == <<conn, vlans, form>>

Modes == {"Access", "Trunk"}

\* What is stored: the row, and its links.
Row == [switch : Devices, mode : Modes, untagged : VlanIds \cup {Blank},
        tagged : SUBSET VlanIds]

ASSUME NoRowAssumption == NoRow \notin Row

\* What is posted: values with their spelling.  A tag is never blank.
Raw(values) == values \X Spellings
Plain(value) == <<value, "plain">>
Empty == Plain(Blank)
Values == [switch : Raw(Devices \cup {Blank}), mode : Raw(Modes \cup {Blank}),
           untagged : Raw(VlanIds \cup {Blank}), tagged : SUBSET Raw(VlanIds)]
Scalars == {"switch", "mode", "untagged"}

\* snapshot's values as the form shows them (str).
Spelt(row) ==
  [c \in Scalars \cup {"tagged"} |->
     IF c = "tagged" THEN {Plain(v) : v \in row.tagged} ELSE Plain(row[c])]

\* pc: closed; links, refs and multi while the page is made; open.  The rest of
\* a form but its values is history: read is the row it was filled from, until
\* the record or the form is changed, before the rows stored while that was
\* read, typed what was refused, and missed the VLANs that were gone since.
Closed == [pc |-> "closed"]
Opened(pc, new, values, row) ==
  [pc |-> pc, new |-> new, values |-> values, read |-> row, before |-> {row},
   typed |-> {}, missed |-> {}]

At(pc) == form.pc = pc

-----------------------------------------------------------------------------
(* Filling the form. *)

\* new: the defaults, and what the query string asks for.
OpenNew ==
  /\ At("closed")
  /\ \E values \in [switch : {Plain(d) : d \in Devices \cup {Blank}},
                    mode : {Plain(m) : m \in Modes},
                    untagged : {Plain(v) : v \in VlanIds \cup {Blank}},
                    tagged : {{}}] :
       form' = Opened("refs", TRUE, values, NoRow)
  /\ UNCHANGED <<conn, vlans>>

\* edit: snapshot reads the row, and in a query of its own the links.
OpenEdit ==
  /\ At("closed") /\ conn # NoRow
  /\ form' = Opened("links", FALSE, Spelt(conn), conn)
  /\ UNCHANGED <<conn, vlans>>

ReadLinks ==
  /\ At("links")
  /\ LET links == IF conn = NoRow THEN {} ELSE conn.tagged IN
       form' = [form EXCEPT !.pc = "refs", !.read.tagged = links,
                            !.values.tagged = {Plain(v) : v \in links}]
  /\ UNCHANGED <<conn, vlans>>

\* Of a reference, and of links, a form has what choices found there is; the
\* options are compared as strings.
Offered == {Plain(v) : v \in vlans}

\* Mutant: no option of a reference is ever selected.
Selected_None(ref) == Empty
Selected(ref) == IF ref \in Offered THEN ref ELSE Empty

ChooseRef ==
  /\ At("refs")
  /\ form' = [form EXCEPT !.pc = "multi",
                !.values.untagged = Selected(@),
                !.read = IF form.before = {@} THEN @ ELSE NoRow, !.before = {}]
  /\ UNCHANGED <<conn, vlans>>

Ticked(tagged) == tagged \cap Offered

ChooseMulti ==
  /\ At("multi")
  /\ form' = [form EXCEPT !.pc = "open", !.values.tagged = Ticked(@)]
  /\ UNCHANGED <<conn, vlans>>

\* The user changes the form; what it was filled from is then forgotten.
\* An option or a box is plain; what the network carries need not be.
Fill ==
  /\ At("open")
  /\ \E values \in Values :
       /\ values.untagged \in Offered \cup Raw({Blank})
       /\ form' = [form EXCEPT !.values = values, !.read = NoRow, !.typed = {},
                               !.missed = {}]
  /\ UNCHANGED <<conn, vlans>>

-----------------------------------------------------------------------------
(* Taking the form. *)

\* parse, and ParseInt of the links.
Parsed(values) ==
  [c \in Scalars \cup {"tagged"} |->
     IF c = "tagged" THEN {v[1] : v \in values.tagged} ELSE values[c][1]]

Required(values) == \A c \in {"switch", "mode"} : values[c][1] # Blank

\* validateConnection compares what was posted.
validateConnection(values) ==
  /\ values.switch # Plain(Device)
  /\ values.mode = Plain("Access") => values.untagged # Empty /\ values.tagged = {}
  /\ values.mode = Plain("Trunk") =>
       /\ values.tagged # {}
       /\ values.untagged # Empty => values.untagged \notin values.tagged

\* The schema: the CHECK, and the foreign keys.
Storable(row) ==
  /\ row.switch # Device
  /\ row.untagged \in vlans \cup {Blank} /\ row.tagged \subseteq vlans

\* The record becomes row while the form is open.
StoreElsewhere(row) ==
  /\ conn' = row
  /\ form' = IF At("closed") \/ row = conn THEN form
             ELSE IF At("links") THEN [form EXCEPT !.before = @ \cup {row}]
             ELSE [form EXCEPT !.read = NoRow]

FormValid(values) == Required(values) /\ validateConnection(values)
Accepted(values) == FormValid(values) /\ Storable(Parsed(values))

\* save: the record is written, and the list is shown.  Of several records the
\* model follows one.
Save ==
  /\ At("open")
  /\ Accepted(form.values)
  /\ form.new <=> conn = NoRow
  /\ conn' = Parsed(form.values)
  /\ form' = Closed
  /\ UNCHANGED vlans

\* Mutant: the form is shown again as it was opened.
Refuse_FromRow(values) == IF conn = NoRow THEN values ELSE Spelt(conn)
Refuse(values) == values

\* A refusal, by parse, Validate or a constraint (any port may be in use), shows
\* the form again with what was posted.
SaveRefused ==
  /\ At("open")
  /\ FormValid(form.values) => form.new \/ conn # NoRow
  /\ form' = [form EXCEPT !.pc = "refs", !.values = Refuse(@), !.read = NoRow,
                           !.before = {}, !.typed = {form.values},
                           !.missed = VlanIds \ vlans]
  /\ UNCHANGED <<conn, vlans>>

\* The record is gone: not found, whatever its constraints would say.
SaveGone ==
  /\ At("open") /\ ~form.new /\ conn = NoRow
  /\ FormValid(form.values)
  /\ form' = Closed
  /\ UNCHANGED <<conn, vlans>>

Cancel ==
  /\ ~At("closed")
  /\ form' = Closed
  /\ UNCHANGED <<conn, vlans>>

-----------------------------------------------------------------------------
(* Others: a form elsewhere is saved, the record or a VLAN is deleted, a VLAN *)
(* is created.                                                                *)
SaveElsewhere ==
  /\ \E row \in Row :
       /\ Accepted(Spelt(row)) /\ row # conn
       /\ StoreElsewhere(row)
  /\ UNCHANGED vlans

DeleteElsewhere ==
  /\ conn # NoRow
  /\ StoreElsewhere(NoRow)
  /\ UNCHANGED vlans

AddVlan ==
  /\ \E v \in VlanIds \ vlans : vlans' = vlans \cup {v}
  /\ UNCHANGED <<conn, form>>

DeleteVlan ==
  \E v \in vlans :
    /\ vlans' = vlans \ {v}
    /\ conn' = IF conn = NoRow THEN NoRow
               ELSE [conn EXCEPT !.untagged = IF @ = v THEN Blank ELSE @,
                                 !.tagged = @ \ {v}]
    /\ form' =
         CASE At("closed") -> form
           [] At("links") -> [form EXCEPT !.before = @ \cup {conn'}]
           [] At("refs") \/ At("multi") ->
                [form EXCEPT !.read = IF conn' = conn THEN @ ELSE NoRow,
                             !.missed = IF form.typed = {} THEN @ ELSE @ \cup {v}]
           [] At("open") -> [form EXCEPT !.read = IF conn' = conn THEN @ ELSE NoRow]

Init == conn = NoRow /\ vlans = {} /\ form = Closed

Next ==
  \/ OpenNew \/ OpenEdit \/ ReadLinks \/ ChooseRef \/ ChooseMulti \/ Fill
  \/ Save \/ SaveRefused \/ SaveGone \/ Cancel
  \/ SaveElsewhere \/ DeleteElsewhere \/ AddVlan \/ DeleteVlan

Spec == Init /\ [][Next]_vars

-----------------------------------------------------------------------------
(* The record and the form have their shape, and no reference of the record *)
(* dangles.                                                                  *)
TypeOK ==
  /\ conn \in Row \cup {NoRow}
  /\ vlans \subseteq VlanIds
  /\ conn # NoRow => conn.untagged \in vlans \cup {Blank} /\ conn.tagged \subseteq vlans
  /\ \/ form = Closed
     \/ /\ form.pc \in {"links", "refs", "multi", "open"}
        /\ form.values \in Values
        /\ form.new \in BOOLEAN /\ form.read \in Row \cup {NoRow}
        /\ form.typed \subseteq Values /\ form.missed \subseteq VlanIds
        /\ form.before \subseteq Row \cup {NoRow}

\* An access port has its one VLAN, a trunk's native VLAN is not tagged.  Of
\* what is saved it does not hold: what was validated is the posted strings, and
\* one id can be spelled in two ways (validateConnection, parse).
Sound(row) ==
  /\ row.mode = "Access" => row.untagged # Blank /\ row.tagged = {}
  /\ row.mode = "Trunk" => row.tagged # {} /\ row.untagged \notin row.tagged
SavedSound == [][Save => Sound(conn')]_vars

\* An edit form that is saved as it came changes nothing of a record that is
\* what it was when the form was filled (edit, choices, parse): every box and
\* option of it was set.
UntouchedSaveIsQuiet ==
  [][Save /\ form.read # NoRow => UNCHANGED conn]_vars

\* The record's references hold, and a refused form is shown with what was
\* typed, but for VLANs that are gone (save, renderForm).
RefusalKeepsInput ==
  TypeOK /\ (At("open") => \A typed \in form.typed :
    /\ \A c \in Scalars \ {"untagged"} : form.values[c] = typed[c]
    /\ form.values.untagged # typed.untagged => typed.untagged[1] \in form.missed
    /\ form.values.tagged \subseteq typed.tagged
    /\ \A v \in typed.tagged \ form.values.tagged : v[1] \in form.missed)

\* What an edit form is filled from was stored at some time while it was read
\* (snapshot).
FilledFromStored ==
  At("refs") /\ ~form.new /\ form.typed = {} /\ form.read # NoRow =>
    form.read \in form.before
=============================================================================
