------------------------- MODULE ConnectionFormProofs -------------------------
(* Machine-checked theorems about ConnectionForm. *)
EXTENDS ConnectionForm, TLAPS

-----------------------------------------------------------------------------
(* Spelling and parsing. *)

Fields == {"switch", "mode", "untagged", "tagged"}

LEMMA SpeltRow ==
  ASSUME NEW row \in Row
  PROVE  /\ Spelt(row) \in Values
         /\ Spelt(row).switch = Plain(row.switch) /\ Spelt(row).mode = Plain(row.mode)
         /\ Spelt(row).untagged = Plain(row.untagged)
         /\ Spelt(row).tagged = {Plain(v) : v \in row.tagged}
<1> DEFINE s == Spelt(row)
<1>1. s = [c \in Fields |-> IF c = "tagged" THEN {Plain(v) : v \in row.tagged} ELSE Plain(row[c])]
  BY DEF Spelt, Scalars, Fields
<1>2. /\ s.switch = Plain(row.switch) /\ s.mode = Plain(row.mode)
      /\ s.untagged = Plain(row.untagged) /\ s.tagged = {Plain(v) : v \in row.tagged}
  BY <1>1 DEF Fields
<1>3. /\ row.switch \in Devices /\ row.mode \in Modes
      /\ row.untagged \in VlanIds \cup {Blank} /\ row.tagged \subseteq VlanIds
  BY DEF Row
<1>4. /\ s.switch \in Raw(Devices \cup {Blank}) /\ s.mode \in Raw(Modes \cup {Blank})
      /\ s.untagged \in Raw(VlanIds \cup {Blank}) /\ s.tagged \in SUBSET Raw(VlanIds)
  BY <1>2, <1>3, FormAssumption DEF Plain, Raw
<1>5. s = [switch |-> s.switch, mode |-> s.mode, untagged |-> s.untagged, tagged |-> s.tagged]
  BY <1>1 DEF Fields
<1> QED BY <1>2, <1>4, <1>5 DEF Values

LEMMA ParsedValues ==
  ASSUME NEW values \in Values
  PROVE  /\ Parsed(values).switch = values.switch[1] /\ Parsed(values).mode = values.mode[1]
         /\ Parsed(values).untagged = values.untagged[1]
         /\ Parsed(values).tagged = {v[1] : v \in values.tagged}
         /\ Required(values) => Parsed(values) \in Row
<1> DEFINE p == Parsed(values)
<1>1. p = [c \in Fields |-> IF c = "tagged" THEN {v[1] : v \in values.tagged} ELSE values[c][1]]
  BY DEF Parsed, Scalars, Fields
<1>2. /\ p.switch = values.switch[1] /\ p.mode = values.mode[1]
      /\ p.untagged = values.untagged[1] /\ p.tagged = {v[1] : v \in values.tagged}
  BY <1>1 DEF Fields
<1>3. /\ values.switch \in (Devices \cup {Blank}) \X Spellings
      /\ values.mode \in (Modes \cup {Blank}) \X Spellings
      /\ values.untagged \in (VlanIds \cup {Blank}) \X Spellings
      /\ values.tagged \in SUBSET (VlanIds \X Spellings)
  BY DEF Values, Raw
<1>4. p = [switch |-> p.switch, mode |-> p.mode, untagged |-> p.untagged, tagged |-> p.tagged]
  BY <1>1 DEF Fields
<1>5. ASSUME Required(values) PROVE p \in Row
  <2>1. /\ p.switch \in Devices /\ p.mode \in Modes
        /\ p.untagged \in VlanIds \cup {Blank} /\ p.tagged \in SUBSET VlanIds
    BY <1>2, <1>3, <1>5 DEF Required
  <2> HIDE DEF p
  <2> QED BY <1>4, <2>1 DEF Row
<1> QED BY <1>2, <1>5

\* parse undoes str.
LEMMA RoundTrip ==
  ASSUME NEW row \in Row
  PROVE  Parsed(Spelt(row)) = row
<1> DEFINE s == Spelt(row)
           p == Parsed(s)
<1>1. /\ p.switch = row.switch /\ p.mode = row.mode /\ p.untagged = row.untagged
      /\ p.tagged = row.tagged
  <2>1. /\ s \in Values /\ s.switch = Plain(row.switch) /\ s.mode = Plain(row.mode)
        /\ s.untagged = Plain(row.untagged) /\ s.tagged = {Plain(v) : v \in row.tagged}
    BY SpeltRow
  <2> HIDE DEF s
  <2>2. /\ p.switch = s.switch[1] /\ p.mode = s.mode[1] /\ p.untagged = s.untagged[1]
        /\ p.tagged = {v[1] : v \in s.tagged}
    BY <2>1, ParsedValues
  <2>3. {v[1] : v \in s.tagged} = row.tagged
    <3>1. ASSUME NEW v \in row.tagged PROVE v \in {x[1] : x \in s.tagged}
      <4>1. Plain(v) \in s.tagged /\ Plain(v)[1] = v
        BY <2>1 DEF Plain
      <4> QED BY <4>1
    <3>2. ASSUME NEW x \in s.tagged PROVE x[1] \in row.tagged
      BY <2>1 DEF Plain
    <3> QED BY <3>1, <3>2
  <2> HIDE DEF p
  <2> QED BY <2>1, <2>2, <2>3 DEF Plain
<1>2. p \in Row
  <2>1. row.switch # Blank /\ row.mode # Blank
    BY FormAssumption DEF Row, Modes
  <2>2. Required(Spelt(row))
    BY <2>1, SpeltRow DEF Required, Plain
  <2> QED BY <2>2, SpeltRow, ParsedValues
<1>3. Parsed(Spelt(row)) = p
  OBVIOUS
<1> HIDE DEF p
<1> QED BY <1>1, <1>2, <1>3 DEF Row

LEMMA SameValues ==
  ASSUME NEW a \in Values, NEW b \in Values,
         a.switch = b.switch, a.mode = b.mode, a.untagged = b.untagged, a.tagged = b.tagged
  PROVE  a = b
BY DEF Values

-----------------------------------------------------------------------------
(* The inductive invariant. *)

OpenForm ==
  [pc : {"links", "refs", "multi", "open"}, new : BOOLEAN, values : Values,
   read : Row \cup {NoRow}, before : SUBSET (Row \cup {NoRow}),
   typed : SUBSET Values, missed : SUBSET VlanIds]

Tables ==
  /\ conn \in Row \cup {NoRow} /\ vlans \subseteq VlanIds
  /\ conn # NoRow => conn.untagged \in vlans \cup {Blank} /\ conn.tagged \subseteq vlans

\* What a form was filled from, while it is filled and until it is changed: by
\* the time all is read the row is still the stored one, or was forgotten.
FilledFrom ==
  /\ At("links") => /\ form.values = Spelt(form.read) /\ form.read # NoRow
                    /\ conn \in form.before /\ form.typed = {}
  /\ At("refs") /\ form.read # NoRow =>
       form.values = Spelt(form.read) /\ (form.before = {form.read} => conn = form.read)
  /\ (At("multi") \/ At("open")) /\ form.read # NoRow =>
       form.values = Spelt(form.read) /\ conn = form.read

\* What was refused, and how much of it the form has: missed holds all VLANs
\* that were gone at some time since.
KeptOf(typed) ==
  /\ At("refs") \/ At("multi") => VlanIds \ vlans \subseteq form.missed
  /\ At("refs") => form.values = typed
  /\ At("multi") => form.values.tagged = typed.tagged
  /\ At("multi") \/ At("open") =>
       /\ form.values.switch = typed.switch /\ form.values.mode = typed.mode
       /\ form.values.untagged # typed.untagged => typed.untagged[1] \in form.missed
  /\ At("open") =>
       /\ form.values.tagged \subseteq typed.tagged
       /\ \A v \in typed.tagged \ form.values.tagged : v[1] \in form.missed

Kept == Spellings = {"plain"} => \A typed \in form.typed : KeptOf(typed)

FormInv ==
  Tables /\ (form = Closed \/ (form \in OpenForm /\ FilledFrom /\ Kept))

LEMMA ClosedForm == Closed.pc = "closed" /\ \A f \in OpenForm : f.pc # "closed"
BY DEF Closed, OpenForm

LEMMA OpenNewInv ==
  ASSUME FormInv, OpenNew
  PROVE  FormInv'
<1>1. PICK values \in [switch : {Plain(d) : d \in Devices \cup {Blank}},
                       mode : {Plain(m) : m \in Modes},
                       untagged : {Plain(v) : v \in VlanIds \cup {Blank}},
                       tagged : {{}}] :
        form' = Opened("refs", TRUE, values, NoRow)
  BY DEF OpenNew
<1>2. values \in Values
  <2>1. /\ values.switch \in Raw(Devices \cup {Blank}) /\ values.mode \in Raw(Modes \cup {Blank})
        /\ values.untagged \in Raw(VlanIds \cup {Blank}) /\ values.tagged \in SUBSET Raw(VlanIds)
    BY FormAssumption DEF Plain, Raw
  <2> QED BY <2>1 DEF Values
<1>3. /\ form' \in OpenForm /\ form'.pc = "refs" /\ form'.read = NoRow /\ form'.typed = {}
  <2>1. {NoRow} \in SUBSET (Row \cup {NoRow}) /\ {} \in SUBSET Values /\ {} \in SUBSET VlanIds
    OBVIOUS
  <2> QED BY <1>1, <1>2, <2>1 DEF Opened, OpenForm
<1>4. Tables' /\ FilledFrom' /\ Kept'
  BY <1>3 DEF OpenNew, FormInv, Tables, FilledFrom, Kept, At
<1> QED BY <1>3, <1>4 DEF FormInv

LEMMA OpenEditInv ==
  ASSUME FormInv, OpenEdit
  PROVE  FormInv'
<1>1. conn \in Row /\ UNCHANGED <<conn, vlans>> /\ form' = Opened("links", FALSE, Spelt(conn), conn)
  BY DEF OpenEdit, FormInv, Tables
<1>2. /\ form' \in OpenForm /\ form'.pc = "links" /\ form'.values = Spelt(conn)
      /\ form'.read = conn /\ form'.before = {conn} /\ form'.typed = {}
  <2>1. /\ Spelt(conn) \in Values /\ {conn} \in SUBSET (Row \cup {NoRow})
        /\ {} \in SUBSET Values /\ {} \in SUBSET VlanIds
    BY <1>1, SpeltRow
  <2> QED BY <1>1, <2>1 DEF Opened, OpenForm
<1>3. FilledFrom' /\ Kept'
  BY <1>1, <1>2, NoRowAssumption DEF FilledFrom, Kept, At
<1> QED BY <1>1, <1>2, <1>3 DEF FormInv, Tables

LEMMA ReadLinksInv ==
  ASSUME FormInv, ReadLinks
  PROVE  FormInv'
<1> DEFINE links == IF conn = NoRow THEN {} ELSE conn.tagged
           row == [form.read EXCEPT !.tagged = links]
<1>1. /\ form.pc = "links" /\ form \in OpenForm /\ UNCHANGED <<conn, vlans>>
      /\ form' = [form EXCEPT !.pc = "refs", !.read.tagged = links,
                              !.values.tagged = {Plain(v) : v \in links}]
      /\ form.values = Spelt(form.read) /\ form.read \in Row
      /\ conn \in form.before /\ form.typed = {} /\ Tables
  BY ClosedForm DEF ReadLinks, At, FormInv, FilledFrom, OpenForm
<1>2. links \subseteq VlanIds
  BY <1>1 DEF Tables, Row
<1>3. /\ row \in Row /\ row.tagged = links /\ row.switch = form.read.switch
      /\ row.mode = form.read.mode /\ row.untagged = form.read.untagged
  BY <1>1, <1>2 DEF Row
<1>4. [form.values EXCEPT !.tagged = {Plain(v) : v \in links}] = Spelt(row)
  <2> DEFINE tags == {Plain(v) : v \in links}
             spelt == [form.values EXCEPT !.tagged = tags]
  <2>1. /\ form.values \in Values /\ form.values.switch = Plain(form.read.switch)
        /\ form.values.mode = Plain(form.read.mode)
        /\ form.values.untagged = Plain(form.read.untagged)
    BY <1>1, SpeltRow
  <2>2. /\ Spelt(row) \in Values /\ Spelt(row).switch = Plain(row.switch)
        /\ Spelt(row).mode = Plain(row.mode) /\ Spelt(row).untagged = Plain(row.untagged)
        /\ Spelt(row).tagged = {Plain(v) : v \in row.tagged}
    BY <1>3, SpeltRow
  <2>3. tags = {Plain(v) : v \in row.tagged} /\ tags \in SUBSET Raw(VlanIds)
    BY <1>2, <1>3, FormAssumption DEF Plain, Raw
  <2> HIDE DEF row, links, tags
  <2>4. /\ spelt \in Values /\ spelt.switch = form.values.switch /\ spelt.mode = form.values.mode
        /\ spelt.untagged = form.values.untagged /\ spelt.tagged = tags
    BY <2>1, <2>3 DEF Values
  <2> HIDE DEF spelt
  <2>5. spelt = Spelt(row)
    BY <1>3, <2>1, <2>2, <2>3, <2>4, SameValues
  <2> QED BY <2>5 DEF spelt, tags
<1>5. /\ form' \in OpenForm /\ form'.pc = "refs" /\ form'.values = Spelt(row)
      /\ form'.read = row /\ form'.before = form.before /\ form'.typed = {}
  <2>1. form' = [form EXCEPT !.pc = "refs", !.read = row, !.values = Spelt(row)]
    BY <1>1, <1>4
  <2> HIDE DEF row, links
  <2>2. row \in Row /\ Spelt(row) \in Values
    BY <1>3, SpeltRow
  <2> QED BY <1>1, <2>1, <2>2 DEF OpenForm
<1>6. FilledFrom' /\ Kept'
  <2> HIDE DEF row, links
  <2> QED BY <1>1, <1>5 DEF FilledFrom, Kept, At
<1> QED BY <1>1, <1>5, <1>6 DEF FormInv, Tables

\* An option is offered for every reference that holds.
LEMMA SelectedValue ==
  ASSUME Tables, NEW ref \in Raw(VlanIds \cup {Blank})
  PROVE  /\ Selected(ref) \in Raw(VlanIds \cup {Blank})
         /\ \A v \in vlans \cup {Blank} : ref = Plain(v) => Selected(ref) = ref
         /\ Spellings = {"plain"} /\ Selected(ref) # ref => ref[1] \in VlanIds \ vlans
<1>1. Selected(ref) = ref \/ (Selected(ref) = Empty /\ ref \notin Offered)
  BY DEF Selected
<1>2. Empty \in Raw(VlanIds \cup {Blank})
  BY FormAssumption DEF Empty, Plain, Raw
<1>3. ASSUME NEW v \in vlans \cup {Blank}, ref = Plain(v) PROVE Selected(ref) = ref
  BY <1>1, <1>3 DEF Offered, Empty
<1>4. ASSUME Spellings = {"plain"}, Selected(ref) # ref PROVE ref[1] \in VlanIds \ vlans
  <2>1. ref = Plain(ref[1]) /\ ref[1] \in VlanIds \cup {Blank}
    BY <1>4 DEF Raw, Plain
  <2> QED BY <1>3, <1>4, <2>1
<1> QED BY <1>1, <1>2, <1>3, <1>4

LEMMA ChooseRefInv ==
  ASSUME FormInv, ChooseRef
  PROVE  FormInv'
<1> DEFINE old == form.values
           ref == old.untagged
           new == [old EXCEPT !.untagged = Selected(ref)]
           read == IF form.before = {form.read} THEN form.read ELSE NoRow
<1>1. /\ form.pc = "refs" /\ form \in OpenForm /\ UNCHANGED <<conn, vlans>> /\ Tables
      /\ form' = [form EXCEPT !.pc = "multi", !.values.untagged = Selected(@),
                    !.read = IF form.before = {@} THEN @ ELSE NoRow, !.before = {}]
      /\ FilledFrom /\ Kept
  BY ClosedForm DEF ChooseRef, At, FormInv
<1>2. /\ old \in Values /\ ref \in Raw(VlanIds \cup {Blank})
      /\ form.read \in Row \cup {NoRow} /\ read \in Row \cup {NoRow}
  BY <1>1 DEF OpenForm, Values
<1>3. Selected(ref) \in Raw(VlanIds \cup {Blank})
  BY <1>1, <1>2, SelectedValue
<1>4. /\ new \in Values /\ new.switch = old.switch /\ new.mode = old.mode
      /\ new.untagged = Selected(ref) /\ new.tagged = old.tagged
  BY <1>2, <1>3 DEF Values
<1>5. form' = [form EXCEPT !.pc = "multi", !.values = new, !.read = read, !.before = {}]
  BY <1>1
<1> HIDE DEF new, read
<1>6. /\ form' \in OpenForm /\ form'.pc = "multi" /\ form'.values = new /\ form'.read = read
      /\ form'.typed = form.typed /\ form'.missed = form.missed
  <2>1. {} \in SUBSET (Row \cup {NoRow})
    OBVIOUS
  <2> QED BY <1>1, <1>2, <1>4, <1>5, <2>1 DEF OpenForm
<1>7. ASSUME read # NoRow PROVE new = Spelt(read) /\ conn = read
  <2>1. read = form.read /\ conn = read /\ old = Spelt(read) /\ conn \in Row
    BY <1>1, <1>2, <1>7 DEF FilledFrom, At, read
  <2>2. ref = Plain(conn.untagged) /\ conn.untagged \in vlans \cup {Blank}
    BY <1>1, <1>7, <2>1, SpeltRow DEF Tables
  <2>3. Selected(ref) = ref
    BY <1>1, <1>2, <2>2, SelectedValue
  <2>4. new = old
    BY <1>2, <1>4, <2>3, SameValues
  <2> QED BY <2>1, <2>4
<1>8. ASSUME Spellings = {"plain"}, NEW typed \in form.typed PROVE KeptOf(typed)'
  <2>1. old = typed /\ VlanIds \ vlans \subseteq form.missed
    BY <1>1, <1>8 DEF Kept, KeptOf, At
  <2>2. new.untagged # typed.untagged => typed.untagged[1] \in form.missed
    BY <1>1, <1>2, <1>4, <1>8, <2>1, SelectedValue
  <2> QED BY <1>1, <1>4, <1>6, <2>1, <2>2 DEF KeptOf, At
<1>9. FilledFrom' /\ Kept' /\ Tables'
  BY <1>1, <1>6, <1>7, <1>8 DEF FilledFrom, Kept, Tables, At
<1> QED BY <1>6, <1>9 DEF FormInv

LEMMA ChooseMultiInv ==
  ASSUME FormInv, ChooseMulti
  PROVE  FormInv'
<1> DEFINE old == form.values
           tags == Ticked(old.tagged)
           new == [old EXCEPT !.tagged = tags]
<1>1. /\ form.pc = "multi" /\ form \in OpenForm /\ UNCHANGED <<conn, vlans>> /\ Tables
      /\ form' = [form EXCEPT !.pc = "open", !.values.tagged = Ticked(@)]
      /\ FilledFrom /\ Kept
  BY ClosedForm DEF ChooseMulti, At, FormInv
<1>2. /\ old \in Values /\ old.tagged \in SUBSET Raw(VlanIds) /\ form.read \in Row \cup {NoRow}
  BY <1>1 DEF OpenForm, Values
<1>3. tags \in SUBSET Raw(VlanIds) /\ tags \subseteq old.tagged
  BY <1>2 DEF Ticked
<1>4. /\ new \in Values /\ new.switch = old.switch /\ new.mode = old.mode
      /\ new.untagged = old.untagged /\ new.tagged = tags
  <2> HIDE DEF tags
  <2> QED BY <1>2, <1>3 DEF Values
<1>5. form' = [form EXCEPT !.pc = "open", !.values = new]
  BY <1>1
<1> HIDE DEF new
<1>6. /\ form' \in OpenForm /\ form'.pc = "open" /\ form'.values = new /\ form'.read = form.read
      /\ form'.typed = form.typed /\ form'.missed = form.missed
  BY <1>1, <1>2, <1>4, <1>5 DEF OpenForm
<1>7. ASSUME form.read # NoRow PROVE new = Spelt(form.read) /\ conn = form.read
  <2>1. conn = form.read /\ old = Spelt(conn) /\ conn \in Row
    BY <1>1, <1>2, <1>7 DEF FilledFrom, At
  <2>2. old.tagged = {Plain(v) : v \in conn.tagged} /\ conn.tagged \subseteq vlans
    BY <1>1, <1>7, <2>1, SpeltRow DEF Tables
  <2>3. tags = old.tagged
    BY <2>2 DEF Ticked, Offered
  <2>4. new = old
    BY <1>2, <1>4, <2>3, SameValues
  <2> QED BY <2>1, <2>4
<1>8. ASSUME Spellings = {"plain"}, NEW typed \in form.typed PROVE KeptOf(typed)'
  <2>1. /\ old.tagged = typed.tagged /\ VlanIds \ vlans \subseteq form.missed
        /\ old.switch = typed.switch /\ old.mode = typed.mode
        /\ old.untagged # typed.untagged => typed.untagged[1] \in form.missed
    BY <1>1, <1>8 DEF Kept, KeptOf, At
  <2>2. ASSUME NEW v \in typed.tagged \ tags PROVE v[1] \in form.missed
    <3>1. v = Plain(v[1]) /\ v[1] \in VlanIds /\ v \notin Offered
      BY <1>2, <1>8, <2>1, <2>2 DEF Raw, Plain, Ticked
    <3> QED BY <2>1, <3>1 DEF Offered
  <2> QED BY <1>1, <1>3, <1>4, <1>6, <2>1, <2>2 DEF KeptOf, At
<1>9. FilledFrom' /\ Kept' /\ Tables'
  BY <1>1, <1>6, <1>7, <1>8 DEF FilledFrom, Kept, Tables, At
<1> QED BY <1>6, <1>9 DEF FormInv

LEMMA FillInv ==
  ASSUME FormInv, Fill
  PROVE  FormInv'
<1>1. /\ form.pc = "open" /\ form \in OpenForm /\ UNCHANGED <<conn, vlans>> /\ Tables
  BY ClosedForm DEF Fill, At, FormInv
<1>2. PICK values \in Values :
        form' = [form EXCEPT !.values = values, !.read = NoRow, !.typed = {}, !.missed = {}]
  BY DEF Fill
<1>3. form' \in OpenForm /\ form'.pc = "open" /\ form'.read = NoRow /\ form'.typed = {}
  <2>1. {} \in SUBSET Values /\ {} \in SUBSET VlanIds
    OBVIOUS
  <2> QED BY <1>1, <1>2, <2>1 DEF OpenForm
<1> QED BY <1>1, <1>3 DEF FormInv, Tables, FilledFrom, Kept, At

\* What is saved is a row of the table, and its references hold.
LEMMA SavedRow ==
  ASSUME NEW values \in Values, Accepted(values), vlans \subseteq VlanIds
  PROVE  /\ Parsed(values) \in Row
         /\ Parsed(values).untagged \in vlans \cup {Blank} /\ Parsed(values).tagged \subseteq vlans
BY ParsedValues DEF Accepted, FormValid, Storable

LEMMA SaveInv ==
  ASSUME FormInv, Save
  PROVE  FormInv'
<1>1. /\ form.values \in Values /\ Accepted(form.values) /\ conn' = Parsed(form.values)
      /\ form' = Closed /\ vlans' = vlans /\ vlans \subseteq VlanIds
  BY ClosedForm DEF Save, At, FormInv, OpenForm, Tables
<1> QED BY <1>1, SavedRow DEF FormInv, Tables

LEMMA SaveRefusedInv ==
  ASSUME FormInv, SaveRefused
  PROVE  FormInv'
<1>1. /\ form.pc = "open" /\ form \in OpenForm /\ UNCHANGED <<conn, vlans>> /\ Tables
      /\ form' = [form EXCEPT !.pc = "refs", !.values = Refuse(@), !.read = NoRow,
                              !.before = {}, !.typed = {form.values}, !.missed = VlanIds \ vlans]
  BY ClosedForm DEF SaveRefused, At, FormInv
<1>2. /\ form' \in OpenForm /\ form'.pc = "refs" /\ form'.read = NoRow
      /\ form'.values = form.values /\ form'.typed = {form.values}
      /\ form'.missed = VlanIds \ vlans
  <2>1. /\ form.values \in Values /\ {form.values} \in SUBSET Values /\ VlanIds \ vlans \in SUBSET VlanIds
        /\ {} \in SUBSET (Row \cup {NoRow}) /\ Refuse(form.values) = form.values
    BY <1>1 DEF OpenForm, Refuse
  <2> QED BY <1>1, <2>1 DEF OpenForm
<1>3. FilledFrom' /\ Kept' /\ Tables'
  BY <1>1, <1>2 DEF FilledFrom, Kept, KeptOf, Tables, At
<1> QED BY <1>2, <1>3 DEF FormInv

\* Another form of the record is saved, or the record deleted.
LEMMA ElsewhereInv ==
  ASSUME FormInv, NEW row \in Row \cup {NoRow}, StoreElsewhere(row), UNCHANGED vlans,
         row # NoRow => row.untagged \in vlans \cup {Blank} /\ row.tagged \subseteq vlans
  PROVE  FormInv'
<1>1. conn' = row /\ Tables /\ Tables'
  BY DEF StoreElsewhere, Tables, FormInv
<1>2. CASE form = Closed
  BY <1>1, <1>2, ClosedForm DEF StoreElsewhere, At, FormInv
<1>3. CASE form \in OpenForm /\ FilledFrom /\ Kept
  <2>1. form.pc # "closed"
    BY <1>3, ClosedForm
  <2>2. CASE row = conn
    <3>1. form' = form /\ conn' = conn
      BY <2>2 DEF StoreElsewhere
    <3> QED BY <1>1, <1>3, <3>1 DEF FormInv, FilledFrom, Kept, KeptOf, At
  <2>3. CASE row # conn /\ form.pc = "links"
    <3>1. form' = [form EXCEPT !.before = @ \cup {row}]
      BY <2>3 DEF StoreElsewhere, At
    <3>2. form.before \cup {row} \in SUBSET (Row \cup {NoRow})
      BY <1>3 DEF OpenForm
    <3>3. /\ form' \in OpenForm /\ form'.pc = "links" /\ form'.values = form.values
          /\ form'.read = form.read /\ form'.before = form.before \cup {row} /\ form'.typed = form.typed
      BY <1>3, <2>3, <3>1, <3>2 DEF OpenForm
    <3> QED BY <1>1, <1>3, <2>3, <3>3 DEF FormInv, FilledFrom, Kept, At
  <2>4. CASE row # conn /\ form.pc # "links"
    <3>1. form' = [form EXCEPT !.read = NoRow]
      BY <2>1, <2>4 DEF StoreElsewhere, At
    <3>2. /\ form' \in OpenForm /\ form'.pc = form.pc /\ form'.values = form.values
          /\ form'.read = NoRow /\ form'.typed = form.typed /\ form'.missed = form.missed
      BY <1>3, <3>1 DEF OpenForm
    <3>3. FilledFrom' /\ Kept'
      BY <1>3, <2>4, <3>2 DEF FilledFrom, Kept, KeptOf, At
    <3> QED BY <1>1, <3>2, <3>3 DEF FormInv
  <2> QED BY <2>2, <2>3, <2>4
<1> QED BY <1>2, <1>3 DEF FormInv

LEMMA OthersInv ==
  ASSUME FormInv, SaveElsewhere \/ DeleteElsewhere
  PROVE  FormInv'
<1>1. ASSUME SaveElsewhere PROVE FormInv'
  <2>1. PICK row \in Row : Accepted(Spelt(row)) /\ StoreElsewhere(row)
    BY <1>1 DEF SaveElsewhere
  <2>2. row.untagged \in vlans \cup {Blank} /\ row.tagged \subseteq vlans
    BY <2>1, SpeltRow, SavedRow, RoundTrip DEF FormInv, Tables
  <2> QED BY <1>1, <2>1, <2>2, ElsewhereInv DEF SaveElsewhere
<1>2. ASSUME DeleteElsewhere PROVE FormInv'
  BY <1>2, ElsewhereInv DEF DeleteElsewhere
<1> QED BY <1>1, <1>2

LEMMA AddVlanInv ==
  ASSUME FormInv, AddVlan
  PROVE  FormInv'
<1>1. PICK v \in VlanIds \ vlans : vlans' = vlans \cup {v}
  BY DEF AddVlan
<1> QED BY <1>1 DEF AddVlan, FormInv, Tables, FilledFrom, Kept, KeptOf, At

\* A deletion drops the VLAN from the record, which is then another, and is
\* noted by a form that is shown again.
LEMMA DeleteVlanInv ==
  ASSUME FormInv, DeleteVlan
  PROVE  FormInv'
<1>1. PICK v \in vlans :
        /\ vlans' = vlans \ {v}
        /\ conn' = IF conn = NoRow THEN NoRow
                   ELSE [conn EXCEPT !.untagged = IF @ = v THEN Blank ELSE @, !.tagged = @ \ {v}]
        /\ form' =
             CASE At("closed") -> form
               [] At("links") -> [form EXCEPT !.before = @ \cup {conn'}]
               [] At("refs") \/ At("multi") ->
                    [form EXCEPT !.read = IF conn' = conn THEN @ ELSE NoRow,
                                 !.missed = IF form.typed = {} THEN @ ELSE @ \cup {v}]
               [] At("open") -> [form EXCEPT !.read = IF conn' = conn THEN @ ELSE NoRow]
  BY DEF DeleteVlan
<1>2. Tables /\ v \in VlanIds
  BY DEF FormInv, Tables
<1>3. Tables'
  <2>1. CASE conn = NoRow
    BY <1>1, <1>2, <2>1 DEF Tables
  <2>2. CASE conn # NoRow
    <3>1. /\ conn \in Row /\ conn' = [conn EXCEPT !.untagged = IF @ = v THEN Blank ELSE @, !.tagged = @ \ {v}]
      BY <1>1, <1>2, <2>2 DEF Tables
    <3>2. /\ conn' \in Row /\ conn'.tagged = conn.tagged \ {v}
          /\ conn'.untagged = IF conn.untagged = v THEN Blank ELSE conn.untagged
      BY <1>2, <3>1 DEF Row
    <3> QED BY <1>1, <1>2, <2>2, <3>2 DEF Tables
  <2> QED BY <2>1, <2>2
<1>4. conn' \in Row \cup {NoRow}
  BY <1>3 DEF Tables
<1>5. CASE form = Closed
  BY <1>1, <1>3, <1>5, ClosedForm DEF At, FormInv, Closed
<1>6. CASE form \in OpenForm /\ FilledFrom /\ Kept
  <2>1. CASE form.pc = "links"
    <3>1. form' = [form EXCEPT !.before = @ \cup {conn'}]
      BY <1>1, <2>1 DEF At
    <3>2. form.before \cup {conn'} \in SUBSET (Row \cup {NoRow})
      BY <1>4, <1>6 DEF OpenForm
    <3>3. /\ form' \in OpenForm /\ form'.pc = "links" /\ form'.values = form.values
          /\ form'.read = form.read /\ form'.before = form.before \cup {conn'} /\ form'.typed = form.typed
      BY <1>6, <2>1, <3>1, <3>2 DEF OpenForm
    <3> QED BY <1>3, <1>6, <2>1, <3>3 DEF FormInv, FilledFrom, Kept, At
  <2>2. CASE form.pc \in {"refs", "multi", "open"}
    <3> DEFINE read == IF conn' = conn THEN form.read ELSE NoRow
               missed == IF form.pc = "open" \/ form.typed = {} THEN form.missed ELSE form.missed \cup {v}
    <3>1. form' = [form EXCEPT !.read = read, !.missed = missed]
      <4>1. CASE form.pc = "open"
        <5>1. form' = [form EXCEPT !.read = read]
          BY <1>1, <4>1 DEF At
        <5>2. form = [form EXCEPT !.missed = form.missed]
          BY <1>6 DEF OpenForm
        <5> QED BY <1>6, <4>1, <5>1, <5>2 DEF OpenForm
      <4>2. CASE form.pc \in {"refs", "multi"}
        BY <1>1, <4>2 DEF At
      <4> QED BY <2>2, <4>1, <4>2
    <3>2. read \in Row \cup {NoRow} /\ missed \in SUBSET VlanIds
      BY <1>2, <1>6 DEF OpenForm
    <3>3. /\ form' \in OpenForm /\ form'.pc = form.pc /\ form'.values = form.values
          /\ form'.read = read /\ form'.before = form.before
          /\ form'.typed = form.typed /\ form'.missed = missed
      <4> HIDE DEF read, missed
      <4> QED BY <1>6, <3>1, <3>2 DEF OpenForm
    <3>4. FilledFrom'
      BY <1>6, <2>2, <3>3 DEF FilledFrom, At
    <3>5. ASSUME Spellings = {"plain"}, NEW typed \in form.typed PROVE KeptOf(typed)'
      <4>1. KeptOf(typed) /\ form.missed \subseteq missed
        BY <1>6, <3>5 DEF Kept
      <4>2. form.pc # "open" => missed = form.missed \cup {v}
        BY <3>5
      <4> HIDE DEF read, missed
      <4> QED BY <1>1, <3>3, <4>1, <4>2 DEF KeptOf, At
    <3> QED BY <1>3, <3>3, <3>4, <3>5 DEF FormInv, Kept
  <2> QED BY <1>6, <2>1, <2>2 DEF OpenForm
<1> QED BY <1>5, <1>6 DEF FormInv

LEMMA StepInv == FormInv /\ [Next]_vars => FormInv'
<1> SUFFICES ASSUME FormInv, [Next]_vars PROVE FormInv'
  OBVIOUS
<1>1. CASE UNCHANGED vars
  BY <1>1 DEF vars, FormInv, Tables, FilledFrom, Kept, KeptOf, At
<1>2. CASE SaveGone \/ Cancel
  BY <1>2 DEF SaveGone, Cancel, FormInv, Tables
<1> QED BY <1>1, <1>2, OpenNewInv, OpenEditInv, ReadLinksInv, ChooseRefInv, ChooseMultiInv, FillInv,
        SaveInv, SaveRefusedInv, OthersInv, AddVlanInv, DeleteVlanInv DEF Next

LEMMA InitInv == Init => FormInv
BY DEF Init, FormInv, Tables

-----------------------------------------------------------------------------
(* Theorems.  What is refused is only kept when it is spelled as the forms of *)
(* the program spell it.                                                      *)

\* A form that is refused and filled again has what was typed, but for VLANs
\* that were gone since, however the record and the VLANs change meanwhile; and
\* the record's references hold.
THEOREM RefusalCorrect ==
  ASSUME Spellings = {"plain"}
  PROVE  Spec => []RefusalKeepsInput
<1>1. FormInv => RefusalKeepsInput
  <2> SUFFICES ASSUME FormInv PROVE RefusalKeepsInput
    OBVIOUS
  <2>1. TypeOK
    BY DEF FormInv, TypeOK, Tables, OpenForm
  <2>2. ASSUME At("open"), NEW typed \in form.typed
        PROVE  /\ \A c \in Scalars \ {"untagged"} : form.values[c] = typed[c]
               /\ form.values.untagged # typed.untagged => typed.untagged[1] \in form.missed
               /\ form.values.tagged \subseteq typed.tagged
               /\ \A v \in typed.tagged \ form.values.tagged : v[1] \in form.missed
    BY <2>2, ClosedForm DEF FormInv, Kept, KeptOf, At, Scalars
  <2> QED BY <2>1, <2>2 DEF RefusalKeepsInput
<1> QED BY <1>1, InitInv, StepInv, PTL DEF Spec

\* An edit form that is saved as it was filled, while the record is the same,
\* writes the same record, whatever its links and its VLANs were in between.
THEOREM QuietCorrect == Spec => UntouchedSaveIsQuiet
<1>1. FormInv /\ [Next]_vars => [Save /\ form.read # NoRow => UNCHANGED conn]_vars
  <2> SUFFICES ASSUME FormInv, Save, form.read # NoRow PROVE conn' = conn
    OBVIOUS
  <2>1. /\ form.values = Spelt(form.read) /\ conn = form.read /\ form.read \in Row
        /\ conn' = Parsed(form.values)
    BY ClosedForm DEF Save, At, FormInv, FilledFrom, OpenForm
  <2> QED BY <2>1, RoundTrip
<1> QED BY <1>1, InitInv, StepInv, PTL DEF Spec, UntouchedSaveIsQuiet
=============================================================================
