--------------------------- MODULE DiagramEditor ---------------------------
(***************************************************************************)
(* The editor's copy of a diagram (static/topology.js): drawing by hand,   *)
(* taking over the inventory, and turning the VLAN boxes of old diagrams   *)
(* into tags.  Each handler is one step, as in the browser; what it does   *)
(* to the copy is a function of the copy, so that handlers can be chained. *)
(*                                                                         *)
(* The selected item and the link-mode switch are not kept: a handler may  *)
(* work on any item that is drawn, and a click may be one in link mode.    *)
(***************************************************************************)
EXTENDS Diagrams

CONSTANTS
  Stored,        \* diagrams the editor may be opened on
  Inventories,   \* answers /inventory.json may give
  OfferedKinds,  \* bound: kinds picked in the two lists of node types
  OfferedStyles, \* bound: link types picked
  Texts,         \* bound: labels typed for links
  Numbers,       \* bound: VLAN numbers typed, in the VLAN list or in a label
  MaxSeq,        \* bound: seq
  MaxEdits,      \* bound: changes by hand
  FinishesLinks  \* whether users finish or give up a link before converting

Refs == {NoRef} \cup (RefTypes \X STRING)
Words == STRING \cup {"WAN"}   \* (which is a string, but not to the provers)
Node == [id : Nat, kind : Kinds, num : Nat, ref : Refs, tags : Seq(Int)]
Link == [id : Nat, from : Nat, to : Nat, label : SUBSET Words, style : Styles]
Diagram == [nodes : Seq(Node), links : Seq(Link), vlans : Seq(Int)]

OnePerPair(links) == Unique([k \in DOMAIN links |-> {links[k].from, links[k].to}])

\* What the tables promise of an answer: a VLAN has one number, no two the
\* same; a device is in a VLAN once; a connection has two ends (migrations
\* 0001 and 0004).  The lists are read one after the other, so that an id in
\* one of them may be missing in another.
Inventory ==
  [vlans : Seq([id : STRING, num : Int]),
   devices : Seq([id : STRING, kind : Kinds, vlans : Seq(STRING)]),
   services : Seq([id : STRING, host : STRING, vlans : Seq(STRING)]),
   conns : Seq([name : STRING, device : STRING, switch : STRING,
                mode : {"Access", "Trunk"}])]

ASSUME InventoryAssumption ==
  \A inv \in Inventories :
    /\ inv \in Inventory
    /\ UniqueIds(inv.vlans)
    /\ Unique([k \in DOMAIN inv.vlans |-> inv.vlans[k].num])
    /\ \A k \in DOMAIN inv.devices : Unique(inv.devices[k].vlans)
    /\ \A k \in DOMAIN inv.services : Unique(inv.services[k].vlans)
    /\ \A k \in DOMAIN inv.conns : inv.conns[k].device # inv.conns[k].switch

\* Stored diagrams were drawn in the editor and accepted.
ASSUME StoredAssumption ==
  \A d \in Stored : /\ d \in Diagram /\ Faults(d) = {} /\ Normal(d) = d
                    /\ OnePerPair(d.links)

ASSUME OfferAssumption ==
  /\ OfferedKinds \subseteq Kinds /\ OfferedStyles \subseteq Styles
  /\ Numbers \subseteq 1..4094 /\ Texts \subseteq SUBSET Words
  /\ MaxEdits \in Nat /\ MaxSeq \in Nat /\ MaxNodes + MaxLinks <= MaxSeq
  /\ FinishesLinks \in BOOLEAN

VARIABLES
  copy,      \* nodes, links, vlans, and seq, from which ids are made
  linkFrom,  \* the node that link mode has a first click on, or NoNode
  inventory, \* the inventory as the page last loaded it
  edits      \* history: changes by hand

vars == <<copy, linkFrom, inventory, edits>>

NoNode == 0
Opened(d) == [nodes |-> d.nodes, links |-> d.links, vlans |-> Sorted(d.vlans),
              seq |-> Len(d.nodes) + Len(d.links)]

\* newId; node ids and link ids have their own prefix.
NewId(items, seq) ==
  CHOOSE s \in (seq + 1)..(seq + 1 + Len(items)) :
    /\ s \notin IdsOf(items)
    /\ \A t \in (seq + 1)..(s - 1) : t \in IdsOf(items)

-----------------------------------------------------------------------------
(* The parts the handlers share, as functions of the copy c. *)

Between(c, a, b) == {k \in DOMAIN c.links : {c.links[k].from, c.links[k].to} = {a, b}}

\* addLink, and the label and style its callers give the new link.
WithLink(c, a, b, label, style) ==
  IF Between(c, a, b) # {} THEN c
  ELSE LET id == NewId(c.links, c.seq) IN
       [c EXCEPT !.seq = id,
                 !.links = Append(@, [id |-> id, from |-> a, to |-> b,
                                      label |-> label, style |-> style])]

\* addNode; num is the VLAN number its name holds, or 0.
WithNode(c, kind, ref, tags) ==
  LET id == NewId(c.nodes, c.seq) IN
  [c EXCEPT !.seq = id,
            !.nodes = Append(@, [id |-> id, kind |-> kind, num |-> 0,
                                 ref |-> ref, tags |-> tags])]

\* Mutant: the list is not sorted again.
WithVlan_AtEnd(c, num) ==
  IF num \in ToSet(c.vlans) THEN c ELSE [c EXCEPT !.vlans = Append(@, num)]

\* addVlanDef.
WithVlan(c, num) ==
  IF num \in ToSet(c.vlans) THEN c
  ELSE [c EXCEPT !.vlans = Sorted(Append(@, num))]

\* A node goes with its links.
Without(c, id) ==
  [c EXCEPT !.nodes = Those(@, {n \in ToSet(@) : n.id # id}),
            !.links = Those(@, {l \in ToSet(@) : id \notin {l.from, l.to}})]

OnNodes(c, Do(_)) == [c EXCEPT !.nodes = [k \in DOMAIN @ |-> Do(@[k])]]
OnLinks(c, Do(_)) == [c EXCEPT !.links = [k \in DOMAIN @ |-> Do(@[k])]]

-----------------------------------------------------------------------------
(* Taking over the inventory. *)

HasRef(c, ref) == \E k \in DOMAIN c.nodes : c.nodes[k].ref = ref
FindRef(c, ref) == c.nodes[SelectInSeq(c.nodes, LAMBDA n : n.ref = ref)].id

\* invVlanNum: 0 when the inventory has no such VLAN.
InvVlanNum(inv, id) ==
  LET k == SelectInSeq(inv.vlans, LAMBDA v : v.id = id)
  IN  IF k = 0 THEN 0 ELSE inv.vlans[k].num

TagsOf(inv, ids) ==
  LET nums == Those([k \in DOMAIN ids |-> InvVlanNum(inv, ids[k])], Int \ {0})
  IN  SubSeq(nums, 1, IF Len(nums) < MaxTags THEN Len(nums) ELSE MaxTags)

\* addInventoryNode, for a VLAN and for a device or a service.
WithInvVlan(c, v) == WithVlan(c, v.num)
WithInvNode(c, inv, ref, kind, ids) ==
  LET tags == TagsOf(inv, ids) IN
  IF HasRef(c, ref) THEN c
  ELSE WithNode(FoldLeft(WithVlan, c, tags), kind, ref, Sorted(tags))

WithDevice(c, inv, d) == WithInvNode(c, inv, <<"devices", d.id>>, d.kind, d.vlans)
WithService(c, inv, s) == WithInvNode(c, inv, <<"services", s.id>>, "service", s.vlans)

\* linkInventory: services hang on their host; the connections between a
\* device and a switch become one link, or label the one that is there.
WithHostLink(c, s) ==
  LET sn == <<"services", s.id>>  host == <<"devices", s.host>> IN
  IF HasRef(c, sn) /\ HasRef(c, host)
  THEN WithLink(c, FindRef(c, sn), FindRef(c, host), {}, "logical") ELSE c

SameEnds(x, y) == x.device = y.device /\ x.switch = y.switch

WithCable(c, inv, x) ==
  LET dev == <<"devices", x.device>>  sw == <<"devices", x.switch>>
      cs == {y \in ToSet(inv.conns) : SameEnds(x, y)}
      label == {y.name : y \in cs}
      style == IF \E y \in cs : y.mode = "Trunk" THEN "trunk" ELSE "access"
  IN  IF ~HasRef(c, dev) \/ ~HasRef(c, sw) THEN c
      ELSE LET a == FindRef(c, dev)  b == FindRef(c, sw) IN
           IF Between(c, a, b) = {} THEN WithLink(c, a, b, label, style)
           ELSE OnLinks(c, LAMBDA l :
                  IF {l.from, l.to} = {a, b} /\ l.label = {}
                  THEN [l EXCEPT !.label = label, !.style = style] ELSE l)

\* Mutant: services are linked before cables, and cables are forgotten.
LinkInventory_NoCables(c, inv) == FoldLeft(WithHostLink, c, inv.services)

LinkInventory(c, inv) ==
  FoldLeft(LAMBDA d, x : WithCable(d, inv, x),
           FoldLeft(WithHostLink, c, inv.services), inv.conns)

ImportedAll(c, inv) ==
  LET c1 == FoldLeft(WithInvVlan, c, inv.vlans)
      c2 == FoldLeft(LAMBDA d, x : WithDevice(d, inv, x), c1, inv.devices)
  IN  FoldLeft(LAMBDA d, x : WithService(d, inv, x), c2, inv.services)

\* ensureInternet: above the firewall, else the router, with most links.
Degree(c, id) == Cardinality({k \in DOMAIN c.links : c.links[k].from = id})
                 + Cardinality({k \in DOMAIN c.links : c.links[k].to = id})
Busiest(c, kind) ==
  LET N == {k \in DOMAIN c.nodes : c.nodes[k].kind = kind}
  IN  {k \in N : \A j \in N : \/ Degree(c, c.nodes[k].id) > Degree(c, c.nodes[j].id)
                              \/ Degree(c, c.nodes[k].id) = Degree(c, c.nodes[j].id) /\ k <= j}

WithInternet(c) ==
  LET edges == IF Busiest(c, "firewall") # {} THEN Busiest(c, "firewall")
               ELSE Busiest(c, "router")
      d == WithNode(c, "internet", NoRef, <<>>)
  IN  IF edges = {} \/ \E k \in DOMAIN c.nodes : c.nodes[k].kind = "internet" THEN c
      ELSE WithLink(d, Last(d.nodes).id, c.nodes[CHOOSE k \in edges : TRUE].id, {"WAN"}, "")

-----------------------------------------------------------------------------
(* Converting old diagrams. *)

\* vlanNumOfNode: by its reference, else by its name.
BoxNum(inv, n) ==
  IF n.ref # NoRef /\ n.ref[1] = "vlans" /\ InvVlanNum(inv, n.ref[2]) # 0
  THEN InvVlanNum(inv, n.ref[2]) ELSE n.num

Tagged(n, num) ==
  IF num \in ToSet(n.tags) \/ Len(n.tags) >= MaxTags THEN n
  ELSE [n EXCEPT !.tags = Sorted(Append(@, num))]

\* Mutant: only links that start at the box are followed.
TagNeighbors_FromBox(c, box, num) ==
  OnNodes(c, LAMBDA n :
    IF n.kind # "vlan" /\ \E k \in Between(c, box.id, n.id) : c.links[k].from = box.id
    THEN Tagged(n, num) ELSE n)

TagNeighbors(c, box, num) ==
  OnNodes(c, LAMBDA n :
    IF n.kind # "vlan" /\ Between(c, box.id, n.id) # {} THEN Tagged(n, num) ELSE n)

WithBoxAsTag(c, inv, box) ==
  LET num == BoxNum(inv, box) IN
  IF num = 0 THEN c
  ELSE Without(TagNeighbors(WithVlan(c, num), box, num), box.id)

Boxed(c) == Those(c.nodes, {n \in ToSet(c.nodes) : n.kind = "vlan"})
Converted(c, inv) == FoldLeft(LAMBDA d, box : WithBoxAsTag(d, inv, box), c, Boxed(c))

-----------------------------------------------------------------------------
(* The handlers. *)

Becomes(c) == c.seq <= MaxSeq /\ copy' = c
ByHand == edits < MaxEdits /\ edits' = edits + 1
Edited(c) == Becomes(c) /\ ByHand /\ UNCHANGED <<linkFrom, inventory>>
Chained(c) == Becomes(c) /\ UNCHANGED <<linkFrom, inventory, edits>>

Nodes == DOMAIN copy.nodes
DrawnLinks == Drawn(copy)

\* The page is opened on a stored diagram.
Init ==
  /\ \E d \in Stored : copy = Opened(d)
  /\ linkFrom = NoNode
  /\ inventory \in Inventories
  /\ edits = 0

\* btn-add.
AddNode(kind) ==
  /\ kind # "vlan"
  /\ Edited(WithNode(copy, kind, NoRef, <<>>))

\* pointerdown on a node, in link mode.
ClickNode(k) ==
  LET id == copy.nodes[k].id IN
  /\ linkFrom' = IF linkFrom = NoNode THEN id ELSE NoNode
  /\ IF linkFrom \in {NoNode, id} THEN UNCHANGED copy
     ELSE Becomes(WithLink(copy, linkFrom, id, {}, ""))
  /\ ByHand /\ UNCHANGED inventory

\* A click beside the nodes, or on btn-link.
GiveUpLink ==
  /\ linkFrom # NoNode
  /\ linkFrom' = NoNode
  /\ UNCHANGED <<copy, inventory, edits>>

\* Mutant: the first click of a link is remembered.
DeleteNode_KeepsFrom(k) ==
  /\ Becomes(Without(copy, copy.nodes[k].id))
  /\ ByHand /\ UNCHANGED <<linkFrom, inventory>>

\* deleteSelected.
DeleteNode(k) ==
  /\ Becomes(Without(copy, copy.nodes[k].id))
  /\ linkFrom' = NoNode
  /\ ByHand /\ UNCHANGED inventory

DeleteLink(k) ==
  /\ Becomes([copy EXCEPT !.links = Those(@, {l \in ToSet(@) : l.id # copy.links[k].id})])
  /\ linkFrom' = NoNode
  /\ ByHand /\ UNCHANGED inventory

\* prop-kind, prop-ref and prop-label on a node; prop-ref is offered unless
\* the node stands for a VLAN or a service.
SetKind(k, kind) == Edited([copy EXCEPT !.nodes[k].kind = kind])
SetRef(k, ref) ==
  /\ ~(copy.nodes[k].ref # NoRef /\ copy.nodes[k].ref[1] # "devices")
  /\ Edited([copy EXCEPT !.nodes[k].ref = ref])
NameBox(k, num) ==
  /\ copy.nodes[k].kind = "vlan"   \* only there the number is used
  /\ Edited([copy EXCEPT !.nodes[k].num = num])

\* prop-style and prop-label on a link.
SetStyle(k, style) == Edited([copy EXCEPT !.links[k].style = style])
SetLabel(k, text) == Edited([copy EXCEPT !.links[k].label = text])

\* btn-vlan-add; a checkbox of a node; removeVlanDef.
AddVlan(num) == Edited(WithVlan(copy, num))
Tick(k, num) == Edited([copy EXCEPT !.nodes[k] = Tagged(@, num)])
Untick(k, num) ==
  /\ num \in ToSet(copy.nodes[k].tags)
  /\ Edited([copy EXCEPT !.nodes[k].tags = Those(@, Int \ {num})])

RemoveVlan(num) ==
  Edited(OnNodes([copy EXCEPT !.vlans = Those(@, Int \ {num})],
                 LAMBDA n : [n EXCEPT !.tags = Those(@, Int \ {num})]))

\* btn-inv-add, for an item that is not there yet.
AddFromInventory ==
  \E c \in {WithInvVlan(copy, inventory.vlans[k]) : k \in DOMAIN inventory.vlans}
      \cup {WithDevice(copy, inventory, inventory.devices[k]) : k \in DOMAIN inventory.devices}
      \cup {WithService(copy, inventory, inventory.services[k]) : k \in DOMAIN inventory.services} :
    c # copy /\ Chained(LinkInventory(c, inventory))

\* btn-inv-all; btn-layout, which only adds what the picture starts from.
ImportAll ==
  Chained(WithInternet(LinkInventory(ImportedAll(copy, inventory), inventory)))
AutoLayout == Chained(WithInternet(copy))

\* convertVlanNodes; the button is there while there are boxes.
ConvertVlanNodes ==
  /\ Boxed(copy) # <<>>
  /\ FinishesLinks => linkFrom = NoNode
  /\ Chained(Converted(copy, inventory))

\* refreshInventory, when the window gets the focus.
RefreshInventory ==
  /\ inventory' \in Inventories
  /\ UNCHANGED <<copy, linkFrom, edits>>

\* The diagram is saved, and opened again later.
SaveAndReopen ==
  /\ Faults(copy) = {}
  /\ copy' = Opened(Normal(copy))
  /\ linkFrom' = NoNode
  /\ inventory' \in Inventories
  /\ UNCHANGED edits

EditNode(k) ==
  \/ ClickNode(k) \/ DeleteNode(k)
  \/ \E kind \in OfferedKinds : SetKind(k, kind)
  \/ \E j \in DOMAIN inventory.devices : SetRef(k, <<"devices", inventory.devices[j].id>>)
  \/ SetRef(k, NoRef)
  \/ \E num \in Numbers \cup {0} : NameBox(k, num)
  \/ \E num \in ToSet(copy.vlans) : Tick(k, num) \/ Untick(k, num)

EditLink(k) ==
  \/ DeleteLink(k)
  \/ \E style \in OfferedStyles : SetStyle(k, style)
  \/ \E text \in Texts : SetLabel(k, text)

Next ==
  \/ \E kind \in OfferedKinds : AddNode(kind)
  \/ \E k \in Nodes : EditNode(k)
  \/ \E k \in DrawnLinks : EditLink(k)
  \/ \E num \in Numbers : AddVlan(num)
  \/ \E num \in ToSet(copy.vlans) : RemoveVlan(num)
  \/ GiveUpLink \/ AddFromInventory \/ ImportAll \/ AutoLayout
  \/ ConvertVlanNodes \/ RefreshInventory \/ SaveAndReopen

Spec == Init /\ [][Next]_vars

-----------------------------------------------------------------------------
(* The canvas: render and renderLegend of the editor. *)

CanvasColor(c, num) ==
  LET k == SelectInSeq(c.vlans, LAMBDA v : v = num)
  IN  IF k = 0 THEN Colors ELSE (k - 1) % Colors   \* Colors stands for gray

CanvasType(c, l) ==
  LET dashed == \E e \in {l.from, l.to} : ById(c.nodes, e).kind \in Logical
  IN  CASE dashed \/ l.style = "logical"     -> "logical"
        [] ~dashed /\ l.style \in {"trunk", "access"} -> l.style
        [] OTHER                             -> "link"

\* linkText.
CanvasText(hide, l, type) ==
  CASE hide                                  -> {}
    [] ~hide /\ l.label # {}                 -> l.label
    [] ~hide /\ l.label = {} /\ type = "logical" -> {}
    [] OTHER                                 -> {type}

Canvas(c, hide) ==
  LET shown == Drawn(c)  type == [k \in shown |-> CanvasType(c, c.links[k])] IN
  [boxes |-> [k \in DOMAIN c.nodes |->
     LET n == c.nodes[k] IN
       [id |-> n.id, kind |-> n.kind, dashed |-> n.kind \in Logical,
        chips |-> [j \in DOMAIN n.tags |-> <<n.tags[j], CanvasColor(c, n.tags[j])>>]]],
   lines |-> [k \in shown |->
     [ends |-> <<c.links[k].from, c.links[k].to>>, type |-> type[k],
      text |-> CanvasText(hide, c.links[k], type[k])]],
   legend |-> [types |-> {type[k] : k \in shown},
               chips |-> {<<v, CanvasColor(c, v)>> : v \in ToSet(c.vlans)},
               kinds |-> {c.nodes[k].kind : k \in DOMAIN c.nodes}]]

-----------------------------------------------------------------------------

(* The copy has its shape, the VLANs are sorted, and a link that was begun  *)
(* was begun on the diagram, unless boxes were converted under it.          *)
TypeOK ==
  /\ ToSet(copy.nodes) \subseteq Node
  /\ ToSet(copy.links) \subseteq Link
  /\ copy.vlans \in Seq(Int) /\ copy.seq \in 0..MaxSeq
  /\ Sorted(copy.vlans) = copy.vlans
  /\ linkFrom \in Nat
  /\ FinishesLinks => linkFrom \in IdsOf(copy.nodes) \cup {NoNode}
  /\ inventory \in Inventories /\ edits \in 0..MaxEdits

\* Link mode connects two nodes: both ends of a link are on the diagram,
\* whatever was deleted or converted since the first click.
LinksHaveEnds ==
  \A k \in DOMAIN copy.links :
    {copy.links[k].from, copy.links[k].to} \subseteq IdsOf(copy.nodes)

\* The editor builds nothing that validate refuses for its structure: of the
\* Faults only the limits on numbers, which the editor does not know, refuse a
\* save.  It links two nodes once at most, however the links came about: by hand
\* from either end, from connections, from a host, or above the edge (addLink,
\* newId).
WellFormed ==
  /\ TypeOK
  /\ Faults(copy) \subseteq {"too many nodes", "too many links", "too many VLANs",
                             "VLAN number"}
  /\ OnePerPair(copy.links)

\* The exported picture of the diagram is what the editor draws, the same
\* lines, labels, tag colors and legend (both sides compute them anew), and
\* its legend explains every line, tag color and box in it.
Explained(p) ==
  /\ \A k \in DOMAIN p.lines : p.lines[k].type \in p.legend.types
  /\ \A k \in DOMAIN p.boxes : /\ p.boxes[k].kind \in p.legend.kinds
                               /\ ToSet(p.boxes[k].chips) \subseteq p.legend.chips

DrawingsAgree ==
  Faults(copy) = {} =>
    \A hide \in BOOLEAN :
      LET p == Picture(Normal(copy), hide) IN Canvas(copy, hide) = p /\ Explained(p)

\* The legend lists only what the diagram uses (the comment on topoLegend).
LegendOnlyUsed ==
  Faults(copy) = {} =>
    LET p == Picture(Normal(copy), FALSE) IN
    \A chip \in p.legend.chips : \E k \in DOMAIN p.boxes : chip \in ToSet(p.boxes[k].chips)

\* Importing everything draws a line for every connection between devices of
\* the inventory, and one from every service to its host, if it has one.
Joined(c, ref1, ref2) ==
  HasRef(c, ref1) /\ HasRef(c, ref2) /\ Between(c, FindRef(c, ref1), FindRef(c, ref2)) # {}

ImportDrawsAll ==
  [][ImportAll =>
       /\ \A k \in DOMAIN inventory.conns :
            LET x == inventory.conns[k] IN
            {x.device, x.switch} \subseteq IdsOf(inventory.devices)
              => Joined(copy', <<"devices", x.device>>, <<"devices", x.switch>>)
       /\ \A k \in DOMAIN inventory.services :
            LET s == inventory.services[k] IN
            s.host \in IdsOf(inventory.devices)
              => Joined(copy', <<"services", s.id>>, <<"devices", s.host>>)]_vars

\* A link labeled from the inventory names every cable between its two ends:
\* several cables between the same pair share a link with combined labels.
CablesShareLabel ==
  \A k \in DOMAIN copy.links : \A i, j \in DOMAIN inventory.conns :
    LET x == inventory.conns[i]  y == inventory.conns[j] IN
    {x.device, x.switch} = {y.device, y.switch}
      => (x.name \in copy.links[k].label <=> y.name \in copy.links[k].label)

\* A node that was linked to VLAN boxes when they were converted carries
\* their numbers as tags, or is full.
ConvertTags ==
  [][ConvertVlanNodes =>
       \A k \in Nodes, b \in Nodes :
         LET n == copy.nodes[k]  box == copy.nodes[b]  num == BoxNum(inventory, box) IN
         (n.kind # "vlan" /\ box.kind = "vlan" /\ num # 0 /\ Between(copy, n.id, box.id) # {})
           => LET m == ById(copy'.nodes, n.id)
              IN  num \in ToSet(m.tags) \/ Len(m.tags) >= MaxTags]_vars

\* Each VLAN box becomes a tag on the devices it was linked to (the comment
\* on convertVlanNodes).
ConvertKeepsTags ==
  [][ConvertVlanNodes =>
       \A k \in Nodes, b \in Nodes :
         LET n == copy.nodes[k]  box == copy.nodes[b]  num == BoxNum(inventory, box) IN
         (n.kind # "vlan" /\ box.kind = "vlan" /\ num # 0 /\ Between(copy, n.id, box.id) # {})
           => num \in ToSet(ById(copy'.nodes, n.id).tags)]_vars
=============================================================================
