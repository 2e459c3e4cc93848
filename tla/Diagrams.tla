------------------------------ MODULE Diagrams ------------------------------
(***************************************************************************)
(* Network diagrams as internal/web/topology.go sees them: what validate   *)
(* refuses, what it stores, and what the exported picture shows.  Names,   *)
(* sizes and places are left out (DiagramImage has the geometry).          *)
(*                                                                         *)
(* A label is the set of what its text says: {} is the empty text, Spaces  *)
(* a text of spaces alone.                                                 *)
(***************************************************************************)
EXTENDS Integers, Sequences, FiniteSets, SequencesExt

CONSTANTS
  MaxNodes,   \* maxTopoNodes, maxTopoLinks, maxTopoVLANs and maxNodeVLANs
  MaxLinks,
  MaxVlans,
  MaxTags,
  Colors      \* colors in topoVlanPalette

ASSUME DiagramLimits ==
  {MaxNodes, MaxLinks, MaxVlans, MaxTags, Colors} \subseteq Nat \ {0}

Kinds == {"internet", "firewall", "router", "switch", "ap", "hypervisor",
          "server", "storage", "client", "service", "vlan", "other"}
Logical == {"service", "vlan"}
Styles == {"", "access", "trunk", "logical"}
RefTypes == {"vlans", "devices", "services"}
NoRef == <<>>
Spaces == {"spaces"}

\* The items of a list with some id, and the first of them.
IdsOf(items) == {items[k].id : k \in DOMAIN items}
ById(items, id) == items[SelectInSeq(items, LAMBDA it : it.id = id)]

\* The items of a list that are in X, in their order.
Those(s, X) == FoldLeft(LAMBDA t, it : IF it \in X THEN Append(t, it) ELSE t, <<>>, s)

Unique(s) == \A j, k \in DOMAIN s : s[j] = s[k] => j = k
UniqueIds(items) == Unique([k \in DOMAIN items |-> items[k].id])

-----------------------------------------------------------------------------
(* topoPayload.validate: the reasons to refuse a diagram, and what is kept *)
(* of one that is not refused.  Left out are the reasons in a name, label, *)
(* role or position: an empty or long text, a place out of range.          *)

If(fault, holds) == IF holds THEN {fault} ELSE {}

NodeFaults(d, n) ==
     If("unknown node type", n.kind \notin Kinds)
  \cup If("too many tags", Len(n.tags) > MaxTags)
  \cup If("tag not listed", ~(ToSet(n.tags) \subseteq ToSet(d.vlans)))
  \cup If("tag listed twice", ~Unique(n.tags))
  \cup If("invalid reference", n.ref # NoRef /\ n.ref[1] \notin RefTypes)

LinkFaults(d, l) ==
     If("missing node", ~({l.from, l.to} \subseteq IdsOf(d.nodes)))
  \cup If("link to itself", l.from = l.to)
  \cup If("unknown link type", l.style \notin Styles)

VlanNumbers == 1..4094

Faults(d) ==
     If("too many nodes", Len(d.nodes) > MaxNodes)
  \cup If("too many links", Len(d.links) > MaxLinks)
  \cup If("too many VLANs", Len(d.vlans) > MaxVlans)
  \cup If("VLAN number", ~(ToSet(d.vlans) \subseteq VlanNumbers))
  \cup If("duplicate VLAN", ~Unique(d.vlans))
  \cup If("duplicate node id", ~UniqueIds(d.nodes))
  \cup If("duplicate link id", ~UniqueIds(d.links))
  \cup (UNION {NodeFaults(d, d.nodes[k]) : k \in DOMAIN d.nodes})
  \cup (UNION {LinkFaults(d, d.links[k]) : k \in DOMAIN d.links})

\* sort.Ints, and sort of the editor.
Inserted(s, num) ==
  LET k == CHOOSE i \in 0..Len(s) : /\ \A j \in 1..i : s[j] <= num
                                    /\ \A j \in (i + 1)..Len(s) : num < s[j]
  IN  InsertAt(s, k + 1, num)
Sorted(nums) == FoldLeft(Inserted, <<>>, nums)

Trimmed(text) == text \ Spaces

SortedTags(nodes) == [k \in DOMAIN nodes |-> [nodes[k] EXCEPT !.tags = Sorted(@)]]
TrimmedLabels(links) == [k \in DOMAIN links |-> [links[k] EXCEPT !.label = Trimmed(@)]]

Normal(d) ==
  [d EXCEPT !.vlans = Sorted(@), !.nodes = SortedTags(@), !.links = TrimmedLabels(@)]

-----------------------------------------------------------------------------
(* renderTopologySVG: what is drawn, and how it can be told apart. *)

\* topoVlanColors; num is in the list.
VlanColor(vlans, num) == (SelectLastInSeq(vlans, LAMBDA v : v = num) - 1) % Colors

\* topoLinkType.
LinkType(l, from, to) ==
  IF l.style = "logical" \/ {from.kind, to.kind} \cap Logical # {}
  THEN "logical"
  ELSE IF l.style \in {"trunk", "access"} THEN l.style ELSE "link"

\* topoLinkLabel: its own label, else its type; {type} is the word for it.
LinkLabel(hide, label, type) ==
  IF hide THEN {}
  ELSE IF label # {} THEN label
  ELSE IF type = "logical" THEN {} ELSE {type}

\* Links are drawn when both ends are found.
Drawn(d) == {k \in DOMAIN d.links :
               {d.links[k].from, d.links[k].to} \subseteq IdsOf(d.nodes)}
TypeOf(d, k) ==
  LET l == d.links[k] IN LinkType(l, ById(d.nodes, l.from), ById(d.nodes, l.to))

Lines(d, hide) ==
  [k \in Drawn(d) |->
     LET l == d.links[k] IN
       [ends |-> <<l.from, l.to>>, type |-> TypeOf(d, k),
        text |-> LinkLabel(hide, l.label, TypeOf(d, k))]]

Boxes(d) ==
  [k \in DOMAIN d.nodes |->
     LET n == d.nodes[k] IN
       [id |-> n.id, kind |-> n.kind, dashed |-> n.kind \in Logical,
        chips |-> [j \in DOMAIN n.tags |->
                     <<n.tags[j], VlanColor(d.vlans, n.tags[j])>>]]]

\* newTopoLegend, topoLegend.write.
Legend(d) ==
  [types |-> {TypeOf(d, k) : k \in Drawn(d)},
   chips |-> {<<v, VlanColor(d.vlans, v)>> : v \in ToSet(d.vlans)},
   kinds |-> {d.nodes[k].kind : k \in DOMAIN d.nodes}]

Picture(d, hide) ==
  [boxes |-> Boxes(d), lines |-> Lines(d, hide), legend |-> Legend(d)]
=============================================================================
