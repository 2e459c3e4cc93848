---------------------------- MODULE DiagramImage ----------------------------
(***************************************************************************)
(* The geometry of an exported diagram (renderTopologySVG in               *)
(* internal/web/topology.go): the sizes of boxes and tags, the legend and  *)
(* the view the picture is cut out of.  A text is its number of letters.   *)
(* The diagram's name is left out: no size depends on it.                  *)
(* All lengths are in tenths of a pixel, so that they are whole numbers.   *)
(***************************************************************************)
EXTENDS Integers, Sequences, FiniteSets, FiniteSetsExt, SequencesExt

CONSTANTS
  Places,   \* bound: coordinates of nodes, in pixels
  Labels, Details, Names, \* bound: lengths of labels, roles and VLAN names
  LinkTexts, \* bound: lengths of what is written on a link; 0 if nothing is
  VlanNums, \* bound: VLAN numbers
  MostNodes, MostLines, \* bound: nodes and links on the diagram
  LegendLen, KindLen  \* letters of topoLinkTypes' legends and topoKinds' labels

ASSUME ImageAssumption ==
  /\ Places \subseteq 0..5000 /\ Labels \subseteq 1..80
  /\ Details \cup Names \cup LinkTexts \subseteq 0..80
  /\ VlanNums \subseteq 1..4094 /\ MostNodes \in 0..500 /\ MostLines \in 0..1000
  /\ IsFiniteSet(DOMAIN LegendLen) /\ IsFiniteSet(DOMAIN KindLen)
  /\ \A t \in DOMAIN LegendLen : LegendLen[t] \in Nat
  /\ \A k \in DOMAIN KindLen : KindLen[k] \in Nat

VARIABLES
  nodes,  \* x, y, label, detail, kind, and the VLANs of the tags
  vlans,  \* the VLANs listed: number -> letters of its name
  lines   \* the links: from and to (nodes), type, and text (its length)

imageVars == <<nodes, vlans, lines>>

Larger(a, b) == IF a > b THEN a ELSE b
Largest(S) == IF S = {} THEN 0 ELSE Max(S)
Total(s) == FoldLeft(LAMBDA a, b : a + b, 0, s)
Roundup(t) == 10 * ((t + 9) \div 10)   \* math.Ceil

-----------------------------------------------------------------------------
(* Boxes and tags. *)

Digits(n) == IF n < 10 THEN 1 ELSE IF n < 100 THEN 2 ELSE IF n < 1000 THEN 3 ELSE 4
ChipW(n) == Roundup((5 + Digits(n)) * 64) + 140
Chips(n) ==
  CHOOSE s \in [1..Cardinality(n.tags) -> n.tags] :
    \A j, k \in DOMAIN s : j < k => s[j] < s[k]
ChipsW(nums) == Total([k \in DOMAIN nums |-> ChipW(nums[k]) + (IF k > 1 THEN 40 ELSE 0)])

\* topoNodeWidth.
NodeWidth(n) ==
  Max({1400, n.label * 80 + 320,
       IF n.detail > 0 THEN n.detail * 64 + 320 ELSE 0,
       IF n.tags # {} THEN ChipsW(Chips(n)) + 240 ELSE 0})

\* topoNodeHeight.
BaseHeight(n) == 560 + (IF n.detail > 0 THEN 160 ELSE 0)
NodeHeight(n) == BaseHeight(n) + (IF n.tags # {} THEN 200 ELSE 0)

\* A rectangle is its left, top, right and bottom.
Rect(x, y, w, h) == <<x, y, x + w, y + h>>
Inside(r, s) == r[1] >= s[1] /\ r[2] >= s[2] /\ r[3] <= s[3] /\ r[4] <= s[4]
Apart(r, s) == r[3] <= s[1] \/ s[3] <= r[1] \/ r[4] <= s[2] \/ s[4] <= r[2]

NodeRect(n) == Rect(10 * n.x, 10 * n.y, NodeWidth(n), NodeHeight(n))

\* The tags are drawn in a row, in the middle of the box.
ChipRects(n) ==
  LET nums == Chips(n)
      left == 10 * n.x + (NodeWidth(n) - ChipsW(nums)) \div 2
  IN  [k \in DOMAIN nums |->
         Rect(left + ChipsW(SubSeq(nums, 1, k)) - ChipW(nums[k]),
              10 * n.y + BaseHeight(n) - 20, ChipW(nums[k]), 160)]

-----------------------------------------------------------------------------
(* A link's text is written in a box in the middle of its line. *)

\* Twice the middle of a box.
Middle(n) == <<20 * n.x + NodeWidth(n), 20 * n.y + NodeHeight(n)>>

LabelW(l) == l.text * 70 + 120
LabelRect(l) ==
  LET mx == (Middle(l.from)[1] + Middle(l.to)[1]) \div 4
      my == (Middle(l.from)[2] + Middle(l.to)[2]) \div 4
  IN  Rect(mx - LabelW(l) \div 2, my - 100, LabelW(l), 200)

Labelled == {l \in lines : l.text > 0}

-----------------------------------------------------------------------------
(* The legend: a column for each of lines, tags and boxes that are used. *)

TextW(letters) == letters * 66
KindsUsed == {n.kind : n \in nodes}
TypesUsed == {l.type : l \in lines}
TagW == Largest({ChipW(v) : v \in DOMAIN vlans})

\* topoLegend.columns: what is before the text, the longest text, the rows.
Column(pre, texts, rows) == [pre |-> pre, text |-> Largest(texts), rows |-> rows]
AllColumns ==
  <<Column(460, {TextW(LegendLen[t]) : t \in TypesUsed}, Cardinality(TypesUsed)),
    Column(TagW + 100, {TextW(vlans[v]) : v \in DOMAIN vlans}, Cardinality(DOMAIN vlans)),
    Column(240, {TextW(KindLen[k]) : k \in KindsUsed}, Cardinality(KindsUsed))>>
Columns ==
  FoldLeft(LAMBDA cs, c : IF c.rows > 0 THEN Append(cs, c) ELSE cs, <<>>, AllColumns)
ColumnW(c) == c.pre + c.text

\* topoLegend.size.
LegendW ==
  IF Columns = <<>> THEN 0
  ELSE 400 + 360 * (Len(Columns) - 1)
           + Total([k \in DOMAIN Columns |-> ColumnW(Columns[k])])
LegendH ==
  IF Columns = <<>> THEN 0
  ELSE 360 + 240 * Max({Columns[k].rows : k \in DOMAIN Columns}) + 140

-----------------------------------------------------------------------------
(* The picture. *)

LeftMost == IF nodes = {} THEN 0 ELSE Min({NodeRect(n)[1] : n \in nodes})
TopMost  == IF nodes = {} THEN 0 ELSE Min({NodeRect(n)[2] : n \in nodes})
RightMost == IF nodes = {} THEN 0 ELSE Max({NodeRect(n)[3] : n \in nodes})
LowMost  == IF nodes = {} THEN 0 ELSE Max({NodeRect(n)[4] : n \in nodes})

Pad == 400
TitleH == 440

\* Mutant: the view is as wide as the nodes.
View_NodesOnly ==
  Rect(LeftMost - Pad, TopMost - Pad - TitleH,
       Larger(RightMost - LeftMost + 2 * Pad, 3600),
       LowMost - TopMost + 2 * Pad + TitleH
         + (IF nodes = {} THEN 400 ELSE 0)
         + (IF LegendH > 0 THEN LegendH + 300 ELSE 0))

View ==
  Rect(LeftMost - Pad, TopMost - Pad - TitleH,
       Max({RightMost - LeftMost + 2 * Pad, 3600, LegendW + 2 * Pad}),
       LowMost - TopMost + 2 * Pad + TitleH
         + (IF nodes = {} THEN 400 ELSE 0)
         + (IF LegendH > 0 THEN LegendH + 300 ELSE 0))

\* Mutant: the legend is placed from the highest node.
LegendRect_AtTop == Rect(View[1] + 200, TopMost + 300, LegendW, LegendH)

LegendRect == Rect(View[1] + 200, LowMost + 300, LegendW, LegendH)
\* The strip that the name is written in, which a long name runs out of.
TitleRect == Rect(View[1], View[2], View[3] - View[1], TitleH)

\* Where topoLegend.write puts column k, down to the baseline of a row.
ColumnRect(k) ==
  Rect(LegendRect[1] + 200 + Total([j \in 1..(k - 1) |-> ColumnW(Columns[j]) + 360]),
       LegendRect[2] + 360, ColumnW(Columns[k]), 240 * (Columns[k].rows - 1) + 120)

-----------------------------------------------------------------------------
(* The stored diagram grows by what the editor adds and saves. *)

ImageInit == nodes = {} /\ vlans = <<>> /\ lines = {}

StoreNode ==
  /\ Cardinality(nodes) < MostNodes
  /\ \E x, y \in Places, label \in Labels, detail \in Details,
        kind \in DOMAIN KindLen, tags \in {T \in SUBSET DOMAIN vlans : Cardinality(T) <= 6} :
       nodes' = nodes \cup {[x |-> x, y |-> y, label |-> label, detail |-> detail,
                             kind |-> kind, tags |-> tags]}
  /\ UNCHANGED <<vlans, lines>>

StoreVlan ==
  \E v \in VlanNums \ DOMAIN vlans, name \in Names :
    /\ vlans' = [w \in DOMAIN vlans \cup {v} |-> IF w = v THEN name ELSE vlans[w]]
    /\ UNCHANGED <<nodes, lines>>

\* Nodes that are alike are one here, which may so be linked to itself.
StoreLink ==
  /\ Cardinality(lines) < MostLines
  /\ \E a, b \in nodes, t \in DOMAIN LegendLen, text \in LinkTexts :
       lines' = lines \cup {[from |-> a, to |-> b, type |-> t, text |-> text]}
  /\ UNCHANGED <<nodes, vlans>>

ImageNext == StoreNode \/ StoreVlan \/ StoreLink

ImageSpec == ImageInit /\ [][ImageNext]_imageVars

-----------------------------------------------------------------------------
(* Nodes are the ones the editor can place, with tags the diagram lists, and *)
(* links join them.                                                         *)
ImageTypeOK ==
  /\ \A n \in nodes : n.x \in Places /\ n.y \in Places /\ n.tags \subseteq DOMAIN vlans
  /\ \A l \in lines : l.from \in nodes /\ l.to \in nodes /\ l.type \in DOMAIN LegendLen

\* The box of a link's text is no wider than its two nodes are on average,
\* with the margins of the picture on both sides.
Moderate(l) ==
  2 * LabelW(l) <= NodeWidth(l.from) + NodeWidth(l.to) + 4 * Pad

\* No box and no key is cut off: the boxes of the nodes and the legend lie in
\* the view, the tags of a node in its box and the columns of the legend in
\* its frame, however long these texts are.  The text of a link lies in the
\* view if it is moderate, as every text of up to 29 letters is, for no box is
\* narrower than 140 pixels (the view, topoNodeWidth, topoLegend.size).
NothingCutOff ==
  /\ ImageTypeOK
  /\ \A n \in nodes : /\ Inside(NodeRect(n), View)
                      /\ \A k \in DOMAIN ChipRects(n) : Inside(ChipRects(n)[k], NodeRect(n))
  /\ \A l \in Labelled : Moderate(l) => Inside(LabelRect(l), View)
  /\ Columns # <<>> => Inside(LegendRect, View)
  /\ \A k \in DOMAIN Columns : Inside(ColumnRect(k), LegendRect)

\* The view does not look at the texts of links, so that this does not hold.
LabelsFit == \A l \in Labelled : Inside(LabelRect(l), View)

\* Nothing is covered: the legend and the title keep clear of the boxes and
\* of each other, and the columns of the legend of each other.
NothingCovered ==
  /\ \A n \in nodes : Apart(NodeRect(n), TitleRect) /\ Apart(NodeRect(n), LegendRect)
  /\ Apart(LegendRect, TitleRect)
  /\ \A j, k \in DOMAIN Columns : j # k => Apart(ColumnRect(j), ColumnRect(k))
=============================================================================
