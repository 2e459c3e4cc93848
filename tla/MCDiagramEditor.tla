--------------------------- MODULE MCDiagramEditor ---------------------------
(* Small inventories and stored diagrams for the editor. *)
EXTENDS DiagramEditor

TwoKinds == {"server", "vlan"}
Typed == {{}, {"text"}}
TypedSpaces == {{}, Spaces}

Cable(name, dev, sw, mode) == [name |-> name, device |-> dev, switch |-> sw, mode |-> mode]

\* A server with three cables to a router, one recorded from its other end, and
\* a service on the server.
Lab(nums) ==
  [vlans |-> <<[id |-> "v1", num |-> nums[1]], [id |-> "v2", num |-> nums[2]]>>,
   devices |-> <<[id |-> "d1", kind |-> "server", vlans |-> <<"v2", "v1">>],
                 [id |-> "d2", kind |-> "router", vlans |-> <<>>]>>,
   services |-> <<[id |-> "s1", host |-> "d1", vlans |-> <<"v1">>]>>,
   conns |-> <<Cable("c1", "d1", "d2", "Access"), Cable("c2", "d1", "d2", "Trunk"),
               Cable("c3", "d2", "d1", "Trunk")>>]

\* An inventory of one VLAN.
OneVlan == {[vlans |-> <<[id |-> "v1", num |-> 10]>>, devices |-> <<>>,
             services |-> <<>>, conns |-> <<>>]}

\* It loses its devices and cables, and gets them back.  The second VLAN of
\* the lab has a number the inventory takes and diagrams do not.
Mixed == {Lab(<<10, 5000>>)} \cup OneVlan

EmptyDiagram == [nodes |-> <<>>, links |-> <<>>, vlans |-> <<>>]

\* An old diagram: a VLAN box on a server; some of its items were deleted.
OldDiagram ==
  [nodes |-> <<[id |-> 1, kind |-> "server", num |-> 0, ref |-> NoRef, tags |-> <<>>],
               [id |-> 4, kind |-> "vlan", num |-> 0, ref |-> <<"vlans", "v1">>,
                tags |-> <<>>]>>,
   links |-> <<[id |-> 5, from |-> 4, to |-> 1, label |-> {}, style |-> ""]>>,
   vlans |-> <<20>>]
OldDiagrams == {EmptyDiagram, OldDiagram}
=============================================================================
