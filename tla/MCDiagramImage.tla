--------------------------- MODULE MCDiagramImage ---------------------------
EXTENDS DiagramImage

\* The letters of the shortest legend of a link, and of the longest kind.
Legends == [link |-> 26]
KindLabels == [hypervisor |-> 15]
=============================================================================
