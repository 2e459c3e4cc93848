--------------------------- MODULE SchemaVersions ---------------------------
(***************************************************************************)
(* What internal/db promises of a database file: it is always at one whole *)
(* version.  Its user_version says which migrations it holds, they are the *)
(* first so many of the embedded ones, and they are added one at a time.   *)
(* Migrations implements this.                                             *)
(***************************************************************************)
EXTENDS Naturals

CONSTANT Last   \* number of the newest migration any binary embeds

VARIABLES
  version,  \* PRAGMA user_version
  holds     \* the migrations whose tables and columns are there

versionVars == <<version, holds>>

Init == version = 0 /\ holds = {}

Upgrade ==
  /\ version < Last
  /\ version' = version + 1
  /\ holds' = holds \cup {version'}

\* The file is put back from a backup, which was at a whole version itself.
Restore ==
  \E v \in 0..Last : version' = v /\ holds' = 1..v

Next == Upgrade \/ Restore

Spec == Init /\ [][Next]_versionVars
=============================================================================
