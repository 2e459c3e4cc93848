----------------------------- MODULE Migrations -----------------------------
(***************************************************************************)
(* Opening, migrating, backing up and restoring the database file          *)
(* (internal/db/db.go, cmd/labdoc/main.go): any number of processes, of    *)
(* binaries that embed different migrations, start, race, are killed and   *)
(* are started again on one file.                                          *)
(*                                                                         *)
(* A step is one SQLite statement or one look at a file.  A transaction is *)
(* deferred: its first write takes SQLite's write lock, and what it wrote  *)
(* is seen by nobody until it commits.                                     *)
(***************************************************************************)
EXTENDS Naturals, FiniteSets

CONSTANTS
  Servers,     \* labdoc processes that serve
  Copiers,     \* labdoc -backup processes
  Last,        \* number of the newest migration any binary embeds
  Latest,      \* process -> the newest migration its binary embeds
  Data,        \* what the tables may hold
  Dests,       \* paths backups are written to
  MaxFaults,   \* bound: kills, failing statements and restores
  ClearsLog,   \* whether who restores a backup removes the -wal file too
  None         \* no process, no path, no backup

Procs == Servers \cup Copiers

ASSUME LastAssumption == Last \in Nat
ASSUME LatestAssumption == Latest \in [Procs -> 0..Last]
ASSUME RolesAssumption == Servers \cap Copiers = {}
ASSUME MaxFaultsAssumption == MaxFaults \in Nat
ASSUME DataAssumption == Data # {}
ASSUME ClearsLogAssumption == ClearsLog \in BOOLEAN
ASSUME NoneAssumption == None \notin Procs \cup Dests

\* A database's content: the page with user_version, the pages with the
\* schema (as the migrations whose objects are there), and the rest.
Content == [version : 0..Last, holds : SUBSET (1..Last), data : Data]
Pages == {"version", "holds", "data"}
Fresh(d) == [version |-> 0, holds |-> {}, data |-> d]

VARIABLES
  db,        \* the content a reader of the file and its -wal log sees
  logged,    \* the pages the -wal file holds
  lock,      \* the process whose transaction holds the write lock, or None
  draft,     \* the content as that transaction sees it
  pc,        \* process -> its next step
  next,      \* process -> the migration its loop has come to
  dest,      \* process -> the path of its backup, or None
  files,     \* path -> whether a backup file is there, and complete
  copies,    \* path -> what VACUUM INTO copies to it (as read at its start)
  written,   \* history: paths of backups that were reported as written
  restored,  \* history: the path restored, until the file is written again
  faults     \* history: kills, failing statements and restores so far

storeVars == <<db, logged, restored>>
txVars == <<lock, draft>>
localVars == <<next, dest>>
fileVars == <<files, copies, written>>
vars == <<storeVars, txVars, pc, localVars, fileVars, faults>>

\* open: about to read user_version.  exec, stamp, commit: the transaction of
\* migration `next`.  stat, vacuum, copying: Backup.
Migrating == {"exec", "stamp", "commit"}
Copying == {"stat", "vacuum", "copying"}
Steps == {"off", "open", "serving"} \cup Migrating \cup Copying

Off(p) == pc[p] = "off"
Goto(p, step) == pc' = [pc EXCEPT ![p] = step]
IsThere(d) == files[d] # "absent"
Fault == faults < MaxFaults /\ faults' = faults + 1

-----------------------------------------------------------------------------
(* How a process ends. *)

\* Mutant: a failing migration is not rolled back.
Unlocked_Kept(p) == lock' = lock

Unlocked(p) == lock' = IF lock = p THEN None ELSE lock

\* The last process that closes the file moves the log into it and removes
\* the log.  A process that dies, or leaves by log.Fatalf, closes nothing.
Closed(p) ==
  logged' = IF \A q \in Procs \ {p} : Off(q) THEN {} ELSE logged

\* Open rolls back, closes the file and returns an error.
OpenFails(p) ==
  /\ Goto(p, "off")
  /\ Unlocked(p)
  /\ Closed(p)
  /\ UNCHANGED <<db, draft, restored, localVars, fileVars>>

Dies(p) ==
  /\ Goto(p, "off")
  /\ Unlocked(p)
  /\ UNCHANGED <<db, logged, draft, restored, localVars, fileVars>>

-----------------------------------------------------------------------------
(* main and migrate. *)

Start(p) ==
  /\ Off(p)
  /\ Goto(p, "open")
  /\ \E d \in IF p \in Copiers THEN Dests ELSE {None} :
       dest' = [dest EXCEPT ![p] = d]
  /\ UNCHANGED <<storeVars, txVars, next, fileVars, faults>>

\* Mutant: the newest migration is left out.
Resume_OneLess(p, n) ==
  IF n < Latest[p] THEN "exec"
  ELSE IF p \in Copiers THEN "stat" ELSE "serving"

\* After the last migration, main serves or makes the backup.
Resume(p, n) ==
  IF n <= Latest[p] THEN "exec"
  ELSE IF p \in Copiers THEN "stat" ELSE "serving"

\* The loop comes to migration n.
Continue(p, n) ==
  /\ next' = [next EXCEPT ![p] = n]
  /\ Goto(p, Resume(p, n))

\* Mutant: the migration that was applied last is applied again.
ReadVersion_Again(p) ==
  /\ pc[p] = "open"
  /\ Continue(p, IF db.version = 0 THEN 1 ELSE db.version)
  /\ UNCHANGED <<storeVars, txVars, dest, fileVars, faults>>

\* SELECT of user_version: migrations up to it are skipped, however much
\* later the loop comes to the others.
ReadVersion(p) ==
  /\ pc[p] = "open"
  /\ Continue(p, db.version + 1)
  /\ UNCHANGED <<storeVars, txVars, dest, fileVars, faults>>

\* Creating what is there is an error.
AppliesTo(n) == n \notin db.holds

\* Begin and the migration's body.
Exec(p) ==
  /\ pc[p] = "exec"
  /\ lock = None
  /\ IF AppliesTo(next[p])
     THEN /\ lock' = p
          /\ draft' = [db EXCEPT !.holds = @ \cup {next[p]}]
          /\ Goto(p, "stamp")
          /\ UNCHANGED <<storeVars, localVars, fileVars>>
     ELSE OpenFails(p)
  /\ UNCHANGED faults

\* busy_timeout runs out while another process holds the write lock.
Busy(p) ==
  /\ pc[p] = "exec"
  /\ lock # None
  /\ OpenFails(p)
  /\ UNCHANGED faults

\* Mutant: the version is written outside the transaction.
Stamp_OnPool(p) ==
  /\ pc[p] = "stamp"
  /\ db' = [db EXCEPT !.version = next[p]]
  /\ draft' = [draft EXCEPT !.version = next[p]]
  /\ Goto(p, "commit")
  /\ UNCHANGED <<logged, restored, lock, localVars, fileVars, faults>>

Stamp(p) ==
  /\ pc[p] = "stamp"
  /\ draft' = [draft EXCEPT !.version = next[p]]
  /\ Goto(p, "commit")
  /\ UNCHANGED <<storeVars, lock, localVars, fileVars, faults>>

Commit(p) ==
  /\ pc[p] = "commit"
  /\ db' = draft
  /\ logged' = logged \cup {"version", "holds"}
  /\ restored' = None
  /\ lock' = None
  /\ Continue(p, next[p] + 1)
  /\ UNCHANGED <<draft, dest, fileVars, faults>>

\* A handler's transaction.  The page of user_version also holds the size of
\* the file, so a write that makes the file grow logs that page too.
Write(p) ==
  /\ pc[p] = "serving"
  /\ lock = None
  /\ \E d \in Data \ {db.data} : db' = [db EXCEPT !.data = d]
  /\ \E grown \in SUBSET {"version"} : logged' = logged \cup {"data"} \cup grown
  /\ restored' = None
  /\ UNCHANGED <<txVars, pc, localVars, fileVars, faults>>

-----------------------------------------------------------------------------
(* Backup. *)

Stat(p) ==
  /\ pc[p] = "stat"
  /\ IF IsThere(dest[p])
     THEN Dies(p)
     ELSE /\ Goto(p, "vacuum")
          /\ UNCHANGED <<storeVars, txVars, localVars, fileVars>>
  /\ UNCHANGED faults

\* SQLite refuses a file that came to be since then, as Stat did.
Vacuum(p) ==
  /\ pc[p] = "vacuum"
  /\ IF IsThere(dest[p])
     THEN Dies(p)
     ELSE /\ files' = [files EXCEPT ![dest[p]] = "partial"]
          /\ copies' = [copies EXCEPT ![dest[p]] = db]
          /\ Goto(p, "copying")
          /\ UNCHANGED <<storeVars, txVars, localVars, written>>
  /\ UNCHANGED faults

\* Mutant: the file is copied as it is found, page by page.
Copied_Live(p) ==
  /\ pc[p] = "copying"
  /\ files' = [files EXCEPT ![dest[p]] = "whole"]
  /\ copies' = [copies EXCEPT ![dest[p]].version = db.version]
  /\ written' = written \cup {dest[p]}
  /\ Goto(p, "off")
  /\ Closed(p)
  /\ UNCHANGED <<db, restored, txVars, localVars, faults>>

\* The copy is complete, main reports it and closes the database.
Copied(p) ==
  /\ pc[p] = "copying"
  /\ files' = [files EXCEPT ![dest[p]] = "whole"]
  /\ written' = written \cup {dest[p]}
  /\ Goto(p, "off")
  /\ Closed(p)
  /\ UNCHANGED <<db, restored, copies, txVars, localVars, faults>>

-----------------------------------------------------------------------------
(* Faults, and the restore README.md describes. *)

\* A statement of migrate fails (disk full, I/O error).
StatementFails(p) ==
  /\ Fault
  /\ pc[p] \in {"open"} \cup Migrating
  /\ OpenFails(p)

\* VACUUM INTO fails, with part of the copy written or none.
CopyFails(p) ==
  /\ Fault
  /\ pc[p] \in {"vacuum", "copying"}
  /\ Dies(p)

\* A crash, or the service manager's SIGTERM: main does not handle it.
Kill(p) ==
  /\ Fault
  /\ ~Off(p)
  /\ Dies(p)

\* The service is stopped and the file put back in its place.  A log that is
\* still there is read on top of it.
Restore(d) ==
  /\ Fault
  /\ \A p \in Procs : Off(p)
  /\ d \in written
  /\ logged' = IF ClearsLog THEN {} ELSE logged
  /\ LET page(f) == IF f \in logged' THEN db[f] ELSE copies[d][f] IN
       db' = [version |-> page("version"), holds |-> page("holds"),
              data |-> page("data")]
  /\ restored' = d
  /\ UNCHANGED <<txVars, pc, localVars, fileVars>>

-----------------------------------------------------------------------------
Init ==
  /\ \E d \in Data :
       /\ db = Fresh(d) /\ draft = Fresh(d)
       /\ copies = [f \in Dests |-> Fresh(d)]
  /\ logged = {}
  /\ lock = None
  /\ pc = [p \in Procs |-> "off"]
  /\ next = [p \in Procs |-> 1]
  /\ dest = [p \in Procs |-> None]
  /\ files = [f \in Dests |-> "absent"]
  /\ written = {} /\ restored = None
  /\ faults = 0

\* What a process does once it runs.
Step(p) ==
  \/ ReadVersion(p) \/ Exec(p) \/ Busy(p) \/ Stamp(p) \/ Commit(p)
  \/ Stat(p) \/ Vacuum(p) \/ Copied(p)

Next ==
  \/ \E p \in Procs : \/ Start(p) \/ Step(p) \/ Write(p)
                      \/ StatementFails(p) \/ CopyFails(p) \/ Kill(p)
  \/ \E d \in Dests : Restore(d)

Spec == Init /\ [][Next]_vars

\* A process that runs goes on, and the service manager starts a server that
\* is not there again.  Nothing is assumed of backups and of requests.
FairSpec ==
  /\ Spec
  /\ \A p \in Procs : WF_vars(Step(p))
  /\ \A p \in Servers : WF_vars(Start(p))

-----------------------------------------------------------------------------
(* Values have their types; who is in a transaction holds the lock.        *)
TypeOK ==
  /\ db \in Content /\ draft \in Content
  /\ logged \in SUBSET Pages
  /\ lock \in Procs \cup {None}
  /\ pc \in [Procs -> Steps]
  /\ next \in [Procs -> 1..Last + 1]
  /\ dest \in [Procs -> Dests \cup {None}]
  /\ files \in [Dests -> {"absent", "partial", "whole"}]
  /\ copies \in [Dests -> Content]
  /\ written \in SUBSET Dests /\ restored \in Dests \cup {None}
  /\ faults \in 0..MaxFaults
  /\ \A p \in Procs : pc[p] \in {"stamp", "commit"} <=> lock = p
  /\ \A p \in Procs : pc[p] \in Copying => p \in Copiers
  /\ \A p \in Copiers : ~Off(p) => dest[p] \in Dests

\* user_version tells which migrations the file holds, whoever died where.
Sound(content) == content.holds = 1..content.version
VersionTellsSchema == Sound(db)

\* A process that serves, or copies, finds all the tables its binary knows:
\* also if another process migrated the file at the same time.
ServedIsMigrated ==
  \A p \in Procs : pc[p] \in {"serving"} \cup Copying =>
    1..Latest[p] \subseteq db.holds

\* A backup that was reported is whole, is at a version of its own, and no
\* later backup to the same path has touched it.
BackupsUsable ==
  \A d \in written :
    /\ files[d] = "whole"
    /\ Sound(copies[d])
    /\ \A p \in Procs : pc[p] = "copying" => dest[p] # d

\* Every process, of whatever binary, leaves the file at a whole version.
Versions == INSTANCE SchemaVersions WITH version <- db.version,
                                         holds <- db.holds
RefinesVersions == Versions!Spec

\* Once faults are over, every server comes to serve: racing another one may
\* fail it, but then the other one got ahead.
ServersComeUp == \A p \in Servers : Off(p) ~> pc[p] = "serving"

\* README.md on a restored backup: what is restored is what was saved.
RestoredIsBackup == restored # None => db = copies[restored]
=============================================================================
