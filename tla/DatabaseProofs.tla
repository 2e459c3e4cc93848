--------------------------- MODULE DatabaseProofs ---------------------------
(***************************************************************************)
(* Machine-checked theorems about the database file, its migrations and    *)
(* its backups, and about the pool of one connection to it.                *)
(***************************************************************************)
EXTENDS Migrations, ConnPool, SequenceTheorems, TLAPS

-----------------------------------------------------------------------------
(* Migrations: any number of processes, binaries, paths and faults.  The    *)
(* theorems after TypeCorrect are about an operator who removes the log of  *)
(* the file that a backup replaces.                                         *)

\* A process applies only migrations its binary embeds.
WithinBinary == \A p \in Procs : pc[p] \in Migrating => next[p] <= Latest[p]

TInv == TypeOK /\ WithinBinary

LEMMA InitType == Init => TInv
BY LastAssumption, NoneAssumption, MaxFaultsAssumption
   DEF Init, TInv, TypeOK, WithinBinary, Off, Procs, Content, Pages, Fresh, Steps,
       Migrating, Copying

\* What the loop of migrate goes on to.
LEMMA ResumeType ==
  ASSUME NEW p \in Procs, NEW n \in Nat
  PROVE  /\ Resume(p, n) \in {"exec", "stat", "serving"}
         /\ Resume(p, n) = "exec" => n <= Latest[p]
         /\ Resume(p, n) # "exec" => Latest[p] < n
         /\ Resume(p, n) = "stat" => p \in Copiers
BY LatestAssumption, LastAssumption DEF Resume

\* Ending a process, in the two ways the code has.
LEMMA EndType ==
  ASSUME TInv, NEW p \in Procs, OpenFails(p) \/ Dies(p), faults' \in 0..MaxFaults
  PROVE  TInv'
<1>1. /\ Goto(p, "off") /\ lock' = (IF lock = p THEN None ELSE lock)
      /\ UNCHANGED <<db, draft, restored, localVars, fileVars>>
  BY DEF OpenFails, Dies, Unlocked
<1>2. logged' \in {logged, {}}
  BY DEF OpenFails, Dies, Closed
<1> QED
  BY <1>1, <1>2, NoneAssumption
     DEF TInv, TypeOK, WithinBinary, Goto, localVars, fileVars, Off, Procs,
         Steps, Migrating, Copying

LEMMA ContinueType ==
  ASSUME TInv, NEW p \in Procs, NEW n \in 1..Last + 1, Continue(p, n),
         ~Off(p), lock' # p, lock' \in {lock, None}, lock \in {p} => lock' = None,
         lock' = lock \/ lock = p,
         UNCHANGED <<draft, dest, fileVars, faults>>,
         db' \in Content, logged' \in SUBSET Pages, restored' \in Dests \cup {None}
  PROVE  TInv'
<1>1. /\ Resume(p, n) \in {"exec", "stat", "serving"}
      /\ Resume(p, n) = "exec" => n <= Latest[p]
      /\ Resume(p, n) = "stat" => p \in Copiers
  BY ResumeType, LastAssumption
<1> QED
  BY <1>1, NoneAssumption
     DEF TInv, TypeOK, WithinBinary, Continue, Goto, Off, fileVars, Steps,
         Migrating, Copying, Procs

LEMMA TypeStep == TInv /\ [Next]_vars => TInv'
<1> USE LastAssumption, LatestAssumption, NoneAssumption, MaxFaultsAssumption
<1> SUFFICES ASSUME TInv, [Next]_vars PROVE TInv'
  OBVIOUS
<1>t. TypeOK /\ WithinBinary
  BY DEF TInv
<1> USE DEF storeVars, txVars, localVars, fileVars
<1>1. CASE UNCHANGED vars
  BY <1>1 DEF TInv, TypeOK, WithinBinary, Off, vars
<1>2. ASSUME NEW p \in Procs, Start(p) PROVE TInv'
  BY <1>2, <1>t
     DEF Start, Off, Goto, TInv, TypeOK, WithinBinary, Steps, Migrating,
         Copying, Procs
<1>3. ASSUME NEW p \in Procs, ReadVersion(p) PROVE TInv'
  <2>1. PICK n \in 1..Last + 1 : n = db.version + 1
    BY <1>t DEF TypeOK, Content
  <2> QED
    BY <1>3, <1>t, <2>1, ContinueType DEF ReadVersion, TypeOK, Off
<1>4. ASSUME NEW p \in Procs, Exec(p) PROVE TInv'
  <2>1. CASE AppliesTo(next[p])
    <3>1. next[p] \in 1..Last
      BY <1>t, <1>4 DEF Exec, TypeOK, WithinBinary, Migrating
    <3>2. draft' \in Content
      BY <1>4, <1>t, <2>1, <3>1 DEF Exec, TypeOK, Content
    <3>3. /\ lock = None /\ lock' = p /\ Goto(p, "stamp") /\ pc[p] = "exec"
          /\ UNCHANGED <<storeVars, localVars, fileVars, faults>>
      BY <1>4, <2>1 DEF Exec
    <3> QED
      BY <1>t, <3>2, <3>3
         DEF Goto, TInv, TypeOK, WithinBinary, Off, Steps, Migrating,
             Copying, Procs
  <2>2. CASE ~AppliesTo(next[p])
    BY <1>4, <1>t, <2>2, EndType DEF Exec, TypeOK
  <2> QED
    BY <2>1, <2>2
<1>5. ASSUME NEW p \in Procs, Busy(p) PROVE TInv'
  BY <1>5, <1>t, EndType DEF Busy, TypeOK
<1>6. ASSUME NEW p \in Procs, Stamp(p) PROVE TInv'
  <2>1. [draft EXCEPT !.version = next[p]] \in Content
    BY <1>t, <1>6 DEF Stamp, TypeOK, WithinBinary, Migrating, Content
  <2> QED
    BY <1>6, <1>t, <2>1
       DEF Stamp, Goto, TInv, TypeOK, WithinBinary, Off, Steps, Migrating,
           Copying, Procs
<1>7. ASSUME NEW p \in Procs, Commit(p) PROVE TInv'
  <2>1. PICK n \in 1..Last + 1 : n = next[p] + 1
    BY <1>t, <1>7 DEF Commit, TypeOK, WithinBinary, Migrating
  <2> QED
    BY <1>7, <1>t, <2>1, ContinueType DEF Commit, TypeOK, Off, Pages
<1>8. ASSUME NEW p \in Procs, Write(p) PROVE TInv'
  <2>1. db' \in Content
    BY <1>t, <1>8 DEF Write, TypeOK, Content
  <2> QED
    BY <1>8, <1>t, <2>1 DEF Write, TInv, TypeOK, WithinBinary, Off, Pages
<1>9. ASSUME NEW p \in Procs, Stat(p) PROVE TInv'
  <2>1. CASE IsThere(dest[p])
    BY <1>9, <1>t, <2>1, EndType DEF Stat, TypeOK
  <2>2. CASE ~IsThere(dest[p])
    BY <1>9, <1>t, <2>2
       DEF Stat, Goto, TInv, TypeOK, WithinBinary, Off, Steps, Migrating,
           Copying, Procs
  <2> QED
    BY <2>1, <2>2
<1>10. ASSUME NEW p \in Procs, Vacuum(p) PROVE TInv'
  <2>1. CASE IsThere(dest[p])
    BY <1>10, <1>t, <2>1, EndType DEF Vacuum, TypeOK
  <2>2. CASE ~IsThere(dest[p])
    BY <1>10, <1>t, <2>2
       DEF Vacuum, Goto, TInv, TypeOK, WithinBinary, Off, Steps, Migrating,
           Copying, Procs
  <2> QED
    BY <2>1, <2>2
<1>11. ASSUME NEW p \in Procs, Copied(p) PROVE TInv'
  BY <1>11, <1>t
     DEF Copied, Closed, Goto, TInv, TypeOK, WithinBinary, Off, Steps,
         Migrating, Copying, Procs
<1>12. ASSUME NEW p \in Procs, StatementFails(p) \/ CopyFails(p) \/ Kill(p)
       PROVE  TInv'
  BY <1>12, <1>t, EndType
     DEF StatementFails, CopyFails, Kill, Fault, TypeOK
<1>13. ASSUME NEW d \in Dests, Restore(d) PROVE TInv'
  <2>1. db' \in Content
    BY <1>t, <1>13 DEF Restore, TypeOK, Content
  <2> QED
    BY <1>13, <1>t, <2>1
       DEF Restore, Fault, TInv, TypeOK, WithinBinary, Off, Procs
<1> QED
  BY <1>1, <1>2, <1>3, <1>4, <1>5, <1>6, <1>7, <1>8, <1>9, <1>10, <1>11,
     <1>12, <1>13
  DEF Next, Step

\* Whatever processes, faults and restores come: who is in a transaction
\* holds the lock, and only a backup comes to copy.
THEOREM TypeCorrect == Spec => []TypeOK
<1>1. TInv => TypeOK
  BY DEF TInv
<1> QED
  BY <1>1, InitType, TypeStep, PTL DEF Spec

-----------------------------------------------------------------------------
(* The version and the schema. *)

\* While a process runs, the version it read is not overtaken by a smaller one.
Seen == \A p \in Procs : pc[p] \in Migrating => next[p] <= db.version + 1

\* A transaction adds the one migration that comes next.
DraftFits ==
  \A p \in Procs : pc[p] \in {"stamp", "commit"} =>
    /\ next[p] = db.version + 1
    /\ draft.holds = db.holds \cup {next[p]}
    /\ pc[p] = "commit" => draft.version = next[p]

\* Processes that came through migrate.
Through ==
  \A p \in Procs : pc[p] \in {"serving"} \cup Copying => Latest[p] <= db.version

VInv == TInv /\ VersionTellsSchema /\ Seen /\ DraftFits /\ Through

LEMMA InitVersion == Init => VInv
<1> SUFFICES ASSUME Init PROVE VInv
  OBVIOUS
<1>1. TInv
  BY InitType
<1>2. VersionTellsSchema
  <2>1. db.version = 0 /\ db.holds = {}
    BY DEF Init, Fresh
  <2> QED
    BY <2>1 DEF VersionTellsSchema, Sound
<1> QED
  BY <1>1, <1>2 DEF Init, VInv, Seen, DraftFits, Through, Migrating, Copying

\* A step that leaves the content as it is, and takes no process into a
\* migration or past it.
LEMMA QuietVersion ==
  ASSUME VInv, TInv', UNCHANGED <<db, draft, next>>, NEW p \in Procs,
         NEW step \in {"off", "open", "vacuum", "copying"}, Goto(p, step),
         step \in {"vacuum", "copying"} => pc[p] \in Copying
  PROVE  VInv'
BY DEF VInv, TInv, TypeOK, VersionTellsSchema, Sound, Seen, DraftFits, Through,
       Goto, Migrating, Copying

SavedSound == \A d \in written : Sound(copies[d])

LEMMA VersionStep == ClearsLog /\ VInv /\ SavedSound /\ [Next]_vars => VInv'
<1> USE LastAssumption, LatestAssumption
<1> SUFFICES ASSUME ClearsLog, VInv, SavedSound, [Next]_vars PROVE VInv'
  OBVIOUS
<1>t. TInv' /\ TypeOK /\ WithinBinary
  BY TypeStep DEF VInv, TInv
<1>v. db.version \in 0..Last /\ db.holds = 1..db.version
  BY <1>t DEF VInv, VersionTellsSchema, Sound, TypeOK, Content
<1> USE DEF storeVars, txVars, localVars, fileVars
<1>1. CASE UNCHANGED vars
  BY <1>1, <1>t
     DEF VInv, VersionTellsSchema, Sound, Seen, DraftFits, Through, vars
<1>2. ASSUME NEW p \in Procs, OpenFails(p) \/ Dies(p) PROVE VInv'
  BY <1>2, <1>t, QuietVersion DEF OpenFails, Dies
<1>3. ASSUME NEW p \in Procs, Start(p) PROVE VInv'
  BY <1>3, <1>t, QuietVersion DEF Start
<1>4. ASSUME NEW p \in Procs, ReadVersion(p) PROVE VInv'
  <2>1. PICK n \in Nat : n = db.version + 1
    BY <1>v
  <2>2. /\ Resume(p, n) \in {"exec", "stat", "serving"}
        /\ Resume(p, n) # "exec" => Latest[p] < n
    BY ResumeType, <2>1
  <2>3. Latest[p] \in Nat /\ pc \in [Procs -> Steps] /\ next \in [Procs -> 1..Last+1]
    BY <1>t DEF TypeOK
  <2>4. next' = [next EXCEPT ![p] = n] /\ pc' = [pc EXCEPT ![p] = Resume(p, n)]
        /\ UNCHANGED <<db, draft>>
    BY <1>4, <2>1 DEF ReadVersion, Continue, Goto
  <2> QED
    BY <1>t, <1>v, <2>1, <2>2, <2>3, <2>4
       DEF VInv, VersionTellsSchema, Sound, Seen, DraftFits, Through,
           Migrating, Copying
<1>5. ASSUME NEW p \in Procs, Exec(p) PROVE VInv'
  <2>1. CASE AppliesTo(next[p])
    <3>1. next[p] = db.version + 1
      BY <1>5, <1>t, <1>v, <2>1
         DEF Exec, VInv, Seen, AppliesTo, TypeOK, Migrating
    <3>2. draft'.holds = db.holds \cup {next[p]}
      BY <1>5, <1>t, <2>1 DEF Exec, TypeOK, Content
    <3>3. lock = None /\ lock' = p /\ pc' = [pc EXCEPT ![p] = "stamp"]
          /\ pc[p] = "exec" /\ UNCHANGED <<db, next>>
      BY <1>5, <2>1 DEF Exec, Goto
    <3>4. \A q \in Procs : pc[q] \notin {"stamp", "commit"}
      BY <1>t, <3>3, NoneAssumption DEF TypeOK
    <3> QED
      BY <1>t, <1>v, <3>1, <3>2, <3>3, <3>4
         DEF VInv, VersionTellsSchema, Sound, Seen, DraftFits, Through,
             TypeOK, Migrating, Copying
  <2>2. CASE ~AppliesTo(next[p])
    BY <1>5, <1>2, <2>2 DEF Exec
  <2> QED
    BY <2>1, <2>2
<1>6. ASSUME NEW p \in Procs, Stamp(p) PROVE VInv'
  <2>1. draft'.holds = draft.holds /\ draft'.version = next[p]
    BY <1>6, <1>t DEF Stamp, TypeOK, Content
  <2>2. pc[p] = "stamp" /\ pc' = [pc EXCEPT ![p] = "commit"]
        /\ UNCHANGED <<db, next>>
    BY <1>6 DEF Stamp, Goto
  <2>3. \A q \in Procs \ {p} : pc[q] \notin {"stamp", "commit"}
    BY <1>t, <2>2 DEF TypeOK
  <2> QED
    BY <1>t, <1>v, <2>1, <2>2, <2>3
       DEF VInv, VersionTellsSchema, Sound, Seen, DraftFits, Through,
           TypeOK, Migrating, Copying
<1>7. ASSUME NEW p \in Procs, Commit(p) PROVE VInv'
  <2>1. /\ next[p] = db.version + 1 /\ next[p] \in 1..Last
        /\ db'.version = next[p] /\ db'.holds = db.holds \cup {next[p]}
    BY <1>7, <1>t DEF Commit, VInv, DraftFits, TypeOK, WithinBinary, Migrating
  <2>2. db'.holds = 1..db'.version
    BY <1>v, <2>1
  <2>3. PICK n \in Nat : n = next[p] + 1
    BY <2>1
  <2>4. /\ Resume(p, n) \in {"exec", "stat", "serving"}
        /\ Resume(p, n) # "exec" => Latest[p] < n
    BY ResumeType, <2>3
  <2>5. pc[p] = "commit" /\ next' = [next EXCEPT ![p] = n]
        /\ pc' = [pc EXCEPT ![p] = Resume(p, n)]
    BY <1>7, <2>3 DEF Commit, Continue, Goto
  <2>6. \A q \in Procs \ {p} : pc[q] \notin {"stamp", "commit"}
    BY <1>t, <2>5 DEF TypeOK
  <2> QED
    BY <1>t, <1>v, <2>1, <2>2, <2>3, <2>4, <2>5, <2>6
       DEF VInv, VersionTellsSchema, Sound, Seen, DraftFits, Through,
           TypeOK, Migrating, Copying
<1>8. ASSUME NEW p \in Procs, Write(p) PROVE VInv'
  <2>1. /\ db'.version = db.version /\ db'.holds = db.holds
        /\ UNCHANGED <<draft, pc, next>>
    BY <1>8, <1>t DEF Write, TypeOK, Content
  <2> QED
    BY <1>t, <2>1 DEF VInv, VersionTellsSchema, Sound, Seen, DraftFits, Through
<1>9. ASSUME NEW p \in Procs, Stat(p) \/ Vacuum(p) PROVE VInv'
  <2>1. \/ Dies(p)
        \/ /\ UNCHANGED <<db, draft, next>> /\ pc[p] \in Copying
           /\ Goto(p, "vacuum") \/ Goto(p, "copying")
    BY <1>9 DEF Stat, Vacuum, Copying
  <2> QED
    BY <1>2, <1>t, <2>1, QuietVersion
<1>10. ASSUME NEW p \in Procs, Copied(p) PROVE VInv'
  BY <1>10, <1>t, QuietVersion DEF Copied
<1>11. ASSUME NEW d \in Dests, Restore(d) PROVE VInv'
  <2>1. db' = [version |-> copies[d].version, holds |-> copies[d].holds,
               data |-> copies[d].data]
    BY <1>11 DEF Restore
  <2>2. Sound(copies[d]) /\ \A p \in Procs : pc'[p] = "off"
    BY <1>11 DEF Restore, Off, SavedSound
  <2> QED
    BY <1>11, <1>t, <2>1, <2>2
       DEF VInv, VersionTellsSchema, Sound, Seen, DraftFits, Through,
           Migrating, Copying
<1>12. ASSUME NEW p \in Procs, Busy(p) \/ StatementFails(p) \/ CopyFails(p) \/ Kill(p)
       PROVE  VInv'
  BY <1>2, <1>12 DEF Busy, StatementFails, CopyFails, Kill
<1> QED
  BY <1>1, <1>3, <1>4, <1>5, <1>6, <1>7, <1>8, <1>9, <1>10, <1>11, <1>12
  DEF Next, Step

-----------------------------------------------------------------------------
(* Backups. *)

\* A copy under way is of one committed content, to a file nobody else writes.
CopiesApart ==
  \A p \in Procs : pc[p] = "copying" =>
    /\ files[dest[p]] = "partial"
    /\ Sound(copies[dest[p]])
    /\ \A q \in Procs \ {p} : pc[q] = "copying" => dest[q] # dest[p]

SavedWhole == \A d \in written : files[d] = "whole"

CInv == CopiesApart /\ SavedWhole /\ SavedSound

LEMMA InitCopies == Init => CInv
BY DEF Init, CInv, CopiesApart, SavedWhole, SavedSound

\* A step that leaves the files alone, and takes no process into a copy.
LEMMA QuietCopies ==
  ASSUME TypeOK, CInv, UNCHANGED <<copies, files, written>>,
         \A q \in Procs : pc'[q] = "copying" => pc[q] = "copying" /\ dest'[q] = dest[q]
  PROVE  CInv'
BY DEF CInv, CopiesApart, SavedWhole, SavedSound, Sound

LEMMA CopiesStep == VInv /\ CInv /\ [Next]_vars => CInv'
<1> SUFFICES ASSUME VInv, CInv, [Next]_vars PROVE CInv'
  OBVIOUS
<1>t. TypeOK
  BY DEF VInv, TInv
<1> USE DEF storeVars, txVars, localVars, fileVars
<1>1. CASE UNCHANGED vars
  BY <1>1, <1>t, QuietCopies DEF vars
<1>2. ASSUME NEW p \in Procs, OpenFails(p) \/ Dies(p) PROVE CInv'
  BY <1>2, <1>t, QuietCopies DEF OpenFails, Dies, Goto, TypeOK
<1>3. ASSUME NEW p \in Procs, Start(p) PROVE CInv'
  BY <1>3, <1>t, QuietCopies DEF Start, Goto, TypeOK, Off
<1>4. ASSUME NEW p \in Procs, NEW n \in Nat, Continue(p, n), UNCHANGED <<dest, fileVars>>
      PROVE  CInv'
  <2>1. Resume(p, n) # "copying"
    BY DEF Resume
  <2> QED
    BY <1>4, <1>t, <2>1, QuietCopies DEF Continue, Goto, TypeOK
<1>5. ASSUME NEW p \in Procs, ReadVersion(p) \/ Commit(p) PROVE CInv'
  <2>1. db.version + 1 \in Nat /\ next[p] + 1 \in Nat
    BY <1>t, LastAssumption DEF TypeOK, Content
  <2> QED
    BY <1>4, <1>5, <2>1 DEF ReadVersion, Commit
<1>6. ASSUME NEW p \in Procs, Exec(p) \/ Stamp(p) \/ Stat(p) PROVE CInv'
  <2>1. \/ OpenFails(p) \/ Dies(p)
        \/ /\ Goto(p, "stamp") \/ Goto(p, "commit") \/ Goto(p, "vacuum")
           /\ UNCHANGED <<dest, fileVars>>
    BY <1>6 DEF Exec, Stamp, Stat
  <2> QED
    BY <1>2, <1>t, <2>1, QuietCopies DEF Goto, TypeOK
<1>7. ASSUME NEW p \in Procs, Write(p) PROVE CInv'
  BY <1>7, <1>t, QuietCopies DEF Write
<1>8. ASSUME NEW p \in Procs, Vacuum(p) PROVE CInv'
  <2>1. CASE IsThere(dest[p])
    BY <1>2, <1>8, <2>1 DEF Vacuum
  <2>2. CASE ~IsThere(dest[p])
    <3>1. /\ pc[p] = "vacuum" /\ pc' = [pc EXCEPT ![p] = "copying"]
          /\ files' = [files EXCEPT ![dest[p]] = "partial"]
          /\ copies' = [copies EXCEPT ![dest[p]] = db]
          /\ UNCHANGED <<dest, written>>
      BY <1>8, <2>2 DEF Vacuum, Goto
    <3>2. dest[p] \in Dests /\ files[dest[p]] = "absent"
      BY <1>t, <2>2, <3>1 DEF TypeOK, IsThere, Copying, Off
    <3>3. Sound(db)
      BY DEF VInv, VersionTellsSchema
    <3> QED
      BY <1>t, <3>1, <3>2, <3>3
         DEF CInv, CopiesApart, SavedWhole, SavedSound, Sound, TypeOK
  <2> QED
    BY <2>1, <2>2
<1>9. ASSUME NEW p \in Procs, Copied(p) PROVE CInv'
  <2>1. /\ pc[p] = "copying" /\ pc' = [pc EXCEPT ![p] = "off"]
        /\ files' = [files EXCEPT ![dest[p]] = "whole"]
        /\ written' = written \cup {dest[p]}
        /\ UNCHANGED <<dest, copies>>
    BY <1>9 DEF Copied, Goto
  <2>2. dest[p] \in Dests
    BY <1>t, <2>1 DEF TypeOK, Copying, Off
  <2> QED
    BY <1>t, <2>1, <2>2
       DEF CInv, CopiesApart, SavedWhole, SavedSound, Sound, TypeOK
<1>10. ASSUME NEW d \in Dests, Restore(d) PROVE CInv'
  BY <1>10, <1>t, QuietCopies DEF Restore
<1>11. ASSUME NEW p \in Procs, Busy(p) \/ StatementFails(p) \/ CopyFails(p) \/ Kill(p)
       PROVE  CInv'
  BY <1>2, <1>11 DEF Busy, StatementFails, CopyFails, Kill
<1> QED
  BY <1>1, <1>3, <1>5, <1>6, <1>7, <1>8, <1>9, <1>10, <1>11 DEF Next, Step

-----------------------------------------------------------------------------
LEMMA Reachable == ASSUME ClearsLog PROVE Spec => [](VInv /\ CInv)
<1>1. VInv /\ CInv /\ [Next]_vars => (VInv /\ CInv)'
  BY VersionStep, CopiesStep DEF CInv
<1> QED
  BY <1>1, InitVersion, InitCopies, PTL DEF Spec

\* user_version tells which migrations the file holds, whichever processes
\* died between which two statements.
THEOREM VersionCorrect == ASSUME ClearsLog PROVE Spec => []VersionTellsSchema
<1>1. VInv => VersionTellsSchema
  BY DEF VInv
<1> QED
  BY <1>1, Reachable, PTL

\* A process serves, or copies, only on a schema that has all its binary
\* knows, also when it read the version before another process migrated.
THEOREM ServedCorrect == ASSUME ClearsLog PROVE Spec => []ServedIsMigrated
<1>1. VInv => ServedIsMigrated
  BY LatestAssumption, LastAssumption
     DEF VInv, TInv, TypeOK, Content, VersionTellsSchema, Sound, Through, ServedIsMigrated
<1> QED
  BY <1>1, Reachable, PTL

\* A reported backup is a sound copy for good.
THEOREM BackupsCorrect == ASSUME ClearsLog PROVE Spec => []BackupsUsable
<1>1. VInv /\ CInv => BackupsUsable
  BY DEF CInv, CopiesApart, SavedWhole, SavedSound, BackupsUsable
<1> QED
  BY <1>1, Reachable, PTL

-----------------------------------------------------------------------------
(* Refinement: a step leaves the version and the schema alone, or is one of *)
(* the two steps of SchemaVersions.                                         *)

LEMMA VersionMoves ==
  ASSUME ClearsLog, VInv, CInv, [Next]_vars
  PROVE  [Versions!Next]_(Versions!versionVars)
<1> USE LastAssumption DEF storeVars, txVars, localVars, fileVars
<1>t. TypeOK /\ WithinBinary /\ VersionTellsSchema
  BY DEF VInv, TInv
<1>1. ASSUME UNCHANGED <<db.version, db.holds>>
      PROVE  [Versions!Next]_(Versions!versionVars)
  BY <1>1 DEF Versions!versionVars
<1>2. ASSUME NEW p \in Procs, Commit(p) PROVE Versions!Upgrade
  <2>1. /\ next[p] = db.version + 1 /\ next[p] \in 1..Last
        /\ db'.version = next[p] /\ db'.holds = db.holds \cup {next[p]}
    BY <1>2, <1>t, LatestAssumption
       DEF Commit, VInv, DraftFits, TypeOK, WithinBinary, Migrating
  <2> QED
    BY <1>t, <2>1 DEF Versions!Upgrade, TypeOK, Content
<1>3. ASSUME NEW d \in Dests, Restore(d) PROVE Versions!Restore
  <2>1. db'.version = copies[d].version /\ db'.holds = copies[d].holds
    BY <1>3 DEF Restore
  <2>2. copies[d].version \in 0..Last /\ copies[d].holds = 1..copies[d].version
    BY <1>3, <1>t DEF Restore, CInv, SavedSound, Sound, TypeOK, Content
  <2> QED
    BY <2>1, <2>2 DEF Versions!Restore
<1>4. ASSUME NEW p \in Procs, Write(p)
      PROVE  UNCHANGED <<db.version, db.holds>>
  BY <1>4, <1>t DEF Write, TypeOK, Content
<1>5. CASE UNCHANGED vars
  BY <1>1, <1>5 DEF vars
<1>6. ASSUME NEW p \in Procs,
             \/ Start(p) \/ ReadVersion(p) \/ Exec(p) \/ Busy(p) \/ Stamp(p)
             \/ Stat(p) \/ Vacuum(p) \/ Copied(p)
             \/ StatementFails(p) \/ CopyFails(p) \/ Kill(p)
      PROVE  UNCHANGED <<db.version, db.holds>>
  <2>1. UNCHANGED db
    BY <1>6
       DEF Start, ReadVersion, Exec, Busy, Stamp, Stat, Vacuum, Copied,
           StatementFails, CopyFails, Kill, OpenFails, Dies
  <2> QED
    BY <2>1
<1> QED
  BY <1>1, <1>2, <1>3, <1>4, <1>5, <1>6 DEF Next, Step, Versions!Next

\* Crashes, races and restores never show an operator a database between two
\* versions: Migrations implements SchemaVersions.
THEOREM Refinement == ASSUME ClearsLog PROVE Spec => RefinesVersions
<1>1. Init => Versions!Init
  BY DEF Init, Fresh, Versions!Init
<1>2. VInv /\ CInv /\ [Next]_vars => [Versions!Next]_(Versions!versionVars)
  BY VersionMoves
<1> QED
  BY <1>1, <1>2, Reachable, PTL DEF Spec, RefinesVersions, Versions!Spec

-----------------------------------------------------------------------------
(* The pool: any number of requests and of VLANs ticked. *)

-----------------------------------------------------------------------------
(* Brackets: what a handler still has to do, when it holds the connection and *)
(* when it does not.                                                          *)

Free == {"read", "begin", "mail"}   \* comes without the connection

\* Inside a transaction come statements and the commit, after its end, and
\* after a read, what comes without the connection.
Bracketed(s) ==
  /\ s \in Seq(Ops)
  /\ \A i \in 1..Len(s) :
       IF s[i] \in {"begin", "stmt"}
       THEN i < Len(s) /\ s[i + 1] \in {"stmt", "commit"}
       ELSE i < Len(s) => s[i + 1] \in Free

Whole(s) == Bracketed(s) /\ (s # <<>> => s[1] \in Free)

LEMMA Lengths ==
  ASSUME NEW S, NEW s \in Seq(S)
  PROVE  Len(s) \in Nat /\ (s # <<>> <=> Len(s) > 0)
<1>1. Len(s) \in Nat /\ Len(<<>>) = 0 /\ (s # <<>> => Len(s) \in Nat \ {0})
  BY EmptySeq, LenProperties
<1> QED BY <1>1

LEMMA WholeEmpty == Whole(<<>>)
BY EmptySeq DEF Whole, Bracketed

\* A program after a program is a program.
LEMMA WholeConcat ==
  ASSUME NEW s, NEW t, Whole(s), Whole(t)
  PROVE  Whole(s \o t)
<1> DEFINE c == s \o t
<1>1. /\ s \in Seq(Ops) /\ t \in Seq(Ops) /\ Len(s) \in Nat /\ Len(t) \in Nat
      /\ s # <<>> <=> Len(s) > 0
      /\ t # <<>> <=> Len(t) > 0
  BY EmptySeq, LenProperties DEF Whole, Bracketed
<1>2. /\ c \in Seq(Ops) /\ Len(c) = Len(s) + Len(t)
      /\ \A i \in 1..Len(c) : c[i] = IF i <= Len(s) THEN s[i] ELSE t[i - Len(s)]
      /\ c # <<>> <=> Len(c) > 0
  BY <1>1, ConcatProperties, EmptySeq
<1> HIDE DEF c
<1>3. ASSUME NEW i \in 1..Len(c)
      PROVE  IF c[i] \in {"begin", "stmt"}
             THEN i < Len(c) /\ c[i + 1] \in {"stmt", "commit"}
             ELSE i < Len(c) => c[i + 1] \in Free
  <2>1. CASE i < Len(s)
    <3>1. i \in 1..Len(s) /\ c[i] = s[i] /\ c[i + 1] = s[i + 1] /\ i < Len(c)
      BY <1>1, <1>2, <2>1
    <3> QED BY <2>1, <3>1 DEF Whole, Bracketed
  <2>2. CASE i = Len(s)
    <3>1. i \in 1..Len(s) /\ c[i] = s[i]
      BY <1>1, <1>2, <2>2
    <3>2. c[i] \notin {"begin", "stmt"}
      BY <1>1, <2>2, <3>1 DEF Whole, Bracketed
    <3>3. ASSUME i < Len(c) PROVE c[i + 1] \in Free
      <4>1. c[i + 1] = t[1] /\ t # <<>>
        BY <1>1, <1>2, <2>2, <3>3
      <4> QED BY <4>1 DEF Whole
    <3> QED BY <3>2, <3>3
  <2>3. CASE i > Len(s)
    <3> DEFINE k == i - Len(s)
    <3>1. k \in 1..Len(t) /\ c[i] = t[k] /\ (i < Len(c) <=> k < Len(t)) /\ (k < Len(t) => c[i + 1] = t[k + 1])
      BY <1>1, <1>2, <2>3
    <3> HIDE DEF k
    <3> QED BY <3>1 DEF Whole, Bracketed
  <2> QED BY <1>1, <1>2, <2>1, <2>2, <2>3
<1>4. c # <<>> => c[1] \in Free
  BY <1>1, <1>2 DEF Whole
<1> QED BY <1>2, <1>3, <1>4 DEF Whole, Bracketed, c

LEMMA TimesSeq ==
  ASSUME NEW n \in Nat, NEW op
  PROVE  /\ Times(n, op) \in Seq({op}) /\ Len(Times(n, op)) = n
         /\ \A i \in 1..n : Times(n, op)[i] = op
<1>1. Times(n, op) \in [1..n -> {op}]
  BY DEF Times
<1>2. Times(n, op) \in Seq({op})
  BY <1>1, SeqDef
<1> QED BY <1>1, <1>2, LenProperties DEF Times

\* Reads, one after the other.
LEMMA WholeOfReads ==
  ASSUME NEW s \in Seq({"read"})
  PROVE  Whole(s)
<1>1. s \in Seq(Ops)
  BY SeqMonotonic DEF Ops, Waits
<1>2. Len(s) \in Nat /\ \A i \in 1..Len(s) : s[i] = "read"
  BY LenProperties, ElementOfSeq
<1>3. s # <<>> => Len(s) > 0
  BY EmptySeq
<1> QED BY <1>1, <1>2, <1>3 DEF Whole, Bracketed, Free

LEMMA WholeReads ==
  ASSUME NEW n \in Nat
  PROVE  Whole(Reads(n)) /\ Reads(n) \in Seq({"read"})
BY TimesSeq, WholeOfReads DEF Reads

LEMMA WholeMail == Whole(<<"mail">>)
<1>1. <<"mail">> \in Seq(Ops) /\ Len(<<"mail">>) = 1 /\ <<"mail">>[1] = "mail"
  BY DEF Ops
<1> QED BY <1>1 DEF Whole, Bracketed, Free

\* Statements between begin and commit.
LEMMA WholeTx ==
  ASSUME NEW stmts \in Seq({"stmt"})
  PROVE  Whole(Tx(stmts))
<1> DEFINE t == Tx(stmts)
           n == Len(stmts)
<1>1. /\ stmts \in Seq(Ops) /\ <<"begin">> \in Seq(Ops) /\ <<"commit">> \in Seq(Ops)
      /\ Len(<<"begin">>) = 1 /\ Len(<<"commit">>) = 1
      /\ <<"begin">>[1] = "begin" /\ <<"commit">>[1] = "commit"
  BY SeqMonotonic DEF Ops, Waits, Holds
<1>2. n \in Nat /\ \A i \in 1..n : stmts[i] = "stmt"
  BY LenProperties, ElementOfSeq
<1>3. /\ <<"begin">> \o stmts \in Seq(Ops) /\ Len(<<"begin">> \o stmts) = n + 1
      /\ \A i \in 1..(n + 1) : (<<"begin">> \o stmts)[i] = IF i = 1 THEN "begin" ELSE "stmt"
  <2>1. /\ <<"begin">> \o stmts \in Seq(Ops)
        /\ Len(<<"begin">> \o stmts) = Len(<<"begin">>) + n
        /\ \A i \in 1..(Len(<<"begin">>) + n) : (<<"begin">> \o stmts)[i] =
             IF i <= Len(<<"begin">>) THEN <<"begin">>[i] ELSE stmts[i - Len(<<"begin">>)]
    BY <1>1, ConcatProperties
  <2> HIDE DEF n
  <2> QED BY <1>1, <1>2, <2>1
<1>4. /\ t \in Seq(Ops) /\ Len(t) = n + 2
      /\ \A i \in 1..(n + 2) : t[i] = IF i = 1 THEN "begin" ELSE IF i = n + 2 THEN "commit" ELSE "stmt"
  <2> DEFINE b == <<"begin">> \o stmts
  <2>1. /\ b \o <<"commit">> \in Seq(Ops)
        /\ Len(b \o <<"commit">>) = Len(b) + Len(<<"commit">>)
        /\ \A i \in 1..(Len(b) + Len(<<"commit">>)) : (b \o <<"commit">>)[i] =
             IF i <= Len(b) THEN b[i] ELSE <<"commit">>[i - Len(b)]
    BY <1>1, <1>3, ConcatProperties
  <2>2. t = b \o <<"commit">>
    BY DEF Tx
  <2> HIDE DEF b, t, n
  <2> QED BY <1>1, <1>2, <1>3, <2>1, <2>2 DEF b
<1> HIDE DEF t, n
<1>5. Whole(t)
  BY <1>2, <1>4 DEF Whole, Bracketed, Free
<1> QED BY <1>5 DEF t

-----------------------------------------------------------------------------
(* Every route is such a program, and the page it shows when it fails reads. *)

LEMMA Stmts ==
  /\ <<>> \in Seq({"stmt"}) /\ <<"stmt">> \in Seq({"stmt"}) /\ <<"stmt", "stmt">> \in Seq({"stmt"})
  /\ addRevision \in Seq({"stmt"})
  /\ \A e \in Entities : snapshot("stmt", e) \in Seq({"stmt"})
  /\ \A e \in Entities, tags \in Nat : links(e, tags) \in Seq({"stmt"})
  /\ \A s, t \in Seq({"stmt"}) : s \o t \in Seq({"stmt"})
<1>1. ASSUME NEW e, NEW tags \in Nat
      PROVE  1 + Multis(e) \in Nat /\ Multis(e) * (1 + tags) \in Nat
  BY DEF Multis
<1>2. <<>> \in Seq({"stmt"}) /\ <<"stmt">> \in Seq({"stmt"}) /\ <<"stmt", "stmt">> \in Seq({"stmt"})
  OBVIOUS
<1>3. /\ \A e \in Entities : snapshot("stmt", e) \in Seq({"stmt"})
      /\ \A e \in Entities, tags \in Nat : links(e, tags) \in Seq({"stmt"})
  BY <1>1, TimesSeq DEF snapshot, links
<1>4. \A s, t \in Seq({"stmt"}) : s \o t \in Seq({"stmt"})
  BY ConcatProperties
<1> QED BY <1>2, <1>3, <1>4 DEF addRevision

LEMMA WholeWrite ==
  ASSUME NEW e \in Entities, NEW new \in BOOLEAN, NEW changed \in BOOLEAN, NEW tags \in 0..MaxTags
  PROVE  Whole(write(e, new, tags, changed))
<1>0. tags \in Nat
  BY MaxTagsAssumption
<1> DEFINE old == IF new THEN <<>> ELSE snapshot("stmt", e)
           rev == IF changed THEN addRevision ELSE <<>>
<1>1. old \in Seq({"stmt"}) /\ rev \in Seq({"stmt"})
  BY Stmts
<1>2. old \o <<"stmt">> \o links(e, tags) \o snapshot("stmt", e) \o rev \in Seq({"stmt"})
  <2> HIDE DEF old, rev
  <2>1. old \o <<"stmt">> \in Seq({"stmt"})
    BY <1>1, Stmts
  <2>2. old \o <<"stmt">> \o links(e, tags) \in Seq({"stmt"})
    BY <1>0, <2>1, Stmts
  <2>3. old \o <<"stmt">> \o links(e, tags) \o snapshot("stmt", e) \in Seq({"stmt"})
    BY <2>2, Stmts
  <2> QED BY <1>1, <2>3, Stmts
<1> QED BY <1>2, WholeTx DEF write

LEMMA WholeRemove ==
  ASSUME NEW e \in Entities
  PROVE  Whole(remove(e))
<1>1. snapshot("stmt", e) \o <<"stmt">> \o addRevision \in Seq({"stmt"})
  BY Stmts
<1> QED BY <1>1, WholeTx DEF remove

LEMMA WholeForms ==
  ASSUME NEW e \in Entities
  PROVE  /\ Whole(list) /\ Whole(history) /\ Whole(choices(e)) /\ Whole(edit(e))
         /\ choices(e) \in Seq({"read"})
<1>1. Refs(e) \in Nat /\ 1 + Multis(e) \in Nat
  BY DEF Refs, Multis, Entities
<1>2. Whole(list) /\ Whole(history)
  BY WholeReads DEF list, history
<1>3. Whole(choices(e)) /\ choices(e) \in Seq({"read"})
  BY <1>1, WholeReads DEF choices
<1>4. Whole(snapshot("read", e))
  BY <1>1, TimesSeq, WholeOfReads DEF snapshot
<1> QED BY <1>2, <1>3, <1>4, WholeConcat DEF edit

Fit(route) == Whole(route.ops) /\ route.page \in Seq({"read"})

LEMMA FitRoute ==
  ASSUME NEW ops, NEW shown, Whole(ops), shown \in Seq({"read"})
  PROVE  Fit(Route(ops, shown))
BY DEF Fit, Route

LEMMA CrudWhole ==
  ASSUME NEW route \in CrudRoutes
  PROVE  Fit(route)
<1>1. PICK e \in Entities :
        route \in {Route(list, <<>>), Route(choices(e), <<>>), Route(edit(e), <<>>),
                   Route(remove(e), <<>>), Route(history, <<>>)}
                  \cup {Route(write(e, new, tags, changed), choices(e)) :
                          new, changed \in BOOLEAN, tags \in 0..MaxTags}
  BY DEF CrudRoutes
<1>2. <<>> \in Seq({"read"})
  BY EmptySeq
<1>3. CASE route \in {Route(list, <<>>), Route(choices(e), <<>>), Route(edit(e), <<>>),
                      Route(history, <<>>)}
  BY <1>2, <1>3, WholeForms, FitRoute
<1>4. CASE route = Route(remove(e), <<>>)
  BY <1>2, <1>4, WholeRemove, FitRoute
<1>5. CASE route \in {Route(write(e, new, tags, changed), choices(e)) :
                        new, changed \in BOOLEAN, tags \in 0..MaxTags}
  BY <1>5, WholeForms, WholeWrite, FitRoute
<1> QED BY <1>1, <1>3, <1>4, <1>5

LEMMA TopologyWhole ==
  ASSUME NEW route \in TopologyRoutes
  PROVE  Fit(route)
<1>1. Whole(inventory) /\ Whole(renderTopoList) /\ Whole(loadTopo) /\ Whole(topoUnshare)
  BY WholeReads DEF inventory, renderTopoList, loadTopo, topoUnshare
<1>2. Whole(topoEdit) /\ Whole(topoShare)
  BY <1>1, WholeReads, WholeConcat DEF topoEdit, topoShare
<1>3. \A changed \in BOOLEAN : Whole(writeTopo(changed))
  <2>1. <<"stmt">> \o addRevision \in Seq({"stmt"})
    BY Stmts
  <2>2. ASSUME NEW changed \in BOOLEAN
        PROVE  <<"stmt">> \o (IF changed THEN <<"stmt">> \o addRevision ELSE <<>>) \in Seq({"stmt"})
    BY <2>1, Stmts
  <2> QED BY <2>2, WholeTx DEF writeTopo
<1>4. Whole(topoCreate) /\ Whole(removeTopo)
  BY Stmts, WholeTx DEF topoCreate, removeTopo
<1>5. <<>> \in Seq({"read"})
  BY EmptySeq
<1> QED BY <1>1, <1>2, <1>3, <1>4, <1>5, FitRoute DEF TopologyRoutes

LEMMA AccountWhole ==
  ASSUME NEW route \in AccountRoutes
  PROVE  Fit(route)
<1>1. /\ Whole(userCount) /\ Whole(createUser) /\ Whole(startSession) /\ Whole(verifyLogin)
      /\ Whole(logout) /\ Whole(accountGet) /\ accountGet \in Seq({"read"})
      /\ Whole(lookupEmailToken) /\ Whole(deleteEmailToken) /\ Whole(index) /\ Whole(healthz)
      /\ Whole(Reads(1)) /\ Whole(Reads(2))
  BY WholeReads DEF userCount, createUser, startSession, verifyLogin, logout, accountGet,
     lookupEmailToken, deleteEmailToken, index, healthz
<1>2. Whole(issueEmailToken) /\ Whole(<<"mail">>)
  BY Stmts, WholeTx, WholeMail DEF issueEmailToken
<1>3. Whole(sendVerifyEmail)
  BY <1>2, WholeConcat DEF sendVerifyEmail
<1>4. \A s, t, u : Whole(s) /\ Whole(t) /\ Whole(u) => Whole(s \o t \o u)
  BY WholeConcat
<1>5. \A s, t, u, v : Whole(s) /\ Whole(t) /\ Whole(u) /\ Whole(v) => Whole(s \o t \o u \o v)
  BY <1>4, WholeConcat
<1>6. Whole(setup) /\ Whole(login) /\ Whole(changePassword) /\ Whole(deleteUser)
  BY <1>1, <1>4 DEF setup, login, changePassword, deleteUser
<1>7. Whole(addUser) /\ Whole(verifyEmail)
  BY <1>1, <1>4, WholeConcat DEF addUser, verifyEmail
<1>8. Whole(saveEmail) /\ Whole(forgotPassword)
  BY <1>1, <1>2, <1>3, <1>4 DEF saveEmail, forgotPassword
<1>9. Whole(resetPassword)
  BY <1>1, <1>5 DEF resetPassword
<1>10. <<>> \in Seq({"read"})
  BY EmptySeq
<1> QED BY <1>1, <1>6, <1>7, <1>8, <1>9, <1>10, FitRoute DEF AccountRoutes

LEMMA RoutesWhole == \A route \in Routes : Fit(route)
BY CrudWhole, TopologyWhole, AccountWhole DEF Routes

-----------------------------------------------------------------------------
(* The inductive invariant: who holds the connection is inside a bracket, all *)
(* others are outside.                                                        *)

Bracket(r) ==
  /\ page[r] \in Seq({"read"})
  /\ IF conn = r THEN Bracketed(todo[r]) /\ todo[r] # <<>> /\ todo[r][1] \in Holds
                 ELSE Whole(todo[r])

PoolInv ==
  /\ conn \in Reqs \cup {Nobody}
  /\ todo = [r \in Reqs |-> todo[r]] /\ page = [r \in Reqs |-> page[r]]
  /\ \A r \in Reqs : Bracket(r)

\* What is left after the first operation.
LEMMA Rest ==
  ASSUME NEW s, Bracketed(s), s # <<>>
  PROVE  /\ Bracketed(Tail(s))
         /\ s[1] \in {"begin", "stmt"} => Tail(s) # <<>> /\ Tail(s)[1] \in {"stmt", "commit"}
         /\ s[1] \notin {"begin", "stmt"} => Whole(Tail(s))
<1> DEFINE t == Tail(s)
<1>1. s \in Seq(Ops) /\ Len(s) \in Nat \ {0}
  BY EmptySeq, LenProperties DEF Bracketed
<1>2. /\ t \in Seq(Ops) /\ Len(t) = Len(s) - 1
      /\ \A i \in 1..Len(t) : t[i] = s[i + 1]
      /\ t # <<>> <=> Len(t) > 0
  <2>1. /\ t \in Seq(Ops) /\ Len(t) = Len(s) - 1
        /\ \A i \in 1..Len(t) : t[i] = s[i + 1]
    BY <1>1, HeadTailProperties
  <2> HIDE DEF t
  <2> QED BY <2>1, Lengths
<1> HIDE DEF t
<1>3. ASSUME NEW i \in 1..Len(t)
      PROVE  IF t[i] \in {"begin", "stmt"}
             THEN i < Len(t) /\ t[i + 1] \in {"stmt", "commit"}
             ELSE i < Len(t) => t[i + 1] \in Free
  <2>1. i + 1 \in 1..Len(s) /\ t[i] = s[i + 1] /\ (i < Len(t) => i + 1 < Len(s) /\ t[i + 1] = s[(i + 1) + 1])
    BY <1>1, <1>2
  <2> QED BY <1>1, <1>2, <2>1 DEF Bracketed
<1>4. /\ s[1] \in {"begin", "stmt"} => t # <<>> /\ t[1] \in {"stmt", "commit"}
      /\ s[1] \notin {"begin", "stmt"} /\ t # <<>> => t[1] \in Free
  BY <1>1, <1>2 DEF Bracketed
<1> QED BY <1>2, <1>3, <1>4 DEF Bracketed, Whole, t

\* A read takes the connection until its rows are closed.
LEMMA Reading ==
  ASSUME NEW s, Bracketed(s), s # <<>>, s[1] = "read"
  PROVE  LET t == <<"close">> \o Tail(s)
         IN Bracketed(t) /\ t # <<>> /\ t[1] = "close"
<1> DEFINE rest == Tail(s)
           t == <<"close">> \o rest
<1>1. Whole(rest)
  BY Rest
<1>2. <<"close">> \in Seq(Ops) /\ Len(<<"close">>) = 1 /\ <<"close">>[1] = "close"
  BY DEF Ops, Holds
<1>3. rest \in Seq(Ops) /\ Len(rest) \in Nat /\ (rest # <<>> <=> Len(rest) > 0)
  BY <1>1, Lengths DEF Whole, Bracketed
<1> HIDE DEF rest
<1>4. /\ t \in Seq(Ops) /\ Len(t) = 1 + Len(rest)
      /\ \A i \in 1..(1 + Len(rest)) : t[i] = IF i <= 1 THEN "close" ELSE rest[i - 1]
      /\ t # <<>>
  <2>1. /\ <<"close">> \o rest \in Seq(Ops)
        /\ Len(<<"close">> \o rest) = Len(<<"close">>) + Len(rest)
        /\ \A i \in 1..(Len(<<"close">>) + Len(rest)) : (<<"close">> \o rest)[i] =
             IF i <= Len(<<"close">>) THEN <<"close">>[i] ELSE rest[i - Len(<<"close">>)]
    BY <1>2, <1>3, ConcatProperties
  <2> HIDE DEF t
  <2> QED BY <1>2, <1>3, <2>1, EmptySeq DEF t
<1> HIDE DEF t
<1>5. ASSUME NEW i \in 1..Len(t)
      PROVE  IF t[i] \in {"begin", "stmt"}
             THEN i < Len(t) /\ t[i + 1] \in {"stmt", "commit"}
             ELSE i < Len(t) => t[i + 1] \in Free
  <2>1. CASE i = 1
    <3>1. t[1] = "close" /\ (1 < Len(t) => rest # <<>> /\ t[1 + 1] = rest[1])
      BY <1>3, <1>4
    <3> QED BY <1>1, <2>1, <3>1 DEF Whole
  <2>2. CASE i > 1
    <3> DEFINE k == i - 1
    <3>1. k \in 1..Len(rest) /\ t[i] = rest[k] /\ (i < Len(t) <=> k < Len(rest)) /\ (k < Len(rest) => t[i + 1] = rest[k + 1])
      BY <1>3, <1>4, <2>2
    <3> HIDE DEF k
    <3> QED BY <1>1, <3>1 DEF Whole, Bracketed
  <2> QED BY <1>3, <1>4, <2>1, <2>2
<1>6. t[1] = "close"
  BY <1>3, <1>4
<1> QED BY <1>4, <1>5, <1>6 DEF Bracketed, t, rest

LEMMA Heads ==
  ASSUME NEW s, Bracketed(s), s # <<>>
  PROVE  Head(s) = s[1] /\ s[1] \in Ops
<1>1. Len(s) > 0 /\ Len(s) \in Nat /\ s \in Seq(Ops)
  BY Lengths DEF Bracketed
<1> QED BY <1>1, ElementOfSeq

\* A step of one request, who has the connection after it (c), what is left of
\* its handler (ops) and of its error page (shown).
Moves(r, c, ops, shown) ==
  /\ conn \in {r, Nobody} /\ conn' = c
  /\ todo' = [todo EXCEPT ![r] = ops]
  /\ page' = [page EXCEPT ![r] = shown]

\* Its brackets are right after the step.
Right(r, c, ops, shown) ==
  /\ c \in {r, Nobody} /\ shown \in Seq({"read"})
  /\ c = r => Bracketed(ops) /\ ops # <<>> /\ ops[1] \in Holds
  /\ c # r => Whole(ops)

LEMMA OneStep ==
  ASSUME PoolInv, NEW r \in Reqs, NEW c, NEW ops, NEW shown,
         Moves(r, c, ops, shown), Right(r, c, ops, shown)
  PROVE  PoolInv'
<1>1. /\ todo' = [u \in Reqs |-> todo'[u]] /\ page' = [u \in Reqs |-> page'[u]]
      /\ todo'[r] = ops /\ page'[r] = shown
      /\ \A u \in Reqs \ {r} : todo'[u] = todo[u] /\ page'[u] = page[u]
  BY DEF Moves, PoolInv
<1>2. Bracket(r)'
  BY <1>1, ReqsAssumption DEF Bracket, Moves, Right
<1>3. ASSUME NEW u \in Reqs \ {r} PROVE Bracket(u)'
  <2>1. conn # u /\ conn' # u
    BY ReqsAssumption DEF Moves, Right
  <2> QED BY <1>1, <2>1 DEF Bracket, PoolInv
<1> QED BY <1>1, <1>2, <1>3 DEF PoolInv, Moves, Right

\* The same, of a step that returns or shows the error page.
LEMMA ReturnStep ==
  ASSUME PoolInv, NEW r \in Reqs, conn \in {r, Nobody}, conn' = Nobody, Returns(r)
  PROVE  PoolInv'
<1>1. page[r] \in Seq({"read"}) /\ Whole(page[r]) /\ Whole(<<>>) /\ <<>> \in Seq({"read"})
  BY WholeOfReads, WholeEmpty, EmptySeq DEF PoolInv, Bracket
<1>2. page = [page EXCEPT ![r] = page[r]]
  BY DEF PoolInv
<1>3. Right(r, Nobody, <<>>, page[r]) /\ Right(r, Nobody, page[r], <<>>)
  BY <1>1, ReqsAssumption DEF Right
<1>4. Moves(r, Nobody, <<>>, page[r]) \/ Moves(r, Nobody, page[r], <<>>)
  BY <1>2 DEF Returns, Becomes, Moves
<1> QED BY <1>3, <1>4, OneStep

LEMMA ArriveInv ==
  ASSUME PoolInv, NEW r \in Reqs, Arrive(r)
  PROVE  PoolInv'
<1>1. PICK auth \in sessionAuth, route \in Routes :
        todo' = [todo EXCEPT ![r] = auth \o route.ops] /\ page' = [page EXCEPT ![r] = route.page]
  BY DEF Arrive, Becomes
<1>2. Whole(auth \o route.ops) /\ route.page \in Seq({"read"})
  <2>1. Whole(auth)
    BY WholeReads DEF sessionAuth
  <2> QED BY <2>1, RoutesWhole, WholeConcat DEF Fit
<1>3. ASSUME NEW u \in Reqs PROVE Bracket(u)'
  <2>1. conn # r /\ conn' = conn
    BY DEF Arrive, Idle, PoolInv, Bracket
  <2>2. CASE u = r
    BY <1>1, <1>2, <2>1, <2>2 DEF PoolInv, Bracket
  <2>3. CASE u # r
    BY <1>1, <2>1, <2>3 DEF PoolInv, Bracket
  <2> QED BY <2>2, <2>3
<1> QED BY <1>1, <1>3 DEF Arrive, PoolInv

LEMMA AcquireInv ==
  ASSUME PoolInv, NEW r \in Reqs, Acquire(r)
  PROVE  PoolInv'
<1> DEFINE s == todo[r]
<1>1. /\ Bracketed(s) /\ s # <<>> /\ conn = Nobody /\ conn' = r
      /\ Head(s) = s[1] /\ s[1] \in {"read", "begin"}
      /\ page[r] \in Seq({"read"}) /\ page' = [page EXCEPT ![r] = page[r]]
      /\ todo' = [todo EXCEPT ![r] = (IF s[1] = "read" THEN <<"close">> ELSE <<>>) \o Tail(s)]
  <2>1. conn = Nobody /\ Nobody # r
    BY ReqsAssumption DEF Acquire
  <2>2. Bracketed(s) /\ s # <<>>
    BY <2>1 DEF Acquire, Ahead, Idle, PoolInv, Bracket, Whole
  <2>3. Head(s) = s[1]
    BY <2>2, Heads
  <2> QED BY <2>1, <2>2, <2>3 DEF Acquire, Ahead, Waits, Becomes, PoolInv, Bracket
<1> HIDE DEF s
<1>2. CASE s[1] = "read"
  <2> DEFINE t == <<"close">> \o Tail(s)
  <2>1. Bracketed(t) /\ t # <<>> /\ t[1] \in Holds
    BY <1>1, <1>2, Reading DEF Holds
  <2>2. todo' = [todo EXCEPT ![r] = t]
    BY <1>1, <1>2
  <2> HIDE DEF t
  <2>3. Moves(r, r, t, page[r]) /\ Right(r, r, t, page[r])
    BY <1>1, <2>1, <2>2 DEF Moves, Right
  <2> QED BY <2>3, OneStep
<1>3. CASE s[1] = "begin"
  <2> DEFINE t == Tail(s)
  <2>1. Bracketed(t) /\ t # <<>> /\ t[1] \in Holds
    BY <1>1, <1>3, Rest DEF Holds
  <2>2. <<>> \o t = t
    BY <2>1, ConcatEmptySeq DEF Bracketed
  <2>3. todo' = [todo EXCEPT ![r] = t]
    BY <1>1, <1>3, <2>2
  <2> HIDE DEF t
  <2>4. Moves(r, r, t, page[r]) /\ Right(r, r, t, page[r])
    BY <1>1, <2>1, <2>3 DEF Moves, Right
  <2> QED BY <2>4, OneStep
<1> QED BY <1>1, <1>2, <1>3

\* The holder's steps, and that of a handler with its mail.
LEMMA HolderInv ==
  ASSUME PoolInv, NEW r \in Reqs, Statement(r) \/ Release(r) \/ Fail(r) \/ Mailed(r)
  PROVE  PoolInv'
<1> DEFINE s == todo[r]
           t == Tail(s)
<1>1. /\ Bracketed(s) /\ s # <<>> /\ Head(s) = s[1]
      /\ page[r] \in Seq({"read"}) /\ page = [page EXCEPT ![r] = page[r]]
      /\ s[1] \in {"close", "stmt", "commit"} => conn = r
      /\ s[1] = "mail" => conn # r
      /\ Nobody # r
  <2>1. s # <<>>
    BY DEF Statement, Release, Fail, Mailed, Ahead, Idle
  <2>2. Bracketed(s) /\ (conn # r => Whole(s)) /\ (conn = r => s[1] \in Holds)
    BY DEF PoolInv, Bracket, Whole
  <2>3. Head(s) = s[1]
    BY <2>1, <2>2, Heads
  <2>4. page[r] \in Seq({"read"}) /\ page = [page EXCEPT ![r] = page[r]]
    BY DEF PoolInv, Bracket
  <2>5. /\ s[1] \in {"close", "stmt", "commit"} => conn = r
        /\ s[1] = "mail" => conn # r
    BY <2>1, <2>2 DEF Whole, Free, Holds
  <2> QED BY <2>1, <2>2, <2>3, <2>4, <2>5, ReqsAssumption
<1>2. CASE Statement(r)
  <2>1. s[1] = "stmt" /\ conn' = r /\ todo' = [todo EXCEPT ![r] = t] /\ page' = page
    BY <1>1, <1>2 DEF Statement, Ahead, Becomes
  <2>2. Bracketed(t) /\ t # <<>> /\ t[1] \in Holds
    BY <1>1, <2>1, Rest DEF Holds
  <2> HIDE DEF s, t
  <2>3. conn = r
    BY <1>2 DEF Statement
  <2>4. Moves(r, r, t, page[r]) /\ Right(r, r, t, page[r])
    BY <1>1, <2>1, <2>2, <2>3 DEF Moves, Right
  <2> QED BY <2>4, OneStep
<1>3. CASE Release(r)
  <2>1. s[1] \in {"close", "commit"} /\ conn = r /\ conn' = Nobody
    BY <1>1, <1>3 DEF Release, Ahead
  <2>2. CASE Becomes(r, t) /\ UNCHANGED page
    <3>1. Whole(t)
      BY <1>1, <2>1, Rest
    <3>2. todo' = [todo EXCEPT ![r] = t] /\ page' = [page EXCEPT ![r] = page[r]]
      BY <1>1, <2>2 DEF Becomes
    <3> HIDE DEF s, t
    <3>3. Moves(r, Nobody, t, page[r]) /\ Right(r, Nobody, t, page[r])
      BY <1>1, <2>1, <3>1, <3>2 DEF Moves, Right
    <3> QED BY <3>3, OneStep
  <2>3. CASE Returns(r)
    BY <2>1, <2>3, ReturnStep
  <2> QED BY <1>3, <2>2, <2>3 DEF Release
<1>4. CASE Fail(r)
  <2>1. conn = r /\ conn' = Nobody /\ Returns(r)
    BY <1>1, <1>4 DEF Fail, Ahead, Holds
  <2> QED BY <2>1, ReturnStep
<1>5. CASE Mailed(r)
  <2>1. s[1] = "mail" /\ conn # r /\ UNCHANGED <<conn, page>> /\ todo' = [todo EXCEPT ![r] = t]
    BY <1>1, <1>5 DEF Mailed, Ahead, Becomes
  <2>2. Whole(t)
    BY <1>1, <2>1, Rest
  <2> HIDE DEF s, t
  <2>3. ASSUME NEW u \in Reqs PROVE Bracket(u)'
    BY <2>1, <2>2 DEF PoolInv, Bracket
  <2> QED BY <2>1, <2>3 DEF PoolInv
<1> QED BY <1>2, <1>3, <1>4, <1>5

LEMMA StepInv == PoolInv /\ [PoolNext]_poolVars => PoolInv'
<1> SUFFICES ASSUME PoolInv, [PoolNext]_poolVars PROVE PoolInv'
  OBVIOUS
<1>1. CASE UNCHANGED poolVars
  BY <1>1 DEF poolVars, PoolInv, Bracket
<1> QED BY <1>1, ArriveInv, AcquireInv, HolderInv DEF PoolNext

LEMMA InitInv == PoolInit => PoolInv
BY WholeEmpty, EmptySeq, ReqsAssumption DEF PoolInit, PoolInv, Bracket

\* Whatever handlers run at once and whichever of their statements fail: who
\* has the one connection goes on with a statement, a close or a commit, and
\* waits neither for the pool nor for the mail server.
THEOREM HolderCorrect == PoolSpec => []HolderNeverWaits
<1>1. PoolInv => HolderNeverWaits
  <2> SUFFICES ASSUME PoolInv, NEW r \in Reqs
               PROVE  /\ conn \in Reqs \cup {Nobody}
                      /\ todo[r] \in Seq(Ops) /\ page[r] \in Seq({"read"})
                      /\ conn = r => ~Idle(r) /\ Ahead(r, Holds)
                      /\ Ahead(r, Holds) => conn = r
    BY DEF HolderNeverWaits, PoolTypeOK, PoolInv
  <2> DEFINE s == todo[r]
  <2>1. /\ Bracketed(s) /\ page[r] \in Seq({"read"}) /\ conn \in Reqs \cup {Nobody}
        /\ conn = r => s # <<>> /\ s[1] \in Holds
        /\ conn # r => Whole(s)
    BY DEF PoolInv, Bracket, Whole
  <2>2. s # <<>> => Head(s) = s[1]
    BY <2>1, Heads
  <2>3. conn = r => ~Idle(r) /\ Ahead(r, Holds)
    BY <2>1, <2>2 DEF Idle, Ahead
  <2>4. Ahead(r, Holds) => conn = r
    BY <2>1, <2>2 DEF Idle, Ahead, Whole, Free, Holds
  <2> QED BY <2>1, <2>3, <2>4 DEF Bracketed
<1> QED BY <1>1, InitInv, StepInv, PTL DEF PoolSpec
=============================================================================
