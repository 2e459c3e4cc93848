----------------------------- MODULE RecordLog -----------------------------
(***************************************************************************)
(* What a table with a history promises its reader: each record is absent  *)
(* or has a value, it comes, changes and goes one step at a time, and each *)
(* of these steps, and nothing else, adds its revision in the same step.   *)
(***************************************************************************)
EXTENDS Sequences

CONSTANTS
  Keys,     \* names of records
  Values,   \* what a record may hold
  Absent    \* no record of that name

VARIABLES
  current,  \* key -> its value, or Absent
  log       \* key -> its revisions, oldest first

recordVars == <<current, log>>

Becomes(k, v) == current' = [current EXCEPT ![k] = v]
Noted(k, note, v) ==
  log' = [log EXCEPT ![k] = Append(@, [note |-> note, doc |-> v])]

Put(k, v) ==
  /\ current[k] = Absent
  /\ Becomes(k, v) /\ Noted(k, "created", v)

Change(k, v) ==
  /\ current[k] \notin {Absent, v}
  /\ Becomes(k, v) /\ Noted(k, "updated", v)

\* The last revision keeps what was deleted.
Remove(k) ==
  /\ current[k] # Absent
  /\ Becomes(k, Absent) /\ Noted(k, "deleted", current[k])

Init ==
  /\ current = [k \in Keys |-> Absent]
  /\ log = [k \in Keys |-> <<>>]

Next == \E k \in Keys : \/ Remove(k)
                        \/ \E v \in Values : Put(k, v) \/ Change(k, v)

Spec == Init /\ [][Next]_recordVars
=============================================================================
