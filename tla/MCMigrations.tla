---------------------------- MODULE MCMigrations ----------------------------
(* Instances of Migrations for TLC: an old binary and a newer one. *)
EXTENDS Migrations

CONSTANTS s1, s2, b1, b2, d1, d2

\* s1 and b1 run the release before the one that s2 and b2 run.
MCLatest == [p \in Procs |-> IF p \in {s1, b1} THEN Last - 1 ELSE Last]
=============================================================================
