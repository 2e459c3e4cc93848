----------------------------- MODULE MCAccounts -----------------------------
(* Small instances of Accounts for TLC. *)
EXTENDS Accounts, TLC

\* Every value is opaque, so names, passwords, addresses, tokens and
\* requests may be renamed freely.
Symmetry ==
  Permutations(Names) \cup Permutations(Passwords) \cup Permutations(Addrs)
    \cup Permutations(Cookies) \cup Permutations(Links) \cup Permutations(Reqs)

\* Passwords change by reset only.
ResetTraffic == Endpoints \ {"password"}
=============================================================================
