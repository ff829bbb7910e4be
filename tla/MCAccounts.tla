----------------------------- MODULE MCAccounts -----------------------------
(* Two registrations that may want the same name or address, a login, and  *)
(* two resets of the account with the address m1.                          *)
EXTENDS Accounts, TLC

CONSTANTS t1, r1, r2, g1, g2, l1, n1, n2, m1, m2

Symmetry == Permutations(Resets) \cup Permutations(Registers) \cup Permutations(Names)
=============================================================================
