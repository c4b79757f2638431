------------------------------ MODULE MCAccess ------------------------------
(* Instances of Access for TLC: the cfg files give the bounds.  Addresses     *)
(* only index logins and counters, so they may be exchanged.                  *)
EXTENDS Access, TLC

Symmetry == Permutations(Clients)
=============================================================================
