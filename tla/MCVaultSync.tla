----------------------------- MODULE MCVaultSync -----------------------------
(* Model checking of VaultSync: what symmetry may be used.                  *)
EXTENDS VaultSync, TLC

Interchangeable == Permutations(Call) \cup Permutations(Vault)
=============================================================================
