----------------------------- MODULE MCViewModel -----------------------------
(* Model checking of ViewModel: what symmetry may be used.                  *)
EXTENDS ViewModel, TLC

Interchangeable == Permutations(Vault) \cup Permutations(Edit) \cup Permutations(Call)
=============================================================================
