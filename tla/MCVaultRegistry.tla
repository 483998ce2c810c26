-------------------------- MODULE MCVaultRegistry --------------------------
\* Symmetry for the safety runs of VaultRegistry.
EXTENDS VaultRegistry, TLC

Interchangeable ==
  Permutations(VaultName) \cup Permutations(VaultId)
    \cup Permutations(Recorder) \cup Permutations(Call)

=============================================================================
