--------------------------- MODULE MCConnections ---------------------------
\* Symmetry for the safety runs of Connections.
EXTENDS Connections, TLC

Interchangeable ==
  Permutations(VaultId) \cup Permutations(Device) \cup Permutations(Database)
    \cup Permutations(Token) \cup Permutations(Call)

=============================================================================
