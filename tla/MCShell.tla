------------------------------- MODULE MCShell -------------------------------
(* Model checking of Shell: the passwords of the vaults.                    *)
EXTENDS Shell, TLC

OnePassword == LET p == CHOOSE p \in Password : TRUE IN [i \in Id |-> p]
OwnPasswords == CHOOSE f \in [Id -> Password] : \A i, j \in Id : i # j => f[i] # f[j]
=============================================================================
