----------------------------- MODULE MCRpcServer -----------------------------
(* Model checking of RpcServer: each vault has a password and entries of    *)
(* its own.                                                                 *)
EXTENDS RpcServer, TLC

OwnPasswords == CHOOSE f \in [Vault -> Password] : \A v, w \in Vault : v # w => f[v] # f[w]
OwnTexts == CHOOSE f \in [Vault -> Text] : \A v, w \in Vault : v # w => f[v] # f[w]
=============================================================================
