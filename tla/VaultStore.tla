----------------------------- MODULE VaultStore -----------------------------
(***************************************************************************)
(* What a service promises of the vaults it holds and of their databases,    *)
(* whoever gives the commands.  A database goes by the name a vault was      *)
(* opened under, and outlives it: until destroy() is done, and after a crash *)
(* for good, a vault opened under that name shares it.  Peers replicate by   *)
(* that name too, and may bring content of another vault, or take content    *)
(* away.  So a database has tenants.  What a command promises is to write    *)
(* what is a tenant's own, into a database that is still there.              *)
(***************************************************************************)

CONSTANTS
  Name,     \* local names of vaults, and so of databases
  Vault,    \* vaults
  Own,      \* vault -> the contents that are its own
  Empty,    \* a database without content
  Removed,  \* a database whose content was removed
  Gone,     \* a handle whose database was destroyed
  None      \* no value

VARIABLES
  names,    \* vaultIdMap: name -> the vault it leads to, None if there is no such name
  handles,  \* vaultMap: vault -> the database it was opened on, None if it is not held
  stored,   \* database -> its content
  tenants   \* history: database -> the vaults it was opened for since it was
            \* made, and those whose content was brought into it from outside

vars == <<names, handles, stored, tenants>>

\* Some vaults are loaded, each under one name; other databases may be left over.
Init ==
  /\ names \in [Name -> Vault \cup {None}]
  /\ handles \in [Vault -> Name \cup {None}]
  /\ tenants \in [Name -> SUBSET Vault]
  /\ stored \in [Name -> (UNION {Own[v] : v \in Vault}) \cup {Empty, Removed}]
  /\ \A v \in Vault : handles[v] = None <=> \A n \in Name : names[n] # v
  /\ \A n \in Name :
       /\ names[n] # None => handles[names[n]] = n /\ names[n] \in tenants[n]
       /\ stored[n] \in (UNION {Own[v] : v \in tenants[n]}) \cup {Empty, Removed}
       /\ tenants[n] = {} => stored[n] = Empty

\* A vault that is not held, under a name that is free, on the database of that name.
Open(n, v) ==
  /\ names[n] = None /\ handles[v] = None
  /\ names' = [names EXCEPT ![n] = v]
  /\ handles' = [handles EXCEPT ![v] = n]
  /\ tenants' = [tenants EXCEPT ![n] = @ \cup {v}]
  /\ UNCHANGED stored

\* A vault that is held may be given any name, from another vault if need be.
Link(n, v) ==
  /\ handles[v] # None
  /\ names' = [names EXCEPT ![n] = v]
  /\ UNCHANGED <<handles, stored, tenants>>

\* A delete, up to destroy(): the vault loses all of its names.
Forget(v) ==
  /\ handles[v] # None
  /\ names' = [n \in Name |-> IF names[n] = v THEN None ELSE names[n]]
  /\ handles' = [handles EXCEPT ![v] = None]
  /\ UNCHANGED <<stored, tenants>>

\* destroy(): with the database goes every handle on it.
Destroy(n) ==
  /\ tenants[n] # {}
  /\ stored' = [stored EXCEPT ![n] = Empty]
  /\ tenants' = [tenants EXCEPT ![n] = {}]
  /\ handles' = [v \in Vault |-> IF handles[v] = n THEN Gone ELSE handles[v]]
  /\ UNCHANGED names

\* A command writes content of a tenant.
Write(n, v) ==
  /\ v \in tenants[n] /\ stored[n] # Removed
  /\ \E x \in Own[v] : stored' = [stored EXCEPT ![n] = x]
  /\ UNCHANGED <<names, handles, tenants>>

\* Content from outside, of any vault: nothing checks it before it is stored.
Arrive(n, v) ==
  /\ tenants[n] # {}
  /\ \E x \in Own[v] : stored' = [stored EXCEPT ![n] = x]
  /\ tenants' = [tenants EXCEPT ![n] = @ \cup {v}]
  /\ UNCHANGED <<names, handles>>

\* Content that is rejected, here or by a peer, is removed.
Withdraw(n) ==
  /\ stored[n] # Empty
  /\ stored' = [stored EXCEPT ![n] = Removed]
  /\ UNCHANGED <<names, handles, tenants>>

Next ==
  \/ \E n \in Name, v \in Vault : Open(n, v) \/ Link(n, v) \/ Write(n, v) \/ Arrive(n, v)
  \/ \E v \in Vault : Forget(v)
  \/ \E n \in Name : Destroy(n) \/ Withdraw(n)

Spec == Init /\ [][Next]_vars
=============================================================================
