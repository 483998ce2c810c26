------------------------------ MODULE RecordLog ------------------------------
(***************************************************************************)
(* What the admin database of a Munkey device promises: a log of the vaults *)
(* created or linked on the device, [vaultName, vaultId] records that are   *)
(* only ever appended, one per vault id.  The log holds one record at most  *)
(* for an id whatever the number of calls that ask for it, and no record is *)
(* lost to a concurrent insert.                                             *)
(***************************************************************************)
EXTENDS Naturals, Sequences

CONSTANTS VaultName,  \* names a client may give to a vault on this device
          VaultId     \* vault identifiers (public keys)

VARIABLE log          \* the records, oldest first

VaultRecord == [vaultName : VaultName, vaultId : VaultId]

Recorded(i) == \E k \in DOMAIN log : log[k].vaultId = i

Init == log = << >>

Insert(n, i) ==
  /\ ~ Recorded(i)
  /\ log' = Append(log, [vaultName |-> n, vaultId |-> i])

Next == \E n \in VaultName, i \in VaultId : Insert(n, i)

Spec == Init /\ [][Next]_log

=============================================================================
