---------------------------- MODULE VaultRegistry ----------------------------
(***************************************************************************)
(* services/vault/VaultService.ts as the commands of CommandServer.ts drive *)
(* it: the vaults a device has in memory, the databases on its disk, and the *)
(* admin database (AdminService) from which a restart rebuilds the first.    *)
(*                                                                          *)
(* The process is single-threaded: a handler runs without interruption up   *)
(* to its next await, so one action is the code between two awaits.  Any     *)
(* number of commands are in flight together; the process may die between   *)
(* any two steps and be started again.                                      *)
(*                                                                          *)
(* A vault's database is opened by the NAME it was created under, and a      *)
(* vault is known by its ID.  PouchDB opens a database that does not exist   *)
(* by creating it; all handles opened on a name use the same store, and a    *)
(* destroy() of any of them removes the store and kills every handle.       *)
(***************************************************************************)
EXTENDS AdminService

CONSTANT Call         \* commands that may be in flight together

VARIABLES
  phase,        \* "down"; "loading" the recorded vaults; "up", serving commands
  cursor,       \* records loadVault was called for, while loading
  vaultIdMap,   \* name -> vault id, or None
  vaultMap,     \* vault id -> its handle (VaultDatabase), or NoHandle
  disk,         \* the vault databases on disk, by name
  call          \* the commands in flight

registryVars == <<phase, cursor, vaultIdMap, vaultMap, disk, call>>
vars == <<adminVars, registryVars>>

\* A handle: the name of the database it was opened on, and whether that
\* database still exists.
Handle == [db : VaultName, open : BOOLEAN]
NoHandle == [db |-> None, open |-> FALSE]

\* A database: whether it exists, and whether a payload is stored in it.
Database == [exists : BOOLEAN, content : BOOLEAN]
NoDatabase == [exists |-> FALSE, content |-> FALSE]

CallState ==
  [pc     : {"idle", "getContent", "setContent", "pull", "destroy"},
   handle : Handle \cup {NoHandle}]
IdleCall == [pc |-> "idle", handle |-> NoHandle]

HasName(n) == vaultIdMap[n] # None
HasVault(i) == vaultMap[i] # NoHandle

RegistryInit ==
  /\ AdminInit
  /\ phase = "down"
  /\ cursor = 0
  /\ vaultIdMap = [n \in VaultName |-> None]
  /\ vaultMap = [i \in VaultId |-> NoHandle]
  /\ disk = [n \in VaultName |-> NoDatabase]
  /\ call = [c \in Call |-> IdleCall]

-----------------------------------------------------------------------------
\* Steps of a handler.

Enter(c, pc, h) ==
  /\ call[c].pc = "idle"
  /\ call' = [call EXCEPT ![c] = [pc |-> pc, handle |-> h]]

Proceed(c, pc) == call' = [call EXCEPT ![c].pc = pc]

Return(c) == call' = [call EXCEPT ![c] = IdleCall]

\* new LocalDB(n): open the database, creating it if it does not exist.
OpenDatabase(n) == disk' = [disk EXCEPT ![n].exists = TRUE]

OpenHandle(n) == [db |-> n, open |-> TRUE]

\* VaultService.setVaultEntry(n, i, handle)
SetVaultEntry(n, i) ==
  /\ vaultMap' = [vaultMap EXCEPT ![i] = OpenHandle(n)]
  /\ vaultIdMap' = [vaultIdMap EXCEPT ![n] = i]

\* Mutant of CreateVault: only the id is looked up.
CreateVaultAnyName(n, i) ==
  /\ ~ HasVault(i)
  /\ OpenDatabase(n)
  /\ SetVaultEntry(n, i)
  /\ \E r \in Recorder : RecordVaultCreation(r, n, i)
  /\ UNCHANGED adminDoc

\* VaultService.createVault, and the call of recordVaultCreation it does not
\* wait for.
CreateVault(n, i) ==
  /\ ~ HasName(n) /\ ~ HasVault(i)
  /\ OpenDatabase(n)
  /\ SetVaultEntry(n, i)
  /\ \E r \in Recorder : RecordVaultCreation(r, n, i)
  /\ UNCHANGED adminDoc

-----------------------------------------------------------------------------
\* The commands.  One that is refused on entry changes nothing.

\* onCreateVault, up to the read that initialize() starts with.
OnCreateVault(c, n, i) ==
  /\ phase = "up"
  /\ CreateVault(n, i)
  /\ Enter(c, "getContent", OpenHandle(n))
  /\ UNCHANGED <<phase, cursor>>

\* onVaultLink for a vault the device does not hold, up to the first pull.
OnLinkNew(c, n, i) ==
  /\ phase = "up"
  /\ CreateVault(n, i)
  /\ Enter(c, "pull", OpenHandle(n))
  /\ UNCHANGED <<phase, cursor>>

\* Mutant of OnLinkHeld: the nickname is recorded too.
OnLinkHeldRecorded(c, n, i) ==
  /\ phase = "up"
  /\ HasVault(i)
  /\ vaultIdMap' = [vaultIdMap EXCEPT ![n] = i]
  /\ \E r \in Recorder : RecordVaultCreation(r, n, i)
  /\ Enter(c, "pull", vaultMap[i])
  /\ UNCHANGED <<adminDoc, phase, cursor, vaultMap, disk>>

\* onVaultLink for a vault the device holds: the nickname is set, whether or
\* not it names another vault.
OnLinkHeld(c, n, i) ==
  /\ phase = "up"
  /\ HasVault(i)
  /\ vaultIdMap' = [vaultIdMap EXCEPT ![n] = i]
  /\ Enter(c, "pull", vaultMap[i])
  /\ UNCHANGED <<adminVars, phase, cursor, vaultMap, disk>>

\* initialize(): getContent() finds content, and the create fails; the entry
\* and the record stay.
InitializeRefused(c) ==
  /\ call[c].pc = "getContent"
  /\ call[c].handle.open
  /\ disk[call[c].handle.db].content
  /\ Return(c)
  /\ UNCHANGED <<adminVars, phase, cursor, vaultIdMap, vaultMap, disk>>

\* initialize(): getContent() answers null, for want of content or because the
\* database was destroyed.
InitializeEmpty(c) ==
  /\ call[c].pc = "getContent"
  /\ call[c].handle.open => ~ disk[call[c].handle.db].content
  /\ Proceed(c, "setContent")
  /\ UNCHANGED <<adminVars, phase, cursor, vaultIdMap, vaultMap, disk>>

\* setContent() stores the initial payload, in place of what may have arrived
\* since getContent().  What is left of the create, telling the peers, touches
\* nothing here.
InitializeWrites(c) ==
  /\ call[c].pc = "setContent"
  /\ call[c].handle.open
  /\ disk' = [disk EXCEPT ![call[c].handle.db].content = TRUE]
  /\ Return(c)
  /\ UNCHANGED <<adminVars, phase, cursor, vaultIdMap, vaultMap>>

\* setContent() fails on a destroyed database: the create fails.
InitializeFails(c) ==
  /\ call[c].pc = "setContent"
  /\ ~ call[c].handle.open
  /\ Return(c)
  /\ UNCHANGED <<adminVars, phase, cursor, vaultIdMap, vaultMap, disk>>

\* The first pull of a link brings the peer's content.
PullArrives(c) ==
  /\ call[c].pc = "pull"
  /\ call[c].handle.open
  /\ disk' = [disk EXCEPT ![call[c].handle.db].content = TRUE]
  /\ Return(c)
  /\ UNCHANGED <<adminVars, phase, cursor, vaultIdMap, vaultMap>>

\* Mutant of PullEmpty: nobody tells a link that its database was destroyed.
PullEmptyIfOpen(c) ==
  /\ call[c].pc = "pull"
  /\ call[c].handle.open
  /\ Return(c)
  /\ UNCHANGED <<adminVars, phase, cursor, vaultIdMap, vaultMap, disk>>

\* The link returns without a pull: the connection exists already, the peer
\* holds nothing, or the database was destroyed.
PullEmpty(c) ==
  /\ call[c].pc = "pull"
  /\ Return(c)
  /\ UNCHANGED <<adminVars, phase, cursor, vaultIdMap, vaultMap, disk>>

\* Mutant of OnDeleteVault: the other names of the vault stay.
OnDeleteVaultOneName(c, n) ==
  /\ phase = "up"
  /\ HasName(n)
  /\ LET i == vaultIdMap[n] IN
       /\ HasVault(i)
       /\ vaultIdMap' = [vaultIdMap EXCEPT ![n] = None]
       /\ vaultMap' = [vaultMap EXCEPT ![i] = NoHandle]
       /\ Enter(c, "destroy", vaultMap[i])
  /\ UNCHANGED <<adminVars, phase, cursor, disk>>

\* onDeleteVault, up to destroy(): every name of the vault goes first, then the
\* vault itself.  The record in the admin database is left alone.
OnDeleteVault(c, n) ==
  /\ phase = "up"
  /\ HasName(n)
  /\ LET i == vaultIdMap[n] IN
       /\ HasVault(i)
       /\ vaultIdMap' = [m \in VaultName |-> IF vaultIdMap[m] = i THEN None ELSE vaultIdMap[m]]
       /\ vaultMap' = [vaultMap EXCEPT ![i] = NoHandle]
       /\ Enter(c, "destroy", vaultMap[i])
  /\ UNCHANGED <<adminVars, phase, cursor, disk>>

\* The handle h once database n is destroyed.
Killed(h, n) == IF h.db = n THEN [h EXCEPT !.open = FALSE] ELSE h

\* destroy() succeeds: the database is gone, and so is every handle on it.
Destroyed(c) ==
  /\ call[c].pc = "destroy"
  /\ call[c].handle.open
  /\ LET n == call[c].handle.db IN
       /\ disk' = [disk EXCEPT ![n] = NoDatabase]
       /\ vaultMap' = [i \in VaultId |-> Killed(vaultMap[i], n)]
       /\ call' = [d \in Call |->
                     IF d = c THEN IdleCall
                              ELSE [call[d] EXCEPT !.handle = Killed(call[d].handle, n)]]
  /\ UNCHANGED <<adminVars, phase, cursor, vaultIdMap>>

\* destroy() fails: the disk refuses, or another handle destroyed the database.
DestroyFails(c) ==
  /\ call[c].pc = "destroy"
  /\ Return(c)
  /\ UNCHANGED <<adminVars, phase, cursor, vaultIdMap, vaultMap, disk>>

-----------------------------------------------------------------------------
\* The life of the process.

\* Mutant of Start: initialize() does not store the document.
StartUninitialized ==
  /\ phase = "down"
  /\ phase' = "loading"
  /\ UNCHANGED <<adminVars, cursor, vaultIdMap, vaultMap, disk, call>>

\* configureRoutes: initialize the admin database, then ask it for the records.
Start ==
  /\ phase = "down"
  /\ phase' = "loading"
  /\ InitializeAdmin
  /\ UNCHANGED <<recorder, cursor, vaultIdMap, vaultMap, disk, call>>

NextRecord == adminDoc.vaultIds[cursor + 1]

\* useAdminService calls loadVault for each record in turn.  It does so without
\* an await and before the server listens: the steps of the loop are separate
\* here so that its invariant can be stated, and only a crash comes between.
LoadVault ==
  /\ phase = "loading"
  /\ cursor < Len(adminDoc.vaultIds)
  /\ ~ HasName(NextRecord.vaultName)
  /\ ~ HasVault(NextRecord.vaultId)
  /\ OpenDatabase(NextRecord.vaultName)
  /\ SetVaultEntry(NextRecord.vaultName, NextRecord.vaultId)
  /\ cursor' = cursor + 1
  /\ UNCHANGED <<adminVars, phase, call>>

\* loadVault answers CONFLICT, which nobody looks at.
LoadConflict ==
  /\ phase = "loading"
  /\ cursor < Len(adminDoc.vaultIds)
  /\ HasName(NextRecord.vaultName) \/ HasVault(NextRecord.vaultId)
  /\ cursor' = cursor + 1
  /\ UNCHANGED <<adminVars, phase, vaultIdMap, vaultMap, disk, call>>

\* Mutant of Listen: the loading is not waited for.
ListenEarly ==
  /\ phase = "loading"
  /\ phase' = "up"
  /\ cursor' = 0
  /\ UNCHANGED <<adminVars, vaultIdMap, vaultMap, disk, call>>

\* All records are loaded: the web server and the RPC server are opened.
Listen ==
  /\ phase = "loading"
  /\ cursor = Len(adminDoc.vaultIds)
  /\ phase' = "up"
  /\ cursor' = 0
  /\ UNCHANGED <<adminVars, vaultIdMap, vaultMap, disk, call>>

\* The memory of the process is gone.
Exit ==
  /\ phase # "down"
  /\ phase' = "down"
  /\ cursor' = 0
  /\ vaultIdMap' = [n \in VaultName |-> None]
  /\ vaultMap' = [i \in VaultId |-> NoHandle]
  /\ call' = [c \in Call |-> IdleCall]
  /\ UNCHANGED disk

\* The process is stopped or dies.
Crash == Exit /\ AdminCrash

\* Mutant of RecorderCrash: the rejection is swallowed.
RecorderRejectSwallowed(r) ==
  /\ recorder[r].pc = "put"
  /\ recorder[r].doc.rev # adminDoc.rev
  /\ recorder' = [recorder EXCEPT ![r] = IdleRecorder]
  /\ UNCHANGED <<adminDoc, registryVars>>

\* An unhandled rejection of recordVaultCreation ends it.
RecorderCrash(r) == RecorderReject(r) /\ Exit

RecorderStep(r) ==
  \/ (RecorderSkip(r) \/ RecorderGet(r) \/ RecorderPut(r)) /\ UNCHANGED registryVars
  \/ RecorderCrash(r)

CallStep(c) ==
  \/ InitializeRefused(c) \/ InitializeEmpty(c) \/ InitializeWrites(c) \/ InitializeFails(c)
  \/ PullArrives(c) \/ PullEmpty(c)
  \/ Destroyed(c) \/ DestroyFails(c)

CreateOrLink(c) ==
  \E n \in VaultName, i \in VaultId : OnCreateVault(c, n, i) \/ OnLinkNew(c, n, i) \/ OnLinkHeld(c, n, i)

DeleteCommand(c) == \E n \in VaultName : OnDeleteVault(c, n)

Startup == Start \/ LoadVault \/ LoadConflict \/ Listen

\* Every step but a delete.
KeepNext ==
  \/ Startup
  \/ Crash
  \/ \E c \in Call : CreateOrLink(c) \/ CallStep(c)
  \/ \E r \in Recorder : RecorderStep(r)

Next == KeepNext \/ \E c \in Call : DeleteCommand(c)

\* A request that was sent is answered, one way or the other, and a startup
\* that began goes on; nothing obliges a process to be started, a client to
\* ask for anything, or a peer to have content.
Fairness ==
  /\ WF_vars(LoadVault \/ LoadConflict \/ Listen)
  /\ \A c \in Call : WF_vars(CallStep(c))
  /\ \A r \in Recorder : WF_vars(RecorderStep(r))

Spec == RegistryInit /\ [][Next]_vars /\ Fairness

\* A device on which no vault is ever deleted.
KeepSpec == RegistryInit /\ [][KeepNext]_vars

-----------------------------------------------------------------------------
\* Properties of the registry.

RegistryTypeOK ==
  /\ phase \in {"down", "loading", "up"}
  /\ cursor \in Nat
  /\ vaultIdMap \in [VaultName -> VaultId \cup {None}]
  /\ vaultMap \in [VaultId -> Handle \cup {NoHandle}]
  /\ disk \in [VaultName -> Database]
  /\ call \in [Call -> CallState]
  /\ \A c \in Call : call[c].pc = "idle" <=> call[c].handle = NoHandle

\* There is something in memory only while the process runs, and commands and
\* records are on their way only once it serves.
PhaseOK ==
  /\ phase = "down" => /\ \A n \in VaultName : ~ HasName(n)
                       /\ \A i \in VaultId : ~ HasVault(i)
  /\ phase # "loading" => cursor = 0
  /\ cursor <= Len(adminDoc.vaultIds)
  /\ phase # "down" => adminDoc.rev # 0
  /\ phase # "up" => /\ \A r \in Recorder : recorder[r] = IdleRecorder
                     /\ \A c \in Call : call[c] = IdleCall

\* Every variable holds a value of its type, and what the phase allows.
TypeOK == AdminTypeOK /\ RegistryTypeOK /\ PhaseOK

\* A name in vaultIdMap always leads to a vault in vaultMap, at every await of
\* every command and while the records are loaded (VaultService.ts:207-218 and
\* CommandServer.ts:113-151 look a vault up in these two steps).
NamesResolve == \A n \in VaultName : HasName(n) => HasVault(vaultIdMap[n])

InFlight(i) == \E r \in Recorder : recorder[r].entry.vaultId = i

\* createVault does not wait for recordVaultCreation (VaultService.ts:72), yet a
\* vault in memory is never one that the next start would forget, but for the
\* time its record is being written: no record is lost to another create, and a
\* write that fails takes the process with it.
PendingOrRecorded ==
  \A i \in VaultId : HasVault(i) => i \in RecordedIds(adminDoc) \/ InFlight(i)

\* Record k is the first with its name.
FirstWithName(k) ==
  \A j \in 1 .. k - 1 : adminDoc.vaultIds[j].vaultName # adminDoc.vaultIds[k].vaultName

\* The loop over the first m records has loaded exactly the vault of the first
\* record with each name, on the database of that name.
LoadedUpTo(m) ==
  /\ \A k \in 1 .. m : HasName(adminDoc.vaultIds[k].vaultName)
  /\ \A k \in 1 .. m : FirstWithName(k) =>
       /\ vaultIdMap[adminDoc.vaultIds[k].vaultName] = adminDoc.vaultIds[k].vaultId
       /\ vaultMap[adminDoc.vaultIds[k].vaultId] = OpenHandle(adminDoc.vaultIds[k].vaultName)
  /\ \A n \in VaultName : HasName(n) =>
       \E k \in 1 .. m : adminDoc.vaultIds[k] = [vaultName |-> n, vaultId |-> vaultIdMap[n]]
  /\ \A i \in VaultId : HasVault(i) =>
       \E k \in 1 .. m : FirstWithName(k) /\ adminDoc.vaultIds[k].vaultId = i

\* The invariant of the loop, which the end of it turns into RestoredAsRecorded.
LoadingLoop == phase = "loading" => LoadedUpTo(cursor)

\* The server starts to listen with the vault of the first record of every name,
\* and no other, under that name and on the database of that name: the order of
\* the records decides, not the crash that came before (VaultService.ts:116-166).
RestoredAsRecorded ==
  [][phase = "loading" /\ phase' = "up" => LoadedUpTo(Len(adminDoc.vaultIds))]_vars

\* Every vault a client was given is recorded in the end, or the process ends.
EveryVaultRecorded ==
  \A i \in VaultId : HasVault(i) ~> i \in RecordedIds(adminDoc) \/ phase = "down"

\* Every command is answered, or the process ends, whatever the others do to the
\* database it works on (CommandServer.ts:35-83 and 153-206).
EveryCallReturns == \A c \in Call : call[c].pc # "idle" ~> call[c].pc = "idle"

-----------------------------------------------------------------------------
\* Properties of a device on which no vault is deleted.

\* No two vaults share a database (VaultService.ts:70: databases are opened by
\* name, vaults told apart by id).
OneDatabasePerVault ==
  \A i, j \in VaultId : HasVault(i) /\ HasVault(j) /\ vaultMap[i].db = vaultMap[j].db => i = j

\* A vault in memory is on the database its record names, and that record is the
\* only one with its name: a restart finds every recorded vault where it was,
\* whatever nicknames were added or moved since.
RecordedWhereOpen ==
  /\ \A j, k \in DOMAIN adminDoc.vaultIds :
       adminDoc.vaultIds[j].vaultName = adminDoc.vaultIds[k].vaultName => j = k
  /\ \A k \in DOMAIN adminDoc.vaultIds :
       /\ disk[adminDoc.vaultIds[k].vaultName].exists
       /\ phase = "up" =>
            vaultMap[adminDoc.vaultIds[k].vaultId] = OpenHandle(adminDoc.vaultIds[k].vaultName)

-----------------------------------------------------------------------------
\* What comments of the code say, and the code does not do.

\* The admin service "will be notified on essential operations. This includes the
\* creation of databases, or any other long-term persisted data"
\* (VaultService.ts:149-150): the database a vault was created on is the one its
\* record names, or will name once the call in flight is through.
DatabaseIsRecorded ==
  \A i \in VaultId : HasVault(i) =>
    LET rec == [vaultName |-> vaultMap[i].db, vaultId |-> i] IN
      \/ \E k \in DOMAIN adminDoc.vaultIds : adminDoc.vaultIds[k] = rec
      \/ \E r \in Recorder : recorder[r].entry = rec

=============================================================================
