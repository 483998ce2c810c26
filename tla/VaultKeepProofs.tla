--------------------------- MODULE VaultKeepProofs ---------------------------
(***************************************************************************)
(* A device on which no vault is ever deleted (KeepSpec): each vault has a  *)
(* database of its own, and a restart finds each recorded vault on the       *)
(* database its record names.  The violation runs show what a delete does    *)
(* to both.                                                                 *)
(*                                                                          *)
(* KeepInv adds to RegInv that a vault in memory has an existing database   *)
(* whose name is in use: that is what keeps createVault, which looks at      *)
(* names only, off the database of another vault, whatever nicknames were   *)
(* moved meanwhile.  A record in flight is held to the same as a stored one. *)
(***************************************************************************)
EXTENDS VaultRegistryProofs

NoDestroy == \A c \in Call : call[c].pc # "destroy"

UniqueNames ==
  \A j, k \in DOMAIN adminDoc.vaultIds :
    adminDoc.vaultIds[j].vaultName = adminDoc.vaultIds[k].vaultName => j = k

\* The vault of record rec is in memory, on the database the record names.
Open(rec) == vaultMap[rec.vaultId] = OpenHandle(rec.vaultName)

StoredOpen ==
  \A k \in DOMAIN adminDoc.vaultIds :
    /\ disk[adminDoc.vaultIds[k].vaultName].exists
    /\ phase = "up" => Open(adminDoc.vaultIds[k])

InFlightOpen ==
  \A r \in Recorder : recorder[r].pc # "idle" => Open(recorder[r].entry)

HeldNamed ==
  \A i \in VaultId : HasVault(i) => /\ vaultMap[i].open
                                    /\ HasName(vaultMap[i].db)
                                    /\ disk[vaultMap[i].db].exists

KeepInv ==
  /\ NoDestroy
  /\ UniqueNames
  /\ StoredOpen
  /\ InFlightOpen
  /\ HeldNamed
  /\ OneDatabasePerVault

-----------------------------------------------------------------------------

\* The elements of a sequence.
LEMMA SeqElements ==
  ASSUME NEW S, NEW s \in Seq(S)
  PROVE  \A k \in DOMAIN s : s[k] \in S
  OBVIOUS

\* Names stay unique when a record with a new name is appended.
LEMMA AppendKeepsNamesUnique ==
  ASSUME NEW s \in Seq(VaultRecord), NEW e \in VaultRecord,
         \A j, k \in DOMAIN s : s[j].vaultName = s[k].vaultName => j = k,
         \A k \in DOMAIN s : s[k].vaultName # e.vaultName,
         NEW t, t = Append(s, e)
  PROVE  \A j, k \in DOMAIN t : t[j].vaultName = t[k].vaultName => j = k
<1>1. /\ DOMAIN s = 1 .. Len(s)
      /\ DOMAIN t = 1 .. Len(s) + 1
      /\ \A k \in 1 .. Len(s) : t[k] = s[k]
      /\ t[Len(s) + 1] = e
      /\ Len(s) \in Nat
  BY AppendFacts
<1> QED BY <1>1

\* The stored records are records.
LEMMA StoredRecords ==
  ASSUME RegInv
  PROVE  \A k \in DOMAIN adminDoc.vaultIds :
           /\ adminDoc.vaultIds[k] \in VaultRecord
           /\ adminDoc.vaultIds[k].vaultName \in VaultName
           /\ adminDoc.vaultIds[k].vaultId \in VaultId
<1>1. adminDoc.vaultIds \in Seq(VaultRecord)
  BY DEF RegInv, AdminInv, AdminTypeOK, AdminDoc
<1>2. \A k \in DOMAIN adminDoc.vaultIds : adminDoc.vaultIds[k] \in VaultRecord
  BY <1>1, SeqElements
<1> QED BY <1>2 DEF VaultRecord

\* The initial states.
LEMMA KeepInitInv == RegistryInit => KeepInv
<1> SUFFICES ASSUME RegistryInit PROVE KeepInv
  OBVIOUS
<1>1. NoDestroy /\ InFlightOpen
  BY DEF RegistryInit, AdminInit, NoDestroy, InFlightOpen, IdleCall, IdleRecorder
<1>2. UniqueNames /\ StoredOpen
  BY DEF RegistryInit, AdminInit, UniqueNames, StoredOpen, NoDoc
<1>3. HeldNamed /\ OneDatabasePerVault
  BY DEF RegistryInit, HeldNamed, OneDatabasePerVault, HasVault
<1> QED BY <1>1, <1>2, <1>3 DEF KeepInv

\* Steps that leave the records and the vaults in memory as they are, keep the
\* names in use, and remove no database.
LEMMA KeepQuiet ==
  ASSUME RegInv, KeepInv,
         UNCHANGED <<adminVars, vaultMap>>,
         phase' = "up" => phase = "up",
         \A n \in VaultName : HasName(n) => HasName(n)',
         \A n \in VaultName : disk[n].exists => disk'[n].exists,
         NoDestroy'
  PROVE  KeepInv'
<1> USE DEF KeepInv
<1>2. \A k \in DOMAIN adminDoc.vaultIds : adminDoc.vaultIds[k].vaultName \in VaultName
  BY StoredRecords
<1>3. \A i \in VaultId : HasVault(i) => vaultMap[i].db \in VaultName
  BY DEF RegInv, RegistryTypeOK, HasVault, Handle
<1>4. UniqueNames' /\ InFlightOpen' /\ OneDatabasePerVault'
  BY DEF UniqueNames, InFlightOpen, OneDatabasePerVault, Open, HasVault, adminVars
<1>5. StoredOpen'
  BY <1>2 DEF StoredOpen, Open, adminVars
<1>6. HeldNamed'
  BY <1>3 DEF HeldNamed, HasVault
<1> QED BY <1>4, <1>5, <1>6

\* A vault is put on a database whose name is not in use.
LEMMA KeepSetEntry ==
  ASSUME RegInv, KeepInv, NEW n \in VaultName, NEW i \in VaultId,
         ~ HasName(n), ~ HasVault(i), SetVaultEntry(n, i), OpenDatabase(n)
  PROVE  /\ HeldNamed' /\ OneDatabasePerVault'
         /\ vaultMap' = [vaultMap EXCEPT ![i] = OpenHandle(n)]
         /\ \A m \in VaultName : disk[m].exists => disk'[m].exists
         /\ disk'[n].exists
<1> USE DEF KeepInv
<1>1. /\ vaultMap' = [vaultMap EXCEPT ![i] = OpenHandle(n)]
      /\ vaultIdMap' = [vaultIdMap EXCEPT ![n] = i]
      /\ disk' = [disk EXCEPT ![n].exists = TRUE]
      /\ vaultMap \in [VaultId -> Handle \cup {NoHandle}]
      /\ vaultIdMap \in [VaultName -> VaultId \cup {None}]
      /\ disk \in [VaultName -> Database]
  BY DEF SetVaultEntry, OpenDatabase, RegInv, RegistryTypeOK
<1>2. OpenHandle(n).db = n /\ OpenHandle(n).open
  BY DEF OpenHandle
<1>3. \A m \in VaultName : (disk[m].exists => disk'[m].exists) /\ disk'[n].exists
  BY <1>1 DEF Database
<1>4. \A j \in VaultId : HasVault(j) => vaultMap[j].db \in VaultName
  BY <1>1 DEF HasVault, Handle
<1>5. \A j \in VaultId : j # i /\ HasVault(j)' =>
         HasVault(j) /\ vaultMap'[j] = vaultMap[j] /\ vaultMap[j].db # n
  BY <1>1 DEF HasVault, HeldNamed
<1>6. \A m \in VaultName : HasName(m) => HasName(m)'
  BY <1>1, NoneAssumption DEF HasName
<1>7. HasName(n)'
  BY <1>1, NoneAssumption DEF HasName
<1>8. HeldNamed'
  <2> SUFFICES ASSUME NEW j \in VaultId, HasVault(j)'
               PROVE  (vaultMap[j].open /\ HasName(vaultMap[j].db) /\ disk[vaultMap[j].db].exists)'
    BY DEF HeldNamed
  <2>1. CASE j = i
    BY <2>1, <1>1, <1>2, <1>3, <1>7
  <2>2. CASE j # i
    BY <2>2, <1>3, <1>4, <1>5, <1>6 DEF HeldNamed
  <2> QED BY <2>1, <2>2
<1>9. OneDatabasePerVault'
  BY <1>1, <1>2, <1>5 DEF OneDatabasePerVault
<1> QED BY <1>1, <1>3, <1>8, <1>9

\* A vault is created, by a create or a link.
LEMMA KeepCreate ==
  ASSUME RegInv, KeepInv, NEW n \in VaultName, NEW i \in VaultId, NEW c \in Call,
         phase = "up", CreateVault(n, i), UNCHANGED <<phase, cursor>>,
         NEW pc \in {"getContent", "pull"}, Enter(c, pc, OpenHandle(n))
  PROVE  KeepInv'
<1> USE DEF KeepInv
<1>1. /\ HeldNamed' /\ OneDatabasePerVault'
      /\ vaultMap' = [vaultMap EXCEPT ![i] = OpenHandle(n)]
      /\ \A m \in VaultName : disk[m].exists => disk'[m].exists
      /\ ~ HasVault(i) /\ adminDoc' = adminDoc
  BY KeepSetEntry DEF CreateVault
<1>2. NoDestroy'
  BY DEF NoDestroy, Enter, RegInv, RegistryTypeOK
<1>3. UniqueNames'
  BY <1>1 DEF UniqueNames
<1>4. \A rec \in VaultRecord : Open(rec) => rec.vaultId # i /\ Open(rec)'
  <2> SUFFICES ASSUME NEW rec \in VaultRecord, Open(rec) PROVE rec.vaultId # i /\ Open(rec)'
    OBVIOUS
  <2>1. rec.vaultName \in VaultName /\ rec.vaultId \in VaultId
    BY DEF VaultRecord
  <2>2. OpenHandle(rec.vaultName) # NoHandle
    BY <2>1, OpenHandleType, NoHandleIsNoHandle
  <2>3. rec.vaultId # i
    BY <2>2, <1>1 DEF Open, HasVault
  <2> QED BY <2>1, <2>3, <1>1 DEF Open, RegInv, RegistryTypeOK
<1>5. \A k \in DOMAIN adminDoc.vaultIds :
         adminDoc.vaultIds[k] \in VaultRecord /\ adminDoc.vaultIds[k].vaultName \in VaultName
  BY StoredRecords
<1>6. StoredOpen'
  BY <1>1, <1>4, <1>5 DEF StoredOpen
<1>7. InFlightOpen'
  <2>1. PICK r \in Recorder : RecordVaultCreation(r, n, i)
    BY DEF CreateVault
  <2>2. recorder' = [recorder EXCEPT ![r] =
                       [pc |-> "get", entry |-> [vaultName |-> n, vaultId |-> i], doc |-> NoDoc]]
    BY <2>1 DEF RecordVaultCreation
  <2>3. \A q \in Recorder : recorder[q].pc # "idle" => recorder[q].entry \in VaultRecord
    BY NoRecordIsNoRecord DEF RegInv, AdminInv, AdminTypeOK, RecorderState
  <2>4. vaultMap'[i] = OpenHandle(n)
    BY <1>1 DEF RegInv, RegistryTypeOK
  <2> SUFFICES ASSUME NEW q \in Recorder, recorder'[q].pc # "idle"
               PROVE  Open(recorder[q].entry)'
    BY DEF InFlightOpen
  <2>5. CASE q = r
    <3>1. recorder'[q].entry = [vaultName |-> n, vaultId |-> i]
      BY <2>5, <2>2 DEF RegInv, AdminInv, AdminTypeOK
    <3> QED BY <3>1, <2>4 DEF Open
  <2>6. CASE q # r
    <3>1. recorder'[q] = recorder[q]
      BY <2>6, <2>2 DEF RegInv, AdminInv, AdminTypeOK
    <3>2. Open(recorder[q].entry) /\ recorder[q].entry \in VaultRecord
      BY <3>1, <2>3 DEF InFlightOpen
    <3>3. vaultMap'[recorder[q].entry.vaultId] = OpenHandle(recorder[q].entry.vaultName)
      BY <3>2, <1>4 DEF Open
    <3> QED BY <3>1, <3>3 DEF Open
  <2> QED BY <2>5, <2>6
<1> QED BY <1>1, <1>2, <1>3, <1>6, <1>7

\* A vault that is held is linked under another name.
LEMMA KeepLink ==
  ASSUME RegInv, KeepInv, NEW c \in Call, NEW n \in VaultName, NEW i \in VaultId, OnLinkHeld(c, n, i)
  PROVE  KeepInv'
<1>1. \A m \in VaultName : HasName(m) => HasName(m)'
  BY NoneAssumption DEF OnLinkHeld, HasName, RegInv, RegistryTypeOK
<1>2. NoDestroy'
  BY DEF OnLinkHeld, Enter, KeepInv, NoDestroy, RegInv, RegistryTypeOK
<1> QED BY <1>1, <1>2, KeepQuiet DEF OnLinkHeld

\* The steps of commands.
LEMMA KeepCall ==
  ASSUME RegInv, KeepInv, NEW c \in Call, CallStep(c)
  PROVE  KeepInv'
<1>1. ~ Destroyed(c) /\ ~ DestroyFails(c)
  BY DEF Destroyed, DestroyFails, KeepInv, NoDestroy
<1>2. ASSUME Return(c) \/ Proceed(c, "setContent") PROVE NoDestroy'
  BY <1>2 DEF Return, Proceed, IdleCall, KeepInv, NoDestroy, RegInv, RegistryTypeOK, CallState
<1>3. ASSUME UNCHANGED <<vaultIdMap, disk>>
      PROVE  /\ \A m \in VaultName : HasName(m) => HasName(m)'
             /\ \A m \in VaultName : disk[m].exists => disk'[m].exists
  BY <1>3 DEF HasName
<1>4. ASSUME UNCHANGED vaultIdMap, disk' = [disk EXCEPT ![call[c].handle.db].content = TRUE]
      PROVE  /\ \A m \in VaultName : HasName(m) => HasName(m)'
             /\ \A m \in VaultName : disk[m].exists => disk'[m].exists
  BY <1>4 DEF HasName, RegInv, RegistryTypeOK, Database
<1>5. CASE InitializeRefused(c) \/ InitializeEmpty(c) \/ InitializeFails(c) \/ PullEmpty(c)
  BY <1>2, <1>3, <1>5, KeepQuiet
     DEF InitializeRefused, InitializeEmpty, InitializeFails, PullEmpty
<1>6. CASE InitializeWrites(c) \/ PullArrives(c)
  BY <1>2, <1>4, <1>6, KeepQuiet DEF InitializeWrites, PullArrives
<1> QED BY <1>1, <1>5, <1>6 DEF CallStep

\* A record is stored under a name no other record has: its vault is open on the
\* database of that name, and so would be the vault of the other.
LEMMA KeepRecorder ==
  ASSUME RegInv, KeepInv, NEW r \in Recorder,
         RecorderSkip(r) \/ RecorderGet(r) \/ RecorderPut(r), UNCHANGED registryVars
  PROVE  KeepInv'
<1> USE DEF KeepInv
<1>0. recorder \in [Recorder -> RecorderState]
  BY DEF RegInv, AdminInv, AdminTypeOK
<1>1. NoDestroy' /\ HeldNamed' /\ OneDatabasePerVault'
  BY DEF registryVars, NoDestroy, HeldNamed, OneDatabasePerVault, HasVault, HasName
<1>2. InFlightOpen'
  <2>1. \A q \in Recorder : recorder'[q].pc # "idle" =>
           recorder[q].pc # "idle" /\ recorder'[q].entry = recorder[q].entry
    BY <1>0 DEF RecorderSkip, RecorderGet, RecorderPut, IdleRecorder, RecorderState
  <2> QED BY <2>1 DEF InFlightOpen, Open, registryVars
<1>3. CASE RecorderSkip(r) \/ RecorderGet(r)
  <2>1. adminDoc' = adminDoc
    BY <1>3 DEF RecorderSkip, RecorderGet
  <2> QED BY <2>1, <1>1, <1>2 DEF UniqueNames, StoredOpen, Open, registryVars
<1>4. CASE RecorderPut(r)
  <2> DEFINE s == adminDoc.vaultIds
             e == recorder[r].entry
             t == adminDoc'.vaultIds
  <2>1. /\ recorder[r].pc = "put" /\ phase = "up"
        /\ e \in VaultRecord /\ e.vaultName \in VaultName /\ e.vaultId \in VaultId
        /\ e.vaultId \notin RecordedIds(adminDoc)
        /\ recorder[r].doc = adminDoc
    BY <1>0, <1>4, NoRecordIsNoRecord
       DEF RecorderPut, RegInv, AdminInv, AdminTypeOK, HeldListIsCurrent, RecorderState,
           PhaseOK, IdleRecorder, VaultRecord
  <2>2. t = Append(s, e) /\ s \in Seq(VaultRecord)
    BY <1>4, <2>1 DEF RecorderPut, RegInv, AdminInv, AdminTypeOK, AdminDoc
  <2>3. /\ DOMAIN s = 1 .. Len(s) /\ Len(s) \in Nat
        /\ DOMAIN t = 1 .. Len(s) + 1
        /\ \A k \in 1 .. Len(s) : t[k] = s[k]
        /\ t[Len(s) + 1] = e
    BY <2>1, <2>2, AppendFacts
  <2>4. Open(e) /\ HasVault(e.vaultId) /\ disk[e.vaultName].exists
    <3>1. Open(e)
      BY <2>1 DEF InFlightOpen
    <3>2. HasVault(e.vaultId)
      BY <3>1, <2>1, OpenHandleType, NoHandleIsNoHandle DEF Open, HasVault
    <3>3. vaultMap[e.vaultId].db = e.vaultName
      BY <3>1 DEF Open, OpenHandle
    <3> QED BY <3>1, <3>2, <3>3, <2>1 DEF HeldNamed
  <2>5. \A k \in DOMAIN s : s[k].vaultName # e.vaultName
    <3> SUFFICES ASSUME NEW k \in DOMAIN s, s[k].vaultName = e.vaultName PROVE FALSE
      OBVIOUS
    <3>1. s[k].vaultId \in VaultId /\ s[k].vaultName \in VaultName
      BY StoredRecords
    <3>2. vaultMap[s[k].vaultId] = OpenHandle(e.vaultName) /\ vaultMap[e.vaultId] = OpenHandle(e.vaultName)
      BY <2>1, <2>4 DEF StoredOpen, Open
    <3>3. HasVault(s[k].vaultId)
      BY <3>2, <2>1, OpenHandleType, NoHandleIsNoHandle DEF HasVault
    <3>4. s[k].vaultId = e.vaultId
      BY <3>1, <3>2, <3>3, <2>1, <2>4 DEF OneDatabasePerVault
    <3> QED BY <3>4, <2>1 DEF RecordedIds
  <2>6. UniqueNames'
    BY <2>1, <2>2, <2>5, AppendKeepsNamesUnique DEF UniqueNames
  <2>7. StoredOpen'
    BY <2>3, <2>4 DEF StoredOpen, Open, registryVars
  <2> QED BY <1>1, <1>2, <2>6, <2>7
<1> QED BY <1>3, <1>4

\* The process ends.
LEMMA KeepExit ==
  ASSUME RegInv, KeepInv, Exit, AdminCrash
  PROVE  KeepInv'
<1>1. NoDestroy' /\ InFlightOpen'
  BY DEF Exit, AdminCrash, NoDestroy, InFlightOpen, IdleCall, IdleRecorder
<1>2. UniqueNames' /\ StoredOpen'
  BY DEF Exit, AdminCrash, KeepInv, UniqueNames, StoredOpen
<1>3. HeldNamed' /\ OneDatabasePerVault'
  BY DEF Exit, HeldNamed, OneDatabasePerVault, HasVault
<1> QED BY <1>1, <1>2, <1>3 DEF KeepInv

\* A start finds every recorded vault: names being unique, each record is the
\* first with its name.
LEMMA KeepStartup ==
  ASSUME RegInv, KeepInv, Startup
  PROVE  KeepInv'
<1> USE DEF KeepInv
<1>1. CASE Start
  <2>1. /\ adminDoc'.vaultIds = adminDoc.vaultIds
        /\ phase' # "up" /\ UNCHANGED <<recorder, vaultIdMap, vaultMap, disk, call>>
    BY <1>1 DEF Start, InitializeAdmin, RegInv, AdminInv, AdminTypeOK, NoDoc
  <2>2. UniqueNames' /\ StoredOpen'
    BY <2>1 DEF UniqueNames, StoredOpen
  <2>3. NoDestroy' /\ InFlightOpen' /\ HeldNamed' /\ OneDatabasePerVault'
    BY <2>1 DEF NoDestroy, InFlightOpen, Open, HeldNamed, OneDatabasePerVault, HasVault, HasName
  <2> QED BY <2>2, <2>3
<1>2. CASE LoadConflict
  <2>1. \A m \in VaultName : (HasName(m) => HasName(m)') /\ (disk[m].exists => disk'[m].exists)
    BY <1>2 DEF LoadConflict, HasName
  <2>2. NoDestroy'
    BY <1>2 DEF LoadConflict, NoDestroy
  <2> QED BY <1>2, <2>1, <2>2, KeepQuiet DEF LoadConflict
<1>3. CASE LoadVault
  <2>1. /\ phase # "up" /\ phase' # "up" /\ UNCHANGED <<adminVars, call>>
        /\ ~ HasName(NextRecord.vaultName) /\ ~ HasVault(NextRecord.vaultId)
        /\ SetVaultEntry(NextRecord.vaultName, NextRecord.vaultId)
        /\ OpenDatabase(NextRecord.vaultName)
    BY <1>3 DEF LoadVault
  <2>2. NextRecord.vaultName \in VaultName /\ NextRecord.vaultId \in VaultId
    <3>1. cursor + 1 \in DOMAIN adminDoc.vaultIds
      BY <1>3 DEF LoadVault, RegInv, RegistryTypeOK, AdminInv, AdminTypeOK, AdminDoc
    <3> QED BY <3>1, StoredRecords DEF NextRecord
  <2>3. /\ HeldNamed' /\ OneDatabasePerVault'
        /\ \A m \in VaultName : disk[m].exists => disk'[m].exists
    BY <2>1, <2>2, KeepSetEntry
  <2>4. StoredOpen' /\ UniqueNames' /\ NoDestroy'
    BY <2>1, <2>3, StoredRecords DEF StoredOpen, UniqueNames, NoDestroy, adminVars
  <2>5. InFlightOpen'
    BY <2>1 DEF InFlightOpen, adminVars, RegInv, PhaseOK, IdleRecorder
  <2> QED BY <2>3, <2>4, <2>5
<1>4. CASE Listen
  <2>1. /\ phase = "loading" /\ LoadedUpTo(Len(adminDoc.vaultIds))
        /\ UNCHANGED <<adminVars, vaultIdMap, vaultMap, disk, call>>
    BY <1>4 DEF Listen, RegInv, LoadingLoop
  <2>2. DOMAIN adminDoc.vaultIds = 1 .. Len(adminDoc.vaultIds) /\ Len(adminDoc.vaultIds) \in Nat
    BY DEF RegInv, AdminInv, AdminTypeOK, AdminDoc
  <2>3. \A k \in DOMAIN adminDoc.vaultIds : FirstWithName(k)
    BY <2>2 DEF UniqueNames, FirstWithName
  <2>4. StoredOpen'
    BY <2>1, <2>2, <2>3 DEF StoredOpen, Open, LoadedUpTo, adminVars
  <2>5. NoDestroy' /\ UniqueNames' /\ HeldNamed' /\ OneDatabasePerVault' /\ InFlightOpen'
    BY <2>1 DEF NoDestroy, UniqueNames, HeldNamed, OneDatabasePerVault, InFlightOpen, Open,
                HasVault, HasName, adminVars
  <2> QED BY <2>4, <2>5
<1> QED BY <1>1, <1>2, <1>3, <1>4 DEF Startup

\* Every step.
LEMMA KeepNextInv == RegInv /\ KeepInv /\ [KeepNext]_vars => KeepInv'
<1> SUFFICES ASSUME RegInv, KeepInv, [KeepNext]_vars PROVE KeepInv'
  OBVIOUS
<1>1. CASE Startup
  BY <1>1, KeepStartup
<1>2. CASE Crash
  BY <1>2, KeepExit DEF Crash
<1>3. ASSUME NEW c \in Call, CreateOrLink(c)
      PROVE  KeepInv'
  BY <1>3, KeepCreate, KeepLink DEF CreateOrLink, OnCreateVault, OnLinkNew
<1>4. ASSUME NEW c \in Call, CallStep(c)
      PROVE  KeepInv'
  BY <1>4, KeepCall
<1>5. ASSUME NEW r \in Recorder, RecorderStep(r)
      PROVE  KeepInv'
  BY <1>5, KeepRecorder, KeepExit DEF RecorderStep, RecorderCrash, RecorderReject
<1>6. CASE UNCHANGED vars
  BY <1>6, KeepQuiet DEF vars, registryVars, HasName, KeepInv, NoDestroy
<1> QED BY <1>1, <1>2, <1>3, <1>4, <1>5, <1>6 DEF KeepNext

\* As long as nothing is deleted no two vaults share a database, and every
\* recorded vault is in memory on the database its record names: through any
\* overlap of creates and links, any reuse of nicknames, and any restart.
THEOREM KeptVaultsAreSafe == KeepSpec => [](OneDatabasePerVault /\ RecordedWhereOpen)
<1>1. RegInv /\ [KeepNext]_vars => RegInv'
  BY NextInv DEF Next
<1>2. KeepInv => OneDatabasePerVault /\ RecordedWhereOpen
  BY DEF KeepInv, UniqueNames, StoredOpen, Open, RecordedWhereOpen
<1> QED BY InitInv, KeepInitInv, KeepNextInv, <1>1, <1>2, PTL DEF KeepSpec

=============================================================================
