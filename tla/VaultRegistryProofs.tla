------------------------- MODULE VaultRegistryProofs -------------------------
(***************************************************************************)
(* Proofs about AdminService and VaultRegistry, for every set of names,     *)
(* ids, commands and calls of recordVaultCreation.                          *)
(*                                                                          *)
(* The inductive invariant of the admin database is AdminInv: the types,    *)
(* UniqueIds, and what ties a call's copy of the document to the stored one *)
(* (HeldListIsCurrent).  UniqueIds alone is not inductive: put() appends to *)
(* the copy the call read before its await, so one needs that a copy at the *)
(* current revision is the stored list and lacks the id to insert.          *)
(*                                                                          *)
(* A step of the registry is a step of AdminService or leaves it alone, so  *)
(* what is proved of the latter holds under the registry.  RegInv adds what *)
(* ties memory to it.                                                       *)
(***************************************************************************)
EXTENDS VaultRegistry, TLAPS

AdminInv == AdminTypeOK /\ HeldListIsCurrent /\ UniqueIds

-----------------------------------------------------------------------------

\* The list a call stores: a list of records, one longer, its old positions kept.
LEMMA AppendFacts ==
  ASSUME NEW S, NEW s \in Seq(S), NEW e \in S
  PROVE  /\ Append(s, e) \in Seq(S)
         /\ DOMAIN s = 1 .. Len(s)
         /\ DOMAIN Append(s, e) = 1 .. Len(s) + 1
         /\ \A k \in 1 .. Len(s) : Append(s, e)[k] = s[k]
         /\ Append(s, e)[Len(s) + 1] = e
  OBVIOUS

\* No record is the empty record.
LEMMA NoRecordIsNoRecord == NoRecord \notin VaultRecord
  BY NoneAssumption DEF NoRecord, VaultRecord

\* The document before it is stored is a document.
LEMMA NoDocType == NoDoc \in AdminDoc
  BY DEF NoDoc, AdminDoc

\* Ids stay unique when a record with a new id is appended.
LEMMA AppendKeepsIdsUnique ==
  ASSUME NEW s \in Seq(VaultRecord), NEW e \in VaultRecord,
         \A j, k \in DOMAIN s : s[j].vaultId = s[k].vaultId => j = k,
         \A k \in DOMAIN s : s[k].vaultId # e.vaultId,
         NEW t, t = Append(s, e)
  PROVE  \A j, k \in DOMAIN t : t[j].vaultId = t[k].vaultId => j = k
<1>1. /\ DOMAIN s = 1 .. Len(s)
      /\ DOMAIN t = 1 .. Len(s) + 1
      /\ \A k \in 1 .. Len(s) : t[k] = s[k]
      /\ t[Len(s) + 1] = e
      /\ Len(s) \in Nat
  BY AppendFacts
<1> QED BY <1>1

-----------------------------------------------------------------------------

\* The initial states.
LEMMA AdminInitInv == AdminInit => AdminInv
<1> SUFFICES ASSUME AdminInit PROVE AdminInv
  OBVIOUS
<1>1. AdminTypeOK
  BY NoDocType, NoRecordIsNoRecord
     DEF AdminInit, AdminTypeOK, RecorderState, IdleRecorder
<1>2. HeldListIsCurrent
  BY DEF AdminInit, HeldListIsCurrent, IdleRecorder
<1>3. UniqueIds
  BY DEF AdminInit, UniqueIds, NoDoc
<1> QED BY <1>1, <1>2, <1>3 DEF AdminInv

\* A write with the current revision keeps the invariant, and is an insert of
\* the abstract log.
LEMMA RecorderPutInv ==
  ASSUME AdminInv, NEW r \in Recorder, RecorderPut(r)
  PROVE  AdminInv' /\ \E n \in VaultName, i \in VaultId : Log!Insert(n, i)
<1> DEFINE held == recorder[r].doc
           e    == recorder[r].entry
<1> USE DEF AdminInv
<1>1. /\ held = adminDoc
      /\ e.vaultId \notin RecordedIds(adminDoc)
      /\ adminDoc.rev \in Nat \ {0}
  BY DEF RecorderPut, HeldListIsCurrent, AdminTypeOK, AdminDoc
<1>2. e \in VaultRecord
  BY NoRecordIsNoRecord DEF RecorderPut, AdminTypeOK, RecorderState
<1>3. adminDoc.vaultIds \in Seq(VaultRecord)
  BY DEF AdminTypeOK, AdminDoc
<1>4. adminDoc' = [rev |-> adminDoc.rev + 1, vaultIds |-> Append(adminDoc.vaultIds, e)]
  BY <1>1 DEF RecorderPut
<1>5. recorder' = [recorder EXCEPT ![r] = IdleRecorder]
  BY DEF RecorderPut
<1>6. AdminTypeOK'
  <2>1. adminDoc' \in AdminDoc
    BY <1>1, <1>2, <1>3, <1>4, AppendFacts DEF AdminDoc
  <2>0. adminDoc'.rev # 0
    BY <1>1, <1>4
  <2>2. recorder' \in [Recorder -> RecorderState]
    BY <1>5, NoDocType DEF AdminTypeOK, RecorderState, IdleRecorder
  <2>3. \A q \in Recorder : /\ (recorder[q].pc = "idle" <=> recorder[q].entry = NoRecord)'
                            /\ (recorder[q].pc # "put" => recorder[q].doc = NoDoc)'
    BY <1>5 DEF AdminTypeOK, IdleRecorder
  <2> QED BY <2>0, <2>1, <2>2, <2>3 DEF AdminTypeOK
<1>7. HeldListIsCurrent'
  <2> SUFFICES ASSUME NEW q \in Recorder, recorder'[q].pc = "put"
               PROVE  /\ 0 < recorder'[q].doc.rev
                      /\ recorder'[q].doc.rev < adminDoc'.rev
                      /\ recorder'[q].entry.vaultId \notin RecordedIds(recorder'[q].doc)
    <3>1. \A x, y \in Nat : x < y => x <= y /\ x # y
      OBVIOUS
    <3>2. \A q \in Recorder : recorder'[q].doc.rev \in Nat /\ adminDoc'.rev \in Nat
      BY <1>6 DEF AdminTypeOK, RecorderState, AdminDoc
    <3> QED BY <3>1, <3>2 DEF HeldListIsCurrent, RecordedIds
  <2>1. q # r /\ recorder'[q] = recorder[q]
    BY <1>5 DEF AdminTypeOK, IdleRecorder
  <2>2. recorder[q].doc.rev \in Nat
    BY DEF AdminTypeOK, RecorderState, AdminDoc
  <2>3. recorder[q].doc.rev <= adminDoc.rev /\ adminDoc'.rev = adminDoc.rev + 1
    BY <2>1, <1>4 DEF HeldListIsCurrent
  <2> QED BY <2>1, <2>2, <2>3, <1>1 DEF HeldListIsCurrent
<1>8. \A k \in DOMAIN adminDoc.vaultIds : adminDoc.vaultIds[k].vaultId # e.vaultId
  BY <1>1 DEF RecordedIds
<1>9. UniqueIds'
  BY <1>2, <1>3, <1>4, <1>8, AppendKeepsIdsUnique DEF UniqueIds
<1>10. Log!Insert(e.vaultName, e.vaultId)
  BY <1>2, <1>4, <1>8 DEF Log!Insert, Log!Recorded, VaultRecord
<1>11. e.vaultName \in VaultName /\ e.vaultId \in VaultId
  BY <1>2 DEF VaultRecord
<1> QED BY <1>6, <1>7, <1>9, <1>10, <1>11

\* The steps that leave the stored list alone keep the invariant.
LEMMA AdminStartInv ==
  ASSUME AdminInv, AdminStart
  PROVE  AdminInv' /\ UNCHANGED adminDoc.vaultIds
<1> USE DEF AdminInv
<1>1. adminDoc.rev = 0 /\ adminDoc' = [rev |-> 1, vaultIds |-> << >>] /\ recorder' = recorder
  BY DEF AdminStart, InitializeAdmin
<1>2. adminDoc'.vaultIds = << >> /\ adminDoc'.rev = 1
  BY <1>1
<1>3. \A r \in Recorder : recorder[r].pc # "put"
  BY <1>1 DEF HeldListIsCurrent, AdminTypeOK, RecorderState, AdminDoc
<1>4. adminDoc.vaultIds = << >>
  BY <1>1 DEF AdminTypeOK, NoDoc
<1>5. AdminTypeOK'
  BY <1>1, <1>2 DEF AdminTypeOK, AdminDoc
<1>6. HeldListIsCurrent' /\ UniqueIds'
  BY <1>1, <1>2, <1>3 DEF HeldListIsCurrent, UniqueIds
<1> QED BY <1>2, <1>4, <1>5, <1>6

\* A command calls recordVaultCreation.
LEMMA AdminCallInv ==
  ASSUME AdminInv, NEW r \in Recorder, NEW n \in VaultName, NEW i \in VaultId,
         RecordVaultCreation(r, n, i), UNCHANGED adminDoc, adminDoc.rev # 0
  PROVE  AdminInv' /\ UNCHANGED adminDoc.vaultIds
<1> USE DEF AdminInv
<1>1. /\ recorder' = [recorder EXCEPT ![r] =
                        [pc |-> "get", entry |-> [vaultName |-> n, vaultId |-> i], doc |-> NoDoc]]
      /\ [vaultName |-> n, vaultId |-> i] \in VaultRecord
  BY DEF RecordVaultCreation, VaultRecord
<1>2. AdminTypeOK'
  BY <1>1, NoDocType, NoRecordIsNoRecord DEF AdminTypeOK, RecorderState
<1>3. HeldListIsCurrent' /\ UniqueIds'
  BY <1>1 DEF HeldListIsCurrent, UniqueIds, AdminTypeOK
<1> QED BY <1>2, <1>3

\* Calls that return, for any reason, leave the others as they are.
LEMMA RecordersReturnInv ==
  ASSUME AdminInv, UNCHANGED adminDoc, recorder' \in [Recorder -> RecorderState],
         \A r \in Recorder : recorder'[r] \in {recorder[r], IdleRecorder}
  PROVE  AdminInv' /\ UNCHANGED adminDoc.vaultIds
<1> USE DEF AdminInv
<1>1. AdminTypeOK'
  BY DEF AdminTypeOK, IdleRecorder
<1>2. HeldListIsCurrent' /\ UniqueIds'
  BY DEF HeldListIsCurrent, UniqueIds, IdleRecorder
<1> QED BY <1>1, <1>2

\* An idle recorder is a recorder.
LEMMA IdleRecorderType == IdleRecorder \in RecorderState
  BY NoDocType DEF IdleRecorder, RecorderState

\* The process ends.
LEMMA AdminCrashInv ==
  ASSUME AdminInv, AdminCrash
  PROVE  AdminInv' /\ UNCHANGED adminDoc.vaultIds
  BY IdleRecorderType, RecordersReturnInv DEF AdminCrash

\* The id is on the list.
LEMMA RecorderSkipInv ==
  ASSUME AdminInv, NEW r \in Recorder, RecorderSkip(r)
  PROVE  AdminInv' /\ UNCHANGED adminDoc.vaultIds
<1>1. recorder' = [recorder EXCEPT ![r] = IdleRecorder] /\ recorder \in [Recorder -> RecorderState]
  BY DEF RecorderSkip, AdminInv, AdminTypeOK
<1> QED BY <1>1, IdleRecorderType, RecordersReturnInv DEF RecorderSkip

\* The id is not on the list: a changed list is on its way.
LEMMA RecorderGetInv ==
  ASSUME AdminInv, NEW r \in Recorder, RecorderGet(r)
  PROVE  AdminInv' /\ UNCHANGED adminDoc.vaultIds
<1> USE DEF AdminInv
<1>1. /\ recorder' = [recorder EXCEPT ![r].pc = "put", ![r].doc = adminDoc]
      /\ recorder[r].pc = "get" /\ adminDoc' = adminDoc
      /\ recorder[r].entry.vaultId \notin RecordedIds(adminDoc)
  BY DEF RecorderGet
<1>2. AdminTypeOK'
  BY <1>1 DEF AdminTypeOK, RecorderState, AdminDoc
<1>3. adminDoc.rev \in Nat \ {0}
  BY <1>1 DEF AdminTypeOK, AdminDoc
<1>4. HeldListIsCurrent'
  BY <1>1, <1>3 DEF HeldListIsCurrent, AdminTypeOK, RecordedIds, RecorderState
<1>5. UniqueIds'
  BY <1>1 DEF UniqueIds
<1> QED BY <1>1, <1>2, <1>4, <1>5


\* A step of the service keeps the invariant, and is an insert of the abstract
\* log or leaves it alone.
LEMMA AdminNextInv ==
  ASSUME AdminInv, [AdminNext]_adminVars
  PROVE  AdminInv' /\ [Log!Next]_(adminDoc.vaultIds)
<1>1. CASE AdminStart
  BY <1>1, AdminStartInv
<1>2. ASSUME NEW r \in Recorder, AdminCall(r)
      PROVE  AdminInv' /\ UNCHANGED adminDoc.vaultIds
  BY <1>2, AdminCallInv DEF AdminCall
<1>3. ASSUME NEW r \in Recorder, RecorderSkip(r)
      PROVE  AdminInv' /\ UNCHANGED adminDoc.vaultIds
  BY <1>3, RecorderSkipInv
<1>4. ASSUME NEW r \in Recorder, RecorderGet(r)
      PROVE  AdminInv' /\ UNCHANGED adminDoc.vaultIds
  BY <1>4, RecorderGetInv
<1>5. ASSUME NEW r \in Recorder, RecorderPut(r)
      PROVE  AdminInv' /\ Log!Next
  BY <1>5, RecorderPutInv DEF Log!Next
<1>6. ASSUME NEW r \in Recorder, RecorderReject(r)
      PROVE  AdminInv' /\ UNCHANGED adminDoc.vaultIds
  BY <1>6, AdminCrashInv DEF RecorderReject
<1>7. CASE AdminCrash
  BY <1>7, AdminCrashInv
<1>8. CASE UNCHANGED adminVars
  <2>1. \A r \in Recorder : recorder'[r] \in {recorder[r], IdleRecorder}
    BY <1>8 DEF adminVars
  <2>2. recorder' \in [Recorder -> RecorderState]
    BY <1>8 DEF adminVars, AdminInv, AdminTypeOK
  <2> QED BY <1>8, <2>1, <2>2, RecordersReturnInv DEF adminVars
<1> QED BY <1>1, <1>2, <1>3, <1>4, <1>5, <1>6, <1>7, <1>8 DEF AdminNext

\* AdminService: the types hold, a copy at the current revision is the stored
\* list, and no id is recorded twice, for any number of overlapping calls.
THEOREM AdminInvariant == AdminSpec => [](AdminTypeOK /\ HeldListIsCurrent /\ UniqueIds)
<1>1. AdminInv /\ [AdminNext]_adminVars => AdminInv'
  BY AdminNextInv
<1> QED BY AdminInitInv, <1>1, PTL DEF AdminSpec, AdminInv

\* AdminService implements RecordLog: the stored list only grows, by one record
\* with a new id at a time.
THEOREM AdminImplementsLog == AdminSpec => RecordsAreALog
<1>1. AdminInit => Log!Init
  BY DEF AdminInit, NoDoc, Log!Init
<1>2. AdminInv /\ [AdminNext]_adminVars => AdminInv' /\ [Log!Next]_(adminDoc.vaultIds)
  BY AdminNextInv
<1> QED BY AdminInitInv, <1>1, <1>2, PTL DEF AdminSpec, RecordsAreALog, Log!Spec

-----------------------------------------------------------------------------
\* The registry.

RegInv ==
  /\ AdminInv
  /\ RegistryTypeOK
  /\ PhaseOK
  /\ NamesResolve
  /\ PendingOrRecorded
  /\ LoadingLoop

-----------------------------------------------------------------------------
\* The admin database under the registry.

\* The registry drives the admin service as AdminNext allows: nothing is
\* recorded before the database is initialized.
LEMMA RegistryDrivesAdmin ==
  ASSUME RegInv, [Next]_vars
  PROVE  [AdminNext]_adminVars
<1> USE DEF RegInv
<1>1. CASE Startup
  <2>1. CASE Start
    BY <2>1 DEF Start, AdminNext, AdminStart, InitializeAdmin, adminVars
  <2> QED BY <1>1, <2>1 DEF Startup, LoadVault, LoadConflict, Listen, adminVars
<1>2. CASE Crash
  BY <1>2 DEF Crash, AdminNext
<1>3. ASSUME NEW n \in VaultName, NEW i \in VaultId, phase = "up", CreateVault(n, i)
      PROVE  AdminNext
  BY <1>3 DEF CreateVault, PhaseOK, AdminNext, AdminCall
<1>4. ASSUME NEW c \in Call, CreateOrLink(c)
      PROVE  [AdminNext]_adminVars
  BY <1>3, <1>4 DEF CreateOrLink, OnCreateVault, OnLinkNew, OnLinkHeld
<1>5. ASSUME NEW c \in Call, CallStep(c) \/ DeleteCommand(c)
      PROVE  UNCHANGED adminVars
  BY <1>5 DEF CallStep, DeleteCommand, InitializeRefused, InitializeEmpty, InitializeWrites,
              InitializeFails, PullArrives, PullEmpty, Destroyed, DestroyFails, OnDeleteVault
<1>6. ASSUME NEW r \in Recorder, RecorderStep(r)
      PROVE  AdminNext
  BY <1>6 DEF RecorderStep, RecorderCrash, AdminNext
<1>7. CASE UNCHANGED vars
  BY <1>7 DEF vars
<1> QED BY <1>1, <1>2, <1>4, <1>5, <1>6, <1>7 DEF Next, KeepNext

-----------------------------------------------------------------------------
\* Facts about the data.

\* No handle is a handle.
LEMMA NoHandleIsNoHandle == NoHandle \notin Handle
  BY NoneAssumption DEF NoHandle, Handle

\* An opened database is a handle.
LEMMA OpenHandleType == \A n \in VaultName : OpenHandle(n) \in Handle
  BY DEF OpenHandle, Handle

\* A destroyed database leaves a handle a handle, and no handle no handle.
LEMMA KilledType ==
  ASSUME NEW n \in VaultName, NEW h \in Handle \cup {NoHandle}
  PROVE  /\ Killed(h, n) \in Handle \cup {NoHandle}
         /\ Killed(h, n) = NoHandle <=> h = NoHandle
  BY NoHandleIsNoHandle, NoneAssumption DEF Killed, Handle, NoHandle

\* What the initial list, and a list with a record appended, say of ids.
LEMMA RecordedAppend ==
  ASSUME NEW s \in Seq(VaultRecord), NEW e \in VaultRecord, NEW d, NEW t,
         d.vaultIds = s, t.vaultIds = Append(s, e)
  PROVE  RecordedIds(d) \cup {e.vaultId} \subseteq RecordedIds(t)
<1>1. /\ DOMAIN s = 1 .. Len(s)
      /\ DOMAIN Append(s, e) = 1 .. Len(s) + 1
      /\ \A k \in 1 .. Len(s) : Append(s, e)[k] = s[k]
      /\ Append(s, e)[Len(s) + 1] = e
      /\ Len(s) \in Nat
  BY AppendFacts
<1> QED BY <1>1 DEF RecordedIds

-----------------------------------------------------------------------------
\* One lemma per group of steps: the conjuncts of RegInv about the registry.

RegistryInv ==
  RegistryTypeOK /\ PhaseOK /\ NamesResolve /\ PendingOrRecorded /\ LoadingLoop

\* The initial states.
LEMMA InitInv == RegistryInit => RegInv
<1> SUFFICES ASSUME RegistryInit PROVE RegInv
  OBVIOUS
<1>1. AdminInv
  BY AdminInitInv DEF RegistryInit
<1>2. RegistryTypeOK
  BY NoHandleIsNoHandle DEF RegistryInit, RegistryTypeOK, Database, NoDatabase, CallState, IdleCall
<1>3. PhaseOK /\ LoadingLoop
  BY DEF RegistryInit, AdminInit, PhaseOK, LoadingLoop, HasName, HasVault, NoDoc
<1>4. NamesResolve /\ PendingOrRecorded
  BY DEF RegistryInit, NamesResolve, PendingOrRecorded, HasName, HasVault
<1> QED BY <1>1, <1>2, <1>3, <1>4 DEF RegInv

\* Steps of a command that leave the memory of the registry alone.
LEMMA QuietStepInv ==
  ASSUME RegInv, phase = "up",
         UNCHANGED <<adminVars, phase, cursor, vaultIdMap, vaultMap>>,
         disk' \in [VaultName -> Database],
         call' \in [Call -> CallState],
         \A c \in Call : call'[c].pc = "idle" <=> call'[c].handle = NoHandle
  PROVE  RegistryInv'
<1> USE DEF RegInv
<1>1. RegistryTypeOK' /\ PhaseOK'
  BY DEF RegistryTypeOK, PhaseOK, HasName, HasVault, adminVars
<1>2. NamesResolve' /\ PendingOrRecorded' /\ LoadingLoop'
  BY DEF NamesResolve, PendingOrRecorded, LoadingLoop, HasName, HasVault, InFlight, adminVars
<1> QED BY <1>1, <1>2 DEF RegistryInv

\* A command that is in flight: the process serves, the handle is a handle.
LEMMA InFlightCommand ==
  ASSUME RegInv, NEW c \in Call, call[c].pc # "idle"
  PROVE  phase = "up" /\ call[c].handle \in Handle /\ call[c].handle.db \in VaultName
<1> USE DEF RegInv
<1>1. phase = "up"
  BY DEF PhaseOK, IdleCall
<1>2. call[c].handle \in Handle
  BY DEF RegistryTypeOK, CallState
<1> QED BY <1>1, <1>2 DEF Handle

\* An idle call is a call.
LEMMA IdleCallType == IdleCall \in CallState
  BY DEF IdleCall, CallState

\* The steps of commands.
LEMMA CallStepInv ==
  ASSUME RegInv, NEW c \in Call, CallStep(c)
  PROVE  RegistryInv'
<1> USE DEF RegInv
<1>0. call[c].pc # "idle"
  BY DEF CallStep, InitializeRefused, InitializeEmpty, InitializeWrites,
         InitializeFails, PullArrives, PullEmpty, Destroyed, DestroyFails
<1>1. phase = "up" /\ call[c].handle \in Handle /\ call[c].handle.db \in VaultName
  BY <1>0, InFlightCommand
<1>2. ASSUME Return(c)
      PROVE  /\ call' \in [Call -> CallState]
             /\ \A d \in Call : call'[d].pc = "idle" <=> call'[d].handle = NoHandle
  BY <1>2, IdleCallType DEF Return, RegistryTypeOK, IdleCall
<1>3. disk \in [VaultName -> Database] /\ call \in [Call -> CallState]
  BY DEF RegistryTypeOK
<1>4. CASE InitializeRefused(c) \/ InitializeFails(c) \/ PullEmpty(c) \/ DestroyFails(c)
  BY <1>1, <1>2, <1>3, <1>4, QuietStepInv
     DEF InitializeRefused, InitializeFails, PullEmpty, DestroyFails
<1>5. CASE InitializeEmpty(c)
  <2>1. call' = [call EXCEPT ![c].pc = "setContent"]
    BY <1>5 DEF InitializeEmpty, Proceed
  <2>2. call' \in [Call -> CallState]
    BY <2>1, <1>3 DEF CallState
  <2>3. \A d \in Call : call'[d].pc = "idle" <=> call'[d].handle = NoHandle
    BY <2>1, <1>0, <1>3 DEF RegistryTypeOK, CallState
  <2> QED BY <1>1, <1>3, <1>5, <2>2, <2>3, QuietStepInv DEF InitializeEmpty
<1>6. CASE InitializeWrites(c) \/ PullArrives(c)
  <2>1. disk' = [disk EXCEPT ![call[c].handle.db].content = TRUE]
    BY <1>6 DEF InitializeWrites, PullArrives
  <2>2. disk' \in [VaultName -> Database]
    BY <2>1, <1>3 DEF Database
  <2> QED BY <1>1, <1>2, <1>6, <2>2, QuietStepInv DEF InitializeWrites, PullArrives
<1>7. CASE Destroyed(c)
  <2> DEFINE n == call[c].handle.db
  <2>1. /\ vaultMap' = [i \in VaultId |-> Killed(vaultMap[i], n)]
        /\ disk' = [disk EXCEPT ![n] = NoDatabase]
        /\ call' = [d \in Call |->
                      IF d = c THEN IdleCall
                               ELSE [call[d] EXCEPT !.handle = Killed(call[d].handle, n)]]
        /\ UNCHANGED <<adminVars, phase, cursor, vaultIdMap>>
    BY <1>7 DEF Destroyed
  <2>2. /\ vaultMap' \in [VaultId -> Handle \cup {NoHandle}]
        /\ \A i \in VaultId : HasVault(i)' <=> HasVault(i)
    BY <2>1, <1>1, KilledType DEF RegistryTypeOK, HasVault
  <2>3. disk' \in [VaultName -> Database]
    BY <2>1, <1>3 DEF Database, NoDatabase
  <2>4. \A d \in Call : /\ call'[d] \in CallState
                        /\ call'[d].pc = "idle" <=> call'[d].handle = NoHandle
    <3> SUFFICES ASSUME NEW d \in Call
                 PROVE  /\ call'[d] \in CallState
                        /\ call'[d].pc = "idle" <=> call'[d].handle = NoHandle
      OBVIOUS
    <3>1. CASE d = c
      BY <3>1, <2>1, IdleCallType DEF IdleCall
    <3>2. CASE d # c
      <4>1. call'[d] = [call[d] EXCEPT !.handle = Killed(call[d].handle, n)]
        BY <3>2, <2>1
      <4>2. call[d] \in CallState /\ (call[d].pc = "idle" <=> call[d].handle = NoHandle)
        BY DEF RegistryTypeOK
      <4> QED BY <4>1, <4>2, <1>1, KilledType DEF CallState
    <3> QED BY <3>1, <3>2
  <2>5. call' \in [Call -> CallState]
    BY <2>1, <2>4
  <2>6. RegistryTypeOK'
    BY <2>1, <2>2, <2>3, <2>4, <2>5 DEF RegistryTypeOK
  <2>7. PhaseOK' /\ LoadingLoop'
    BY <2>1, <1>1 DEF PhaseOK, LoadingLoop, adminVars
  <2>8. NamesResolve' /\ PendingOrRecorded'
    BY <2>1, <2>2 DEF NamesResolve, PendingOrRecorded, HasName, InFlight, adminVars, RegistryTypeOK
  <2> QED BY <2>6, <2>7, <2>8 DEF RegistryInv
<1> QED BY <1>4, <1>5, <1>6, <1>7 DEF CallStep

\* createVault: the new vault's record is in flight.
LEMMA CreateInv ==
  ASSUME RegInv, NEW n \in VaultName, NEW i \in VaultId, NEW c \in Call,
         phase = "up", CreateVault(n, i), UNCHANGED <<phase, cursor>>,
         NEW pc \in {"getContent", "pull"}, Enter(c, pc, OpenHandle(n))
  PROVE  RegistryInv'
<1> USE DEF RegInv
<1>1. /\ vaultMap' = [vaultMap EXCEPT ![i] = OpenHandle(n)]
      /\ vaultIdMap' = [vaultIdMap EXCEPT ![n] = i]
      /\ disk' = [disk EXCEPT ![n].exists = TRUE]
      /\ adminDoc' = adminDoc
      /\ call' = [call EXCEPT ![c] = [pc |-> pc, handle |-> OpenHandle(n)]]
  BY DEF CreateVault, SetVaultEntry, OpenDatabase, Enter
<1>2. OpenHandle(n) \in Handle /\ OpenHandle(n) # NoHandle
  BY OpenHandleType, NoHandleIsNoHandle
<1>3. RegistryTypeOK'
  <2>1. /\ vaultMap' \in [VaultId -> Handle \cup {NoHandle}]
        /\ vaultIdMap' \in [VaultName -> VaultId \cup {None}]
    BY <1>1, <1>2 DEF RegistryTypeOK
  <2>2. disk' \in [VaultName -> Database]
    BY <1>1 DEF RegistryTypeOK, Database
  <2>3. call' \in [Call -> CallState]
    BY <1>1, <1>2 DEF RegistryTypeOK, CallState
  <2>4. \A d \in Call : call'[d].pc = "idle" <=> call'[d].handle = NoHandle
    BY <1>1, <1>2 DEF RegistryTypeOK
  <2> QED BY <2>1, <2>2, <2>3, <2>4 DEF RegistryTypeOK
<1>4. PhaseOK' /\ LoadingLoop'
  BY <1>1 DEF PhaseOK, LoadingLoop
<1>5. \A j \in VaultId : HasVault(j)' <=> HasVault(j) \/ j = i
  BY <1>1, <1>2 DEF HasVault, RegistryTypeOK
<1>6. NamesResolve'
  BY <1>1, <1>5 DEF NamesResolve, HasName, RegistryTypeOK
<1>7. PendingOrRecorded'
  <2>1. PICK r \in Recorder : RecordVaultCreation(r, n, i)
    BY DEF CreateVault
  <2>2. /\ recorder' = [recorder EXCEPT ![r] =
                          [pc |-> "get", entry |-> [vaultName |-> n, vaultId |-> i], doc |-> NoDoc]]
        /\ recorder[r].pc = "idle" /\ recorder \in [Recorder -> RecorderState]
        /\ recorder[r].entry = NoRecord
    BY <2>1 DEF RecordVaultCreation, AdminInv, AdminTypeOK
  <2>3. recorder'[r].entry.vaultId = i
    BY <2>2
  <2>4. \A j \in VaultId : InFlight(j) => InFlight(j)'
    BY <2>2, NoneAssumption DEF InFlight, NoRecord
  <2> QED BY <2>3, <2>4, <1>1, <1>5 DEF PendingOrRecorded, InFlight
<1> QED BY <1>3, <1>4, <1>6, <1>7 DEF RegistryInv

\* linkVault for a vault the device holds: the nickname leads to that vault.
LEMMA LinkHeldInv ==
  ASSUME RegInv, NEW c \in Call, NEW n \in VaultName, NEW i \in VaultId, OnLinkHeld(c, n, i)
  PROVE  RegistryInv'
<1> USE DEF RegInv
<1>1. /\ vaultIdMap' = [vaultIdMap EXCEPT ![n] = i] /\ HasVault(i) /\ phase = "up"
      /\ call' = [call EXCEPT ![c] = [pc |-> "pull", handle |-> vaultMap[i]]]
      /\ UNCHANGED <<adminVars, phase, cursor, vaultMap, disk>>
  BY DEF OnLinkHeld, Enter
<1>2. vaultMap[i] \in Handle /\ vaultMap[i] # NoHandle
  BY <1>1 DEF RegistryTypeOK, HasVault
<1>3. RegistryTypeOK'
  BY <1>1, <1>2 DEF RegistryTypeOK, CallState
<1>4. PhaseOK' /\ LoadingLoop'
  BY <1>1 DEF PhaseOK, LoadingLoop, adminVars
<1>5. NamesResolve' /\ PendingOrRecorded'
  BY <1>1 DEF NamesResolve, PendingOrRecorded, HasName, HasVault, InFlight, adminVars, RegistryTypeOK
<1> QED BY <1>3, <1>4, <1>5 DEF RegistryInv

\* delete: no name leads to the vault that goes.
LEMMA DeleteInv ==
  ASSUME RegInv, NEW c \in Call, NEW n \in VaultName, OnDeleteVault(c, n)
  PROVE  RegistryInv'
<1> DEFINE i == vaultIdMap[n]
<1> USE DEF RegInv
<1>1. /\ vaultIdMap' = [m \in VaultName |-> IF vaultIdMap[m] = i THEN None ELSE vaultIdMap[m]]
      /\ vaultMap' = [vaultMap EXCEPT ![i] = NoHandle]
      /\ call' = [call EXCEPT ![c] = [pc |-> "destroy", handle |-> vaultMap[i]]]
      /\ UNCHANGED <<adminVars, phase, cursor, disk>>
      /\ phase = "up" /\ HasName(n) /\ HasVault(i)
  BY DEF OnDeleteVault, Enter
<1>2. i \in VaultId /\ vaultMap[i] \in Handle /\ vaultMap[i] # NoHandle
  BY <1>1 DEF RegistryTypeOK, HasVault, HasName
<1>3. RegistryTypeOK'
  <2>1. vaultIdMap' \in [VaultName -> VaultId \cup {None}]
    BY <1>1 DEF RegistryTypeOK
  <2> QED BY <2>1, <1>1, <1>2 DEF RegistryTypeOK, CallState
<1>4. PhaseOK' /\ LoadingLoop'
  BY <1>1 DEF PhaseOK, LoadingLoop, adminVars
<1>5. \A j \in VaultId : HasVault(j)' <=> HasVault(j) /\ j # i
  BY <1>1, <1>2 DEF HasVault, RegistryTypeOK
<1>6. NamesResolve'
  BY <1>1, <1>5 DEF NamesResolve, HasName, RegistryTypeOK
<1>7. PendingOrRecorded'
  BY <1>1, <1>5 DEF PendingOrRecorded, InFlight, adminVars
<1> QED BY <1>3, <1>4, <1>6, <1>7 DEF RegistryInv

\* The process ends: there is nothing in memory.
LEMMA ExitInv ==
  ASSUME RegInv, Exit, AdminCrash
  PROVE  RegistryInv'
<1> USE DEF RegInv
<1>1. RegistryTypeOK'
  BY IdleCallType DEF Exit, RegistryTypeOK, IdleCall
<1>2. PhaseOK' /\ LoadingLoop'
  BY DEF Exit, AdminCrash, PhaseOK, LoadingLoop, HasName, HasVault, AdminInv, AdminTypeOK, AdminDoc
<1>3. NamesResolve' /\ PendingOrRecorded'
  BY DEF Exit, NamesResolve, PendingOrRecorded, HasName, HasVault
<1> QED BY <1>1, <1>2, <1>3 DEF RegistryInv

\* A call of recordVaultCreation that goes on: the vault whose record it carries
\* is recorded before the call ends.
LEMMA RecorderStepInv ==
  ASSUME RegInv, NEW r \in Recorder, RecorderStep(r)
  PROVE  RegistryInv'
<1> USE DEF RegInv
<1>1. CASE RecorderCrash(r)
  BY <1>1, ExitInv DEF RecorderCrash, RecorderReject
<1>2. CASE (RecorderSkip(r) \/ RecorderGet(r) \/ RecorderPut(r)) /\ UNCHANGED registryVars
  <2>0. /\ recorder \in [Recorder -> RecorderState]
        /\ adminDoc.vaultIds \in Seq(VaultRecord)
    BY DEF AdminInv, AdminTypeOK, AdminDoc
  <2>1. recorder[r].pc # "idle" /\ phase = "up"
    BY <1>2 DEF RecorderSkip, RecorderGet, RecorderPut, PhaseOK, IdleRecorder
  <2>2. /\ RecordedIds(adminDoc) \subseteq RecordedIds(adminDoc')
        /\ \A i \in VaultId : InFlight(i) => InFlight(i)' \/ i \in RecordedIds(adminDoc')
        /\ adminDoc'.rev # 0
        /\ Len(adminDoc'.vaultIds) >= Len(adminDoc.vaultIds)
    <3>0. adminDoc.rev \in Nat /\ adminDoc.rev # 0
      BY <2>1 DEF PhaseOK, AdminInv, AdminTypeOK, AdminDoc
    <3>1. CASE RecorderSkip(r)
      BY <3>0, <3>1, <2>0 DEF RecorderSkip, InFlight
    <3>2. CASE RecorderGet(r)
      BY <3>0, <3>2, <2>0 DEF RecorderGet, InFlight, RecorderState
    <3>3. CASE RecorderPut(r)
      <4>1. recorder[r].entry \in VaultRecord
        BY <2>0, <2>1, NoRecordIsNoRecord DEF AdminInv, AdminTypeOK, RecorderState
      <4>2. recorder[r].doc = adminDoc
        BY <3>3 DEF RecorderPut, AdminInv, HeldListIsCurrent
      <4>3. /\ adminDoc' = [rev |-> adminDoc.rev + 1,
                            vaultIds |-> Append(adminDoc.vaultIds, recorder[r].entry)]
            /\ recorder' = [recorder EXCEPT ![r] = IdleRecorder]
        BY <3>3, <4>2 DEF RecorderPut
      <4>4. RecordedIds(adminDoc) \cup {recorder[r].entry.vaultId} \subseteq RecordedIds(adminDoc')
        <5>1. adminDoc'.vaultIds = Append(adminDoc.vaultIds, recorder[r].entry)
          BY <4>3
        <5> HIDE DEF RegInv
        <5> QED BY <4>1, <5>1, <2>0, RecordedAppend
      <4>5. \A i \in VaultId : InFlight(i) => InFlight(i)' \/ i \in RecordedIds(adminDoc')
        BY <4>3, <4>4, <2>0 DEF InFlight
      <4>6. adminDoc'.rev # 0 /\ Len(adminDoc'.vaultIds) >= Len(adminDoc.vaultIds)
        BY <4>1, <4>3, <2>0, <3>0
      <4> QED BY <4>4, <4>5, <4>6
    <3> QED BY <1>2, <3>1, <3>2, <3>3
  <2>3. RegistryTypeOK' /\ NamesResolve'
    BY <1>2 DEF registryVars, RegistryTypeOK, NamesResolve, HasName, HasVault
  <2>4. PendingOrRecorded'
    BY <1>2, <2>2 DEF registryVars, PendingOrRecorded, HasVault
  <2>5. PhaseOK' /\ LoadingLoop'
    <3>1. AdminInv'
      BY RegistryDrivesAdmin, AdminNextInv DEF Next, KeepNext
    <3>2. cursor = 0 /\ Len(adminDoc'.vaultIds) \in Nat
      BY <3>1, <2>1 DEF PhaseOK, AdminInv, AdminTypeOK, AdminDoc
    <3> QED BY <1>2, <2>1, <2>2, <3>2 DEF registryVars, PhaseOK, LoadingLoop
  <2> QED BY <2>3, <2>4, <2>5 DEF RegistryInv
<1> QED BY <1>1, <1>2 DEF RecorderStep

\* The loop over the records: each turn loads the vault of the first record with
\* a name, and no other.
LEMMA LoadLoopInv ==
  ASSUME RegInv, LoadVault \/ LoadConflict
  PROVE  RegistryInv'
<1> DEFINE s == adminDoc.vaultIds
           m == cursor + 1
           rec == NextRecord
<1> USE DEF RegInv
<1>1. /\ phase = "loading" /\ phase' = "loading"
      /\ cursor \in Nat /\ Len(s) \in Nat /\ cursor < Len(s)
      /\ cursor' = m /\ adminDoc' = adminDoc /\ recorder' = recorder /\ call' = call
      /\ s \in Seq(VaultRecord)
  BY DEF LoadVault, LoadConflict, adminVars, RegistryTypeOK, AdminInv, AdminTypeOK, AdminDoc
<1>2. /\ rec = s[m] /\ rec \in VaultRecord
      /\ 1 .. m = (1 .. cursor) \cup {m}
      /\ m \in DOMAIN s /\ 1 .. cursor \subseteq DOMAIN s
      /\ \A k \in 1 .. m : s[k] \in VaultRecord
  BY <1>1 DEF NextRecord
<1>3. rec.vaultName \in VaultName /\ rec.vaultId \in VaultId
  BY <1>2 DEF VaultRecord
<1>4. LoadedUpTo(cursor)
  BY <1>1 DEF LoadingLoop
<1>5. ~ HasVault(rec.vaultId)
  <2>1. ASSUME NEW k \in 1 .. cursor, s[k].vaultId = rec.vaultId PROVE FALSE
    <3>1. k # m
      BY <2>1, <1>1
    <3> QED BY <2>1, <3>1, <1>2 DEF AdminInv, UniqueIds
  <2> QED BY <2>1, <1>3, <1>4 DEF LoadedUpTo
<1>6. FirstWithName(m) <=> ~ HasName(rec.vaultName)
  <2>1. m - 1 = cursor
    BY <1>1
  <2>2. ASSUME HasName(rec.vaultName) PROVE ~ FirstWithName(m)
    <3>1. PICK k \in 1 .. cursor : s[k] = [vaultName |-> rec.vaultName, vaultId |-> vaultIdMap[rec.vaultName]]
      BY <2>2, <1>3, <1>4 DEF LoadedUpTo
    <3> QED BY <3>1, <2>1, <1>2 DEF FirstWithName
  <2>3. ASSUME ~ HasName(rec.vaultName) PROVE FirstWithName(m)
    BY <2>1, <2>3, <1>2, <1>4 DEF LoadedUpTo, FirstWithName
  <2> QED BY <2>2, <2>3
<1>7. CASE LoadConflict
  <2>1. HasName(rec.vaultName) /\ UNCHANGED <<vaultIdMap, vaultMap, disk>>
    BY <1>5, <1>7 DEF LoadConflict
  <2>2. LoadedUpTo(m)
    BY <2>1, <1>2, <1>4, <1>6 DEF LoadedUpTo
  <2>3. LoadingLoop'
    BY <2>1, <2>2, <1>1 DEF LoadingLoop, LoadedUpTo, HasName, HasVault, FirstWithName
  <2>4. RegistryTypeOK' /\ PhaseOK'
    BY <2>1, <1>1 DEF RegistryTypeOK, PhaseOK, HasName, HasVault
  <2>5. NamesResolve' /\ PendingOrRecorded'
    BY <2>1, <1>1 DEF NamesResolve, PendingOrRecorded, HasName, HasVault, InFlight
  <2> QED BY <2>3, <2>4, <2>5 DEF RegistryInv
<1>8. CASE LoadVault
  <2>1. /\ ~ HasName(rec.vaultName)
        /\ vaultMap' = [vaultMap EXCEPT ![rec.vaultId] = OpenHandle(rec.vaultName)]
        /\ vaultIdMap' = [vaultIdMap EXCEPT ![rec.vaultName] = rec.vaultId]
        /\ disk' = [disk EXCEPT ![rec.vaultName].exists = TRUE]
    BY <1>8 DEF LoadVault, SetVaultEntry, OpenDatabase
  <2>2. OpenHandle(rec.vaultName) \in Handle /\ OpenHandle(rec.vaultName) # NoHandle
    BY <1>3, OpenHandleType, NoHandleIsNoHandle
  <2>3. RegistryTypeOK'
    <3>1. disk' \in [VaultName -> Database]
      BY <2>1 DEF RegistryTypeOK, Database
    <3> QED BY <3>1, <2>1, <2>2, <1>1, <1>3 DEF RegistryTypeOK
  <2>4. PhaseOK'
    BY <1>1 DEF PhaseOK
  <2>5. /\ \A j \in VaultId : HasVault(j)' <=> HasVault(j) \/ j = rec.vaultId
        /\ \A n \in VaultName : HasName(n)' <=> HasName(n) \/ n = rec.vaultName
    BY <2>1, <2>2, <1>3, NoneAssumption DEF HasVault, HasName, RegistryTypeOK
  <2>6. NamesResolve'
    BY <2>1, <2>5, <1>3 DEF NamesResolve, HasName, RegistryTypeOK
  <2>7. PendingOrRecorded'
    <3>1. rec.vaultId \in RecordedIds(adminDoc)
      BY <1>2 DEF RecordedIds
    <3> QED BY <3>1, <2>5, <1>1 DEF PendingOrRecorded, InFlight
  <2>8. LoadedUpTo(cursor)'
    <3>1. \A k \in 1 .. cursor : s[k].vaultName # rec.vaultName /\ s[k].vaultId # rec.vaultId
      <4>1. \A k \in 1 .. cursor : s[k].vaultName # rec.vaultName
        BY <2>1, <1>4 DEF LoadedUpTo
      <4>2. \A k \in 1 .. cursor : s[k].vaultId # rec.vaultId
        BY <1>1, <1>2 DEF AdminInv, UniqueIds
      <4> QED BY <4>1, <4>2
    <3>2. \A k \in 1 .. cursor : s[k].vaultName \in VaultName /\ s[k].vaultId \in VaultId
      BY <1>2 DEF VaultRecord
    <3>3. \A k \in 1 .. m : HasName(s[k].vaultName)'
      BY <3>2, <2>5, <1>1, <1>2, <1>3, <1>4 DEF LoadedUpTo
    <3>4. \A k \in 1 .. m : FirstWithName(k) =>
             vaultIdMap'[s[k].vaultName] = s[k].vaultId /\ vaultMap'[s[k].vaultId] = OpenHandle(s[k].vaultName)
      BY <3>1, <3>2, <2>1, <1>2, <1>3, <1>4 DEF LoadedUpTo, RegistryTypeOK
    <3>5. \A n \in VaultName : HasName(n)' =>
             \E k \in 1 .. m : s[k] = [vaultName |-> n, vaultId |-> vaultIdMap'[n]]
      <4> SUFFICES ASSUME NEW n \in VaultName, HasName(n)'
                   PROVE  \E k \in 1 .. m : s[k] = [vaultName |-> n, vaultId |-> vaultIdMap'[n]]
        OBVIOUS
      <4>1. CASE n = rec.vaultName
        <5>1. vaultIdMap'[n] = rec.vaultId
          BY <4>1, <2>1 DEF RegistryTypeOK
        <5>2. rec = [vaultName |-> n, vaultId |-> rec.vaultId]
          BY <4>1, <1>2 DEF VaultRecord
        <5> QED BY <5>1, <5>2, <1>2
      <4>2. CASE n # rec.vaultName
        BY <4>2, <2>1, <2>5, <1>2, <1>4 DEF LoadedUpTo, RegistryTypeOK
      <4> QED BY <4>1, <4>2
    <3>6. \A i \in VaultId : HasVault(i)' => \E k \in 1 .. m : FirstWithName(k) /\ s[k].vaultId = i
      BY <2>1, <2>5, <1>2, <1>4, <1>6 DEF LoadedUpTo
    <3> QED BY <3>3, <3>4, <3>5, <3>6, <1>1 DEF LoadedUpTo, FirstWithName
  <2>9. LoadingLoop'
    BY <2>8, <1>1 DEF LoadingLoop
  <2> QED BY <2>3, <2>4, <2>6, <2>7, <2>9 DEF RegistryInv
<1> QED BY <1>7, <1>8

\* The process starts with an empty memory, and serves once all is loaded.
LEMMA StartAndListenInv ==
  ASSUME RegInv, Start \/ Listen
  PROVE  RegistryInv'
<1> USE DEF RegInv
<1>0. adminDoc.rev = 0 => adminDoc.vaultIds = << >>
  BY DEF AdminInv, AdminTypeOK, NoDoc
<1>1. /\ adminDoc'.vaultIds = adminDoc.vaultIds
      /\ recorder' = recorder /\ UNCHANGED <<vaultIdMap, vaultMap, disk, call>>
      /\ phase' # "down" /\ adminDoc'.rev # 0 /\ cursor' = 0
  BY <1>0 DEF Start, Listen, InitializeAdmin, PhaseOK, adminVars
<1>2. Len(adminDoc.vaultIds) \in Nat
  BY DEF AdminInv, AdminTypeOK, AdminDoc
<1>3. RegistryTypeOK' /\ PhaseOK'
  BY <1>1, <1>2 DEF Start, Listen, RegistryTypeOK, PhaseOK
<1>4. NamesResolve' /\ PendingOrRecorded'
  BY <1>1 DEF NamesResolve, PendingOrRecorded, HasName, HasVault, InFlight, RecordedIds
<1>5. LoadingLoop'
  BY <1>1 DEF Start, Listen, LoadingLoop, LoadedUpTo, PhaseOK, HasName, HasVault
<1> QED BY <1>3, <1>4, <1>5 DEF RegistryInv

\* RegInv is inductive.
LEMMA NextInv == RegInv /\ [Next]_vars => RegInv'
<1> SUFFICES ASSUME RegInv, [Next]_vars PROVE RegInv'
  OBVIOUS
<1>1. AdminInv'
  BY RegistryDrivesAdmin, AdminNextInv DEF RegInv
<1>2. RegistryInv'
  <2>1. CASE Startup
    BY <2>1, StartAndListenInv, LoadLoopInv DEF Startup
  <2>2. CASE Crash
    BY <2>2, ExitInv DEF Crash
  <2>3. ASSUME NEW c \in Call, CreateOrLink(c)
        PROVE  RegistryInv'
    BY <2>3, CreateInv, LinkHeldInv DEF CreateOrLink, OnCreateVault, OnLinkNew
  <2>4. ASSUME NEW c \in Call, CallStep(c)
        PROVE  RegistryInv'
    BY <2>4, CallStepInv
  <2>5. ASSUME NEW r \in Recorder, RecorderStep(r)
        PROVE  RegistryInv'
    BY <2>5, RecorderStepInv
  <2>6. ASSUME NEW c \in Call, DeleteCommand(c)
        PROVE  RegistryInv'
    BY <2>6, DeleteInv DEF DeleteCommand
  <2>7. CASE UNCHANGED vars
    BY <2>7 DEF vars, adminVars, registryVars, RegInv, RegistryInv, RegistryTypeOK, PhaseOK,
                NamesResolve, PendingOrRecorded, LoadingLoop, LoadedUpTo, FirstWithName,
                HasName, HasVault, InFlight
  <2> QED BY <2>1, <2>2, <2>3, <2>4, <2>5, <2>6, <2>7 DEF Next, KeepNext
<1> QED BY <1>1, <1>2 DEF RegInv, RegistryInv

-----------------------------------------------------------------------------

\* VaultRegistry keeps its types, at every await and through every restart.
THEOREM TypeCorrect == Spec => []TypeOK
<1>1. RegInv => TypeOK
  BY DEF RegInv, TypeOK, AdminInv
<1> QED BY InitInv, NextInv, <1>1, PTL DEF Spec

\* Every name leads to a vault, every vault in memory is recorded or about to be,
\* the startup loop loads the first record of each name, and what holds of the
\* admin database alone holds under the registry: a list held at the current
\* revision is the current list, and no id is recorded twice.
THEOREM RegistryInvariant ==
  Spec => [](NamesResolve /\ PendingOrRecorded /\ LoadingLoop /\ HeldListIsCurrent /\ UniqueIds)
<1>1. RegInv => NamesResolve /\ PendingOrRecorded /\ LoadingLoop /\ HeldListIsCurrent /\ UniqueIds
  BY DEF RegInv, AdminInv, RegistryInv
<1> QED BY InitInv, NextInv, <1>1, PTL DEF Spec

\* The server starts to listen with exactly the vaults of the first records.
THEOREM RestartRestores == Spec => RestoredAsRecorded
<1>1. ASSUME RegInv, [Next]_vars, phase = "loading", phase' = "up"
      PROVE  LoadedUpTo(Len(adminDoc.vaultIds))
  <2>1. Listen
    BY <1>1 DEF Next, KeepNext, Startup, Start, LoadVault, LoadConflict, Crash, Exit,
                CreateOrLink, OnCreateVault, OnLinkNew, OnLinkHeld, DeleteCommand, OnDeleteVault,
                CallStep, InitializeRefused, InitializeEmpty, InitializeWrites, InitializeFails,
                PullArrives, PullEmpty, Destroyed, DestroyFails,
                RecorderStep, RecorderCrash, registryVars, vars
  <2> QED BY <1>1, <2>1 DEF Listen, RegInv, LoadingLoop
<1>2. RegInv /\ [Next]_vars =>
        [phase = "loading" /\ phase' = "up" => LoadedUpTo(Len(adminDoc.vaultIds))]_vars
  BY <1>1
<1> QED BY InitInv, NextInv, <1>2, PTL DEF Spec, RestoredAsRecorded

\* Under the registry too, the admin database is a RecordLog.
THEOREM RegistryImplementsLog == Spec => RecordsAreALog
<1>1. RegistryInit => AdminInit
  BY DEF RegistryInit
<1>2. RegInv /\ [Next]_vars => [AdminNext]_adminVars
  BY RegistryDrivesAdmin
<1> QED BY InitInv, NextInv, AdminImplementsLog, <1>1, <1>2, PTL DEF Spec, AdminSpec

=============================================================================
