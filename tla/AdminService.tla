---------------------------- MODULE AdminService ----------------------------
(***************************************************************************)
(* services/admin.ts: the single document "vaultIds" of the admin database, *)
(* and the calls of recordVaultCreation that are in flight.                 *)
(*                                                                          *)
(* The database outlives the process.  recordVaultCreation reads the        *)
(* document, awaits, and writes it back with the revision it read: PouchDB  *)
(* accepts the write only if that revision is still the current one and     *)
(* rejects it with 409 otherwise.  VaultService.createVault neither awaits  *)
(* nor catches the call, and no "unhandledRejection" handler is installed,  *)
(* so on Node 16 a rejected write ends the process.                         *)
(***************************************************************************)
EXTENDS Integers, Sequences

CONSTANTS VaultName,  \* names a client may give to a vault on this device
          VaultId,    \* vault identifiers (public keys)
          Recorder,   \* calls of recordVaultCreation that may be in flight
          None        \* no value

ASSUME NoneAssumption == None \notin VaultName \cup VaultId

VARIABLES
  adminDoc,   \* the stored document: its revision and its vaultIds array
  recorder    \* per call of recordVaultCreation: where it is, what it holds

adminVars == <<adminDoc, recorder>>

VaultRecord == [vaultName : VaultName, vaultId : VaultId]

AdminDoc == [rev : Nat, vaultIds : Seq(VaultRecord)]

\* No document is stored yet: get() rejects with 404.
NoDoc == [rev |-> 0, vaultIds |-> << >>]

NoRecord == [vaultName |-> None, vaultId |-> None]

RecorderState ==
  [pc : {"idle", "get", "put"}, entry : VaultRecord \cup {NoRecord}, doc : AdminDoc]

IdleRecorder == [pc |-> "idle", entry |-> NoRecord, doc |-> NoDoc]

RecordedIds(doc) == {doc.vaultIds[k].vaultId : k \in DOMAIN doc.vaultIds}

-----------------------------------------------------------------------------

AdminInit ==
  /\ adminDoc = NoDoc
  /\ recorder = [r \in Recorder |-> IdleRecorder]

\* initialize(): store an empty list unless the document exists.  It runs
\* before anything else can reach the database.
InitializeAdmin ==
  adminDoc' = IF adminDoc.rev = 0 THEN [rev |-> 1, vaultIds |-> << >>] ELSE adminDoc

\* recordVaultCreation(vaultName, vaultId) is called: it asks for the document.
RecordVaultCreation(r, n, i) ==
  /\ recorder[r].pc = "idle"
  /\ recorder' = [recorder EXCEPT ![r] =
                    [pc    |-> "get",
                     entry |-> [vaultName |-> n, vaultId |-> i],
                     doc   |-> NoDoc]]

\* get() answers with a document that already lists the id: nothing to insert.
RecorderSkip(r) ==
  /\ recorder[r].pc = "get"
  /\ recorder[r].entry.vaultId \in RecordedIds(adminDoc)
  /\ recorder' = [recorder EXCEPT ![r] = IdleRecorder]
  /\ UNCHANGED adminDoc

\* get() answers with a document that does not list the id: put() is called
\* with the list and the revision of that answer.
RecorderGet(r) ==
  /\ recorder[r].pc = "get"
  /\ recorder[r].entry.vaultId \notin RecordedIds(adminDoc)
  /\ recorder' = [recorder EXCEPT ![r].pc = "put", ![r].doc = adminDoc]
  /\ UNCHANGED adminDoc

\* Mutants of RecorderPut: a write with any revision; a write that joins the
\* entry to the list stored meanwhile.
RecorderPutForced(r) ==
  /\ recorder[r].pc = "put"
  /\ adminDoc' = [rev      |-> adminDoc.rev + 1,
                  vaultIds |-> Append(recorder[r].doc.vaultIds, recorder[r].entry)]
  /\ recorder' = [recorder EXCEPT ![r] = IdleRecorder]

RecorderPutMerged(r) ==
  /\ recorder[r].pc = "put"
  /\ adminDoc' = [rev      |-> adminDoc.rev + 1,
                  vaultIds |-> Append(adminDoc.vaultIds, recorder[r].entry)]
  /\ recorder' = [recorder EXCEPT ![r] = IdleRecorder]

\* put() reaches the database with the current revision.
RecorderPut(r) ==
  /\ recorder[r].pc = "put"
  /\ recorder[r].doc.rev = adminDoc.rev
  /\ adminDoc' = [rev      |-> adminDoc.rev + 1,
                  vaultIds |-> Append(recorder[r].doc.vaultIds, recorder[r].entry)]
  /\ recorder' = [recorder EXCEPT ![r] = IdleRecorder]

\* The process ends: the calls in flight are gone, the database stays.
AdminCrash ==
  /\ recorder' = [r \in Recorder |-> IdleRecorder]
  /\ UNCHANGED adminDoc

\* put() reaches the database with a revision that is no longer current: the
\* rejection is not handled and ends the process.
RecorderReject(r) ==
  /\ recorder[r].pc = "put"
  /\ recorder[r].doc.rev # adminDoc.rev
  /\ AdminCrash

-----------------------------------------------------------------------------
\* The admin service on its own, driven by any sequence of calls.

AdminStart ==
  /\ adminDoc.rev = 0
  /\ InitializeAdmin
  /\ UNCHANGED recorder

AdminCall(r) ==
  /\ adminDoc.rev # 0
  /\ \E n \in VaultName, i \in VaultId : RecordVaultCreation(r, n, i)
  /\ UNCHANGED adminDoc

AdminNext ==
  \/ AdminStart
  \/ \E r \in Recorder :
       \/ AdminCall(r)
       \/ RecorderSkip(r)
       \/ RecorderGet(r)
       \/ RecorderPut(r)
       \/ RecorderReject(r)
  \/ AdminCrash

AdminSpec == AdminInit /\ [][AdminNext]_adminVars

-----------------------------------------------------------------------------

\* Every variable holds a value of its type; a call in flight has its record,
\* an idle one holds nothing, a call holds no list before it read one, and no
\* call is made before initialize() (configure.ts:81-84).
AdminTypeOK ==
  /\ adminDoc \in AdminDoc
  /\ recorder \in [Recorder -> RecorderState]
  /\ adminDoc.rev = 0 => adminDoc = NoDoc /\ \A r \in Recorder : recorder[r].pc = "idle"
  /\ \A r \in Recorder :
       /\ recorder[r].pc = "idle" <=> recorder[r].entry = NoRecord
       /\ recorder[r].pc # "put" => recorder[r].doc = NoDoc

\* A list a call holds at the current revision is the current list, and it does
\* not hold the id the call is about to insert: what put() appends to is what
\* is stored (admin.ts:42-52, between the answer of get and the put).
HeldListIsCurrent ==
  \A r \in Recorder : recorder[r].pc = "put" =>
    /\ 0 < recorder[r].doc.rev
    /\ recorder[r].doc.rev <= adminDoc.rev
    /\ recorder[r].entry.vaultId \notin RecordedIds(recorder[r].doc)
    /\ recorder[r].doc.rev = adminDoc.rev => recorder[r].doc = adminDoc

\* No vault id is recorded twice (admin.ts:44-47), even when two calls for the
\* same id are in flight together: the check precedes the write by an await.
UniqueIds ==
  \A j, k \in DOMAIN adminDoc.vaultIds :
    adminDoc.vaultIds[j].vaultId = adminDoc.vaultIds[k].vaultId => j = k

\* Whatever calls overlap, and wherever the process dies, the stored list is an
\* append-only log with one record per id (admin.ts:39-57).
Log == INSTANCE RecordLog WITH log <- adminDoc.vaultIds

RecordsAreALog == Log!Spec

=============================================================================
