# Munkey: TLA+ models and proofs

Munkey is a peer-to-peer password manager. On each device a Node.js service
(`src/munkey`) keeps *vaults*, one PouchDB database each, and replicates them
with the services of other devices. Clients (a desktop application, a command
line, a shell inside the service) encrypt and sign the content of a vault and
talk to the service of their own device over gRPC.

This directory holds the models of that system: TLA+ modules written from the
source, TLC runs over small instances (`*.cfg`), and TLAPS proofs for all
instances (`*Proofs.tla`). `PROJECT.json` maps each definition to the lines it
translates and lists runs, hazards, findings and theorems.

    tlc -config VaultRegistry.cfg MCVaultRegistry     # model-check a run
    tlapm VaultRegistryProofs.tla                     # check the proofs

## 1. The system

| part | source | state | operations |
|---|---|---|---|
| admin database | `services/admin.ts` | one document: the list of `{vaultName, vaultId}`, with its revision | `initialize`, `recordVaultCreation`, `getAllVaultRecords` |
| vault registry | `services/vault/VaultService.ts` | `vaultMap` (id -> open database), `vaultIdMap` (name -> id) | create, link, load, delete, list |
| vault content | `services/vault/VaultDatabase.ts` | document `vault`, attachment `passwords.json` | `initialize`, `getContent`, `setContent`, `destroy` |
| commands | `server/CommandServer.ts` | none: the handlers join the services | create, delete, get, set, link, link up/down, peers |
| connections | `services/connection.ts` | vault id -> device -> replication | publish, remove, the events of a sync |
| peer discovery | `services/activity.ts` | the active peer list: address -> identity and vaults | `publishDevice`, `republish`, `restorePeer`, mDNS up/down |
| web server, routes | `services/web.ts`, `configure.ts` | the server that was bound last | listen, close, `GET`/`POST /link`, startup |
| gRPC server | `server/pipe/` | the calls under way | one method per command; bind, shutdown |
| shell | `server/ShellCommandServer.ts` | who reads lines, the active vault, the command under way | the `vault`, `peer` and `link` commands, the password prompt |
| payload, ciphers | `encryption/`, `MunkeyClient/Contexts` (C#) | none | serialize, encrypt, sign, validate, twice |
| encrypting plugin | `pouch/encryption.ts` | none | used only by its own test |
| clients | `src/munkey-app` (C#) | the open vault: its items, name and key | create, open, edit, save, pull, link |

How they interact:

* **Clients -> commands -> services** by calls and promises. The service is one
  JavaScript thread: a handler runs alone from one `await` to the next, and
  everything else may run in between. Nothing is locked.
* **Registry -> admin database**: `createVault` starts `recordVaultCreation`
  and does not wait for it (`VaultService.ts:72`). A start reads the list back
  and loads each vault (`useAdminService`).
* **Shell and gRPC server -> commands**: both subclass `CommandServer` and share the
  services; the shell runs one command at a time, a gRPC server any number.
* **Shell, clients -> stored content -> peers**: whoever writes a vault seals it (key
  and entries, encrypted, signed), and whoever reads it, in either language, opens it.
* **Commands, discovery -> connections**: a link, or an mDNS announcement of a
  device that has one of our vaults, publishes a connection. PouchDB calls back
  when the first pull ends and when the sync changes, fails or completes.
* **Device -> device**: PouchDB replication under `/db`, and the identity
  document at `/link`.

What is hard here:

* *interleaving*: read-await-write on the admin list; a create between the two
  halves of a delete; lookups through two maps;
* *failure*: unhandled rejections, which end the process on Node 15 and later
  (no `unhandledRejection` handler is installed, and `package.json` types
  against Node 15); a network failure during a pull; a process that dies
  between the creation of a database and its record;
* *restart*: two maps rebuilt from a list that no delete ever shortens;
* *ordering*: answers of peers, and revisions, that arrive late;
* *identity*: databases go by name, vaults by id, and nicknames come and go;
* *two implementations* of one format, in TypeScript and in C#.

What makes each part correct:

* admin database: the list only grows, one record per id, no record lost;
* registry: a name leads to a vault; a vault is recorded, or about to be; a
  restart brings back what the records say; vaults do not share a database;
* commands: each is answered, whatever the others do meanwhile;
* connections: no sync runs that the table does not know; an entry can be
  trusted or renewed; a link that waits is woken;
* discovery: the recursion over peers of peers ends; the list shows each
  device's last word;
* content: no confirmed write is lost; what is stored was signed by the vault;
* web server: a close ends, once the connections do;
* shell: a line has one reader, a password is not shown, the prompt comes back; what
  a command writes belongs to a vault of the database it writes to;
* gRPC: each call is answered, with what belongs together as far as its database is one
  vault's, and writes into no database that was destroyed;
* payload: what one language writes, the other opens;
* clients: what is saved under a vault is what that vault's window showed.

## 2. The modules

    RecordLog ............ abstract: an append-only list, one record per id
      ^ refined by
    AdminService ......... services/admin.ts
      ^ extended by
    VaultRegistry ........ VaultService.ts + CommandServer  MCVaultRegistry
                           + startup                        VaultRegistryProofs
                                                            VaultKeepProofs
    Connections .......... connection.ts + link + mDNS up   MCConnections
                                                            ConnectionsProofs
    RevisionTree ......... abstract: a replicated document, as its devices' revisions
      ^ refined by
    VaultSync ............ VaultDatabase.ts get/setContent  MCVaultSync
                           + what replication carries       VaultSyncProofs
                           + the check of pulled changes
    PeerDiscovery ........ activity.ts + POST /link         MCPeerDiscovery
                                                            PeerDiscoveryProofs
    ViewModel ............ the C# clients + get/setContent  MCViewModel
                                                            ViewModelProofs
    VaultStore ........... abstract: the vaults of a service, and their databases
      ^ refined by Shell and by RpcServer
    WebServer ............ services/web.ts
      ^ extended by
    Shell ................ ShellCommandServer.ts            MCShell
                           + what others do to its vaults   ShellProofs
    WireFormat ........... encryption/ + its C# counterpart
      ^ extended by
    RpcServer ............ server/pipe/ + CommandServer     MCRpcServer
                           + shutdown                       RpcServerProofs

`VaultRegistry`, `Connections` and `VaultSync` look at the vaults of devices
from three sides: their names and records, their connections, their content.
`PeerDiscovery` is where the addresses of connections come from. `ViewModel` is what
the clients of one service do with it. `Shell` and `RpcServer` are the two doors of
a service, `WireFormat` what goes through them, and `VaultStore` what both promise of the
vaults behind them. `VaultRegistryProofs` holds the proofs about `AdminService` too, and
`RpcServerProofs` those about `WireFormat`.

An `MC` module extends a specification for TLC and names what is
interchangeable in it; the `.cfg` files give the sets.

Definitions under a comment that begins "Mutant of" (`PublishAgain`,
`SyncErrorKept`, ...) are not part of a specification: they are plausible mistakes in the
definition they precede, and each property of a run is checked to notice one.

### RecordLog

The promise of the admin database. `Insert` appends a record whose id is not in
the list; nothing else ever happens.

### AdminService

`adminDoc` is the stored document with its revision (`rev = 0`: not stored
yet); `recorder` the calls of `recordVaultCreation` in flight, `"get"` while the
document is asked for, `"put"` while the changed list and the revision it was
read at are on their way. `RecorderGet` and `RecorderSkip` are the two branches
of `admin.ts:44`; `RecorderPut` and `RecorderReject` the two answers of PouchDB,
which takes a write only at the current revision. A rejection reaches nobody and
ends the process: `RecorderReject` clears every call in flight.

`AdminSpec` is the module on its own, where any calls are made; the proofs use
it. The runs check the module where `VaultRegistry` extends it and the commands
make the calls.

### VaultRegistry

| variable | code |
|---|---|
| `vaultIdMap`, `vaultMap` | the maps of `VaultService`; a handle is the name the database was opened under, and whether that database still exists |
| `disk` | the databases under the root directory: existence, and whether a payload is stored |
| `call` | the commands in flight, at the await they are in |
| `phase`, `cursor` | the life of the process; where the loop of `useAdminService` is |
| `adminDoc`, `recorder` | AdminService |

Each action is the code between two awaits. `OnCreateVault` runs to the read in
`initialize()`; `InitializeRefused/Empty/Writes/Fails` are what that read and
the write after it can answer. `OnLinkNew` and `OnLinkHeld` are the two branches
of `linkVault`, up to the first pull. `OnDeleteVault` removes the names and the
vault and waits in `destroy()`; `Destroyed` takes the store away from every
handle opened on that name. A command refused on entry changes nothing and has
no action. The loop of `useAdminService` awaits nothing; its steps are separate
so that its invariant can be stated, and only a crash can come between them,
because nothing else is enabled while `phase = "loading"`.

`disk` and `adminDoc` survive `Exit`, everything else is memory. The model is of
databases on disk: with `--in-memory` there is no restart to speak of.

`KeepSpec` is the same system in which nobody deletes a vault.

### Connections

`held` maps a vault to its database, `open` is the set of databases that exist,
`connections` the table of `connection.ts`, `token` the replications (the sync
that runs and the first pull that is on its way), `link` the link commands.
`Publish` is `publishDatabaseConnection` without an entry, `LinkListed` and
`DiscoverListed` what its callers meet when there is one. `SyncError` is the
handler that removes the entry; `Destroy` ends the syncs on a database with
"complete", which is only logged, so the entry stays. In PouchDB 7 a sync with an
`"error"` listener does not also reject its promise, so the `.catch` of
`CommandServer.ts:190` does not fire and only the first pull wakes a link.

A vault is its database here: each creation uses a database of its own, and the
store that a quick delete-and-create under one name may share is in
`VaultRegistry` (`Killed`). What names and records do is there too.
`DiscoverListed` and `PullFails` end the process; the run still covers what
comes after, since a crash and a start may come at any time.

### RevisionTree

The promise of a replicated document, whatever is in it. `tree` holds the revisions that were
made, each with the one it replaced and its maker; `has` what each device holds. A device
writes on top of a leaf of what it holds (`Write`), or receives some of what was made, with
all ancestors (`Receive`); it loses nothing. `VaultSync` maps `tree` to its revisions and
hides calls, syncs, batches and removals under way.

### VaultSync

| variable | code |
|---|---|
| `vaultOf` | the `vaultId` each device publishes the connections of this database with |
| `revision` | the revisions PouchDB ever made: parent, generation, the vault it is signed for (`None`: a removal), the device that made it |
| `has` | the revisions each device stores |
| `link` | per pair, the replication a device runs: whether the sync lives, whether the first pull is on its way, and the batch the sync is about to write |
| `rejecting` | the removals the change handler started and PouchDB did not do yet |
| `call` | the `setContent` calls in flight |

Replication addresses databases by name (`connection.ts:50`), so the copies of
one database may be of different vaults; `vaultOf` is any assignment. `Live`,
`Preferred` and `Content` are how PouchDB picks the revision that is read; the
number of a revision stands for its hash, and TLC tries every order.

`setContent` is three steps: `GetRevision` reads the revision, `Check` is the
read that `putAttachment` makes before it writes, `Put` the write, refused
unless the revision named is a leaf. `CanSign` is the one thing taken from the
clients: they sign with a key found in the content, which the command that
created the vault put there.

`Connect` is `publishDatabaseConnection`; `FirstPull` copies unchecked, and so
does `Push` on the side that receives. `PullReads` and `PullWrites` are a
batch of the sync: between them, the device may write. `PullWrites` ends with the
`"change"` handler, which starts a removal for each foreign revision.
`PullWritesRemoval` is the batch that has a removal in it: the handler reads
`_attachments` of it, throws, and the sync ends. `Reject` is the removal; a
removal's hash follows from its parent, so two devices that remove one
revision make the same one. `Disconnect` is the network: the batch may have been
written, but no handler sees it. `Restart` keeps what is on disk.

### PeerDiscovery

`activePeerList` maps an address to the id that answered there; which vaults that
device named is left out, since whoever needs them asks again. `task` holds the
calls under way: a peer that is looked for (`onPeerLink`, the first step of
`onVaultLink`, the mDNS handler with several addresses), a `POST /link`
(`restorePeer`), the end of a create (`republish`). Each waits for one answer at a
time, so the recursion of `publishDevice` is how often each address is yet to be asked
(`pending`) and the mask. An answer is how often it lists each address: all of it is
compared with the mask before any of it is added (`activity.ts:167-170`), so an address
that it lists twice is asked twice. `Proceed` is the continuation of an answer: the list
changes, the call sends its next request or ends, and the loops that run over the
list notice (`Seen`: a JavaScript Map shows a running iteration what is added and
not what is removed). The order of a walk, and of a Map, is left open: the model
allows every order.

The peers are not modelled: they answer anything, nothing, or nonsense. An
answer with the device's own id does what no answer does. A device answers GET
without waiting for anyone, a walk waits only for GETs, a POST only for the
walk it starts, and a create only for POSTs: nobody waits in a circle, which
is why it is sound to let each side take the answers of the other for granted.
`told` records what was done, for a property.

### ViewModel

`name`, `key`, `items`, `message` are the fields of `PasswordCollectionViewModel`;
`_client` is set and cleared together with `_vaultName`, so it has no variable of
its own. Each command runs on the window's thread up to its request and again from
the answer on: `SubmitForm`, `SaveClient`, `UpdateClient` are the first halves,
`Opened`, `Pulled`, `SaveEnds` and so on the second. In between the user goes on,
as the dialogs can be closed while they wait. The command line shares the service:
its `vault set` is a fetch, a change and a push of the whole (`VaultSet`,
`PushVaultContent`). `call` holds the commands and their one request at a time.

The service is three steps, each at the moment its answer is decided: `GetContent`,
`SetContent` with the check of the signature, `CreateVault` and `LinkVault`. That a
write may conflict, or the service end before or after it stored, is `RequestFails`.
A change that replication brings is, for a client, what another client stored. A
private key is represented by the vault it belongs to. A wrong password is an open
that fails. `typedFor` records under which title a password was typed.
`ResolveRemoteClient` links every peer that has the vault before it opens it, which
is for the window one longer wait.

`UpdateClient` replaces the entries and the key whatever vault is shown by then. So
a title may stand over another vault's entries, and what is edited there belongs to
neither. `ContentStaysHome` says that no save of that mixture is stored: its key is
then not that of the title, and the service refuses it.

### VaultStore

The promise of a service, whichever door commands come through. `names` is `vaultIdMap`,
`handles` `vaultMap` (the database each vault was opened on), `stored` the databases, which
go by the name they were opened under. A vault is not its database: a delete is two steps,
`Forget` (`VaultService.ts:252-256`) and `Destroy` (`:259`), and a vault that is opened
under the name between them shares the database and loses it; replication goes by that name,
so content of any vault may come (`Arrive`, `connection.ts:50-58`) or be removed
(`Withdraw`, `:76`). `tenants` records the vaults a database was opened for, or was brought
content of, since it was made. What is promised is what is left then: names and vaults are
taken only while they are free, and what a command writes (`Write`) is a tenant's own, in a
database that is still there. The awaits of a command are hidden, and which handle it holds.
`Own` says which contents are a vault's own: in `Shell` the document with its key and the
password it was made with, in `RpcServer` the documents written for it. The databases that a
crash left over (`VaultRegistry`) are among the initial ones: any database may hold content,
of any vault, before anything is opened on it.

### WebServer

`server` is the field of `WebService`, `port` what each server object is bound to,
`connected` which of them have open connections. A server that closes gives its port
back at once and calls back when its last connection is gone, whether or not it was
running. `close()` of a Node server returns the server, so
`this.server = this.server?.close(..)` forgets nothing; the mutant is what the line
seems to say. A server object that is closed and has no connections is
like a new one, and stands for the next one made.

### Shell

| variable | code |
|---|---|
| `listener` | the listeners of the `"line"` event: `commandParseHandler`, and the `once` of a password prompt |
| `silent` | `SilentTerminal.silent` |
| `active` | `activeVault`: a name and a cipher, which a password that makes no key leaves empty |
| `cmd` | the command under way, at the await it is in, with the vault and the handle it holds |
| `names`, `handles`, `disk`, `tenants` | `VaultStore`, by which the vaults change |
| `leaving` | the databases for which a client's delete is in `destroy()` |
| `ended` | the process has ended |
| `server`, `port`, `connected` | WebServer |

`TakeLine` is the first line of `commandParseHandler`, which detaches itself; `Prompt` its
last three. In between the command is one action per await: `VaultSet`, `SetRead` and
`SetWritten` are the three stretches of `vault set`, with decryption and encryption, which
hold the vault they found and the cipher of `activeVault`. `Refuse` stands for every line
that is refused on entry, `Query` for the commands that only ask (`vault get`, `vault list`,
`peer list`, `peer link`: what the last does is in `PeerDiscovery`). `ClientOpens`,
`ClientLinks`, `ClientDeletes` with `ClientDestroys`, `Arrives` and `Withdrawn` are what
gRPC clients and replication do to the vaults meanwhile, at any point. What a client stores
is an `Arrives` too: like what a peer sends, it may be of any vault. A delete, of the shell
(`VaultDelete`, `Deleted`) or of a client, leaves every handle on its database usable until
`destroy()` is done, and none after (`Gone`). `DerivationFails` is the null cipher: a login
makes the vault active all the same, and a link does not (`ShellCommandServer.ts:98-106` and
`289-296`). A private key is represented by the vault it belongs to; a document opens with
the password it was encrypted with. `MCEntries` adds, for `EntriesGoHome`, the vault the
user means.

Assumed: a vault whose database was destroyed with another's keeps its entry and can do
nothing more, its own delete included (a second `destroy()` fails); documents that arrive
are those of real vaults; a key pair made by `vault new` is new; `setContent` is one step
here, as what comes between its reads and its write is the subject of `VaultSync`, and it
fails on a removed document, which it cannot name a revision of.

### WireFormat

The document of a vault as bytes, in units of four: the signed document (version,
algorithm, two sizes, signature, payload), the payload (type, algorithm, two sizes,
seed, ciphertext) and the plain text (key and entries, each after its size). `Js...`
and the undecorated operators are `serialize.ts`, `EncryptionCipher.ts` and
`Pbkdf2Cipher.ts`, `Cs...` the classes under `MunkeyClient/Contexts`; each reads and writes with
the operations of its own language: slices that stop at the end of the buffer,
`ReadBytes` that gives what there is, `Read` into an array of zeroes. What is in a seed, key,
signature or ciphertext is a run of equal units, of a length of its own, so that a wrong
offset never lands on the right thing. Text is ASCII or not: `JSON.stringify` writes
UTF-8, `ToJsonString` escapes, and C# reads ASCII.

### RpcServer

`phase` is the process between `bindAsync` and its end, `names`, `handles`, `stored` and
`tenants` the vaults as in `VaultStore`, `call` the calls under way, with the vault and the
handle each holds. Each handler is the code up to its first await (`CreateVault`,
`GetContent`, `SetContent`, `LinkVault`, `DeleteVault`) and the resumptions of it:
`InitializeReads` and `InitializeWrites`, `GetContentEnds`, `SetContentEnds`, `LinkFound`.
`DeleteVault` frees the names and waits in `destroy()`; until `Destroys` the other calls go
on with the database, and it takes it from all of them. `Replicated` stores what a peer has
under the database's name, of whichever vault, and `Withdrawn` removes a document.
`Answered` stands for a call that is answered with no await but those of an iteration over
memory, and for one that is refused. `stored` holds who wrote a document and for which
vault; `Bytes` makes a `WireFormat` document of it, whenever code looks inside. `Unreadable`
is content that `deserialize` cannot read: it throws outside of any `try`, and the handlers
have no `catch`, so the process ends (`Cut`). `Stop` is a signal, `Shutdown` the callback of
`tryShutdown`. Which entries clients change is in `ViewModel` and left out here. The clients
of gRPC are the C# ones (`Sent`); documents of shells come by replication. The assumptions
named under Shell hold here too.

`AnswersMatch` is claimed for databases that had one vault's content only, and no more is true: in a
database that came to be shared, by a delete and a create or by replication, the content of one vault
is answered with the key of another, and the client reports that it is not valid
(`AuthenticatedClientContext.cs:104-109`).

## 3. What the runs show

| run | instance | states | shows |
|---|---|---|---|
| `registry` | 2 names, 2 ids, 2 calls, 1 recorder | 178 k | `NamesResolve`, `RestoredAsRecorded` |
| `registry_keep` | 3 names, 3 ids, 2 calls, 2 recorders, no deletes | 73 k | `OneDatabasePerVault`, `RecordedWhereOpen`, `RecordsAreALog` |
| `registry_records` | 1 name, 2 ids, 2 calls, 2 recorders | 32 k | `UniqueIds`, `PendingOrRecorded`, and, in the end, `EveryVaultRecorded` and `EveryCallReturns` |
| `connections` | 2 vaults, 2 devices, 2 databases, 2 replications, 2 links | 128 k | `NoLeakedSync`, `EntryRunsUnlessDestroyed`, `WaitingHasPull`, and, in the end, `EveryLinkReturns` |
| `vault_sync` | 2 devices, 2 vaults, 1 write at a time, 3 revisions | 340 k | `OneSuccessorPerDevice`, `LeavesTellAll`, `ContentAdvances`, `IsRevisionTree`, and, in the end, `Agreement` |
| `peer_discovery` | 2 addresses, 2 peers, 2 calls, answers that list an address twice | 81 k | `PeersAreTold`, `WalkAsksAsListed`, and, in the end, `EveryWalkEnds` and `EveryLoopEnds` |
| `view_model` | 2 vaults, 1 entry, 1 password, 2 commands | 335 k | `ContentStaysHome`, `MessageHasCommand`, and, in the end, `EveryMessageResolves` |
| `shell` | 2 names, 1 of them in use by commands, 2 vaults with a password each, 1 server, 1 port | 412 k | `OneReader`, `SecretsAreSilent`, `KeepsVaults`, and, in the end, `PromptReturns` |
| `rpc_server` | 2 names, 1 of them in use by calls, 2 vaults with a password and entries each, 2 calls, 1 text outside ASCII | 289 k | `StoredOpens`, `AnswersMatch`, `KeepsVaults`, and, in the end, `EveryCallAnswered` |

Bounds. Only `VaultSync` has a bound in a guard, `MaxRev`, below; the other systems are
finite because the sets are. The admin list holds a record per id, so its revision is
bounded by the ids; a call set of two gives every pair of commands, which is what the
hazards need (two creates; a create and a delete; a link and a delete). Two names and two
ids give aliases, reuse of a name by another vault and of a vault under another name. What
two overlapping `recordVaultCreation` do to each other is the question of `registry_keep`
and `registry_records`, which have two recorders; `registry` asks about names and restarts,
and has one. With one name, `registry_records` creates, deletes and creates again faster
than it records. Two replications and two databases let a vault be deleted and linked again
while a replication on the first database is on its way. `MaxRev` is the number of revisions
ever made: no write begins, and no revision is made, once it is reached. Three are a common
ancestor and two writes apart, or a write, its foreign successor and the removal of that.
Either device may link with the other, or both, which gives both roles and a removal that is
pulled. Writes overlap with pulls and removals; two `setContent` calls that overlap each
other were checked with one device linking, and are covered by the theorem. In
`peer_discovery` two addresses list each other in a circle, the first of a walk included,
and two calls give a loop over the list and whatever changes it meanwhile; two peers let an
entry be passed over, and an address change hands. `Answer` bounds how often an answer lists
an address: at most once, but for the answer that lists all of them, which has one twice. In
`view_model` two commands are an open and the pull it overtakes, or a save and whatever is
done with the vault meanwhile; with one password that is typed, the other entries of a vault
are absent ones, and the safety properties were also checked with two. In `shell` and
`rpc_server` two vaults follow each other under one name, share its database, and lose it to
each other's delete; `Used` is that name. The other name is loaded with a vault at the
start, or not, so that a link can give a vault a second name, and a vault may be deleted
whose database has a name that is not in use; in `rpc_server` that vault is `Kept`.
Passwords differ, so a document under a wrong one is seen. One command is under way, which
is all the shell runs; with one port the one server is enough: it is closed, and its
connections are gone, before the next is bound. Servers on two ports that serve together are
covered, for safety, by the theorems. In `rpc_server` two calls are a read, a create or a
write and the delete, create or link that overtakes it, or the peer that does. The proofs
remove these bounds for safety.

Symmetry is used in `registry` and `registry_keep`, which check no liveness. No
value is distinguished: names, ids, calls and so on are only compared.

Fairness. A request that was sent to PouchDB or a peer is answered in the end, one way or
the other (`CallStep`, `RecorderStep`, `FirstPull`), and the event loop runs a continuation
that is ready (`Answer`, the steps of a startup): weak fairness on each call. Which answer
comes is not chosen. Nothing obliges a user to issue commands, a process to be started, a
sync to end or a deletion to succeed. In `VaultSync`, a sync that runs goes on in both
directions (`Push`, `PullReads`, `PullWrites`): PouchDB drives them, each on its own, as
long as the sync lives. No device has to link or to stay linked: `Agreement` is about those
that do. In `PeerDiscovery`, a request is answered or fails (`Answered`); a peer that
accepts a connection and then says nothing for ever is left out, as nothing in the code sets
a timeout. `EveryLoopEnds` is about devices that do not come and go for ever: an entry that
mDNS takes out and an answer puts back is met again by the loop that is running, and TLC
shows that without that condition a `POST /link` may never be answered. In `ViewModel`, a
request is answered or fails (`Serve`), since a service that ends drops its connections, and
the window's thread runs what awaits the answer (`Resume`). A service that lives and never
answers is left out: the client sets no deadline. In `Shell`, what a command awaits is
answered in one way or the other (`Continue`): one fairness condition is enough, as one
command runs at a time. A client's `destroy()` need not end. No user has to type, and
`PromptReturns` exempts the two waits the code does not bound: for a password, and for the
connections of a server that closes. In `RpcServer` each call resumes (`Resume`), which the
end of the server waits for; no client has to call, and no signal to come.
`EveryVaultRecorded`, `EveryCallReturns` and `EveryLinkReturns` allow for the end of the
process, which clears its calls: clients see the connection drop.

### Disagreements between the code and what it says

Each is a run that TLC ends with a counterexample, and a finding.

* `DatabaseIsRecorded`: a vault deleted and created again under another name
  stays recorded under the first; a restart loads it from there, empty.
* `RejectionKeepsContent`: to reject a pulled change, the service removes it, and the
  removal is pushed to the device whose vault it was (`connection.ts:76`).
* `EntriesGoHome`: after `vault link a@host as b` the shell is logged in to `a`
  (`ShellCommandServer.ts:294`); where a vault `a` is held that opens with the same
  password, the user's next entries go there (`README.md:97` and `108`).

More follow from one action of a model, or from what no module does, and need no run:

* A create under a name whose deletion is on its way gets a handle that the delete
  destroys (`VaultService.ts:249-251` says no new reference can be extracted; `Killed`).
* A first pull that fails is an unhandled rejection, and ends the process
  (`connection.ts:55`, against `CommandServer.ts:186-191`; `PullFails`).
* Of two changes made apart, one is never read again once the devices are in step:
  nothing in the service looks at conflicts (`VaultDatabase.ts:57`, against
  `README.md:9`; `Preferred`).
* A peer that mDNS announces again while it is connected ends the process:
  `onFirstPull(false)` is a call of `undefined`, where the code only warns
  (`connection.ts:46` and `95-96`; `DiscoverListed`).
* A save that was refused, or failed, is announced as saved; the `catch` that has
  "Failed to save" can never run (`PasswordCollectionViewModel.cs:266-277`; `SaveEnds`).
  The shell does the same: it does not look at what `setContent` answers
  (`ShellCommandServer.ts:185-186`; `SetFails`).
* A delete leaves the record, so a restart brings the vault back, empty, where
  `load` is to fail (`constructor.ts:24`; `LoadVault`).
* A device that answers nothing stays listed, where the service is said to manage
  "the lifetime (including, for example, timeouts)" (`activity.ts:24`; `NobodyAnswers`).
* `linkVault` takes a nickname from the vault that had it, where its doc promises
  CONFLICT (`VaultService.ts:90`; `OnLinkHeld`).
* After a crash before the record was written, a create opens the database left on
  disk, where the comment says it fails (`VaultService.ts:70`; `OpenDatabase`).
* A second link to a connected device is answered before the content is there
  (`CommandServer.ts:182-185`; `LinkListed`).
* `link up` on a second port leaves the first server open, and `link down` then
  reports success while that one still serves (`web.ts:70`; `Listen`). What mDNS
  announces stays the port of the start.
* Content that is no document of version 0 ends the process instead of being
  refused: `deserialize` throws, or answers null, outside of the `try`, and the
  handlers of `rpc.ts` have no `catch` (`rpc.ts:75-88`, `130-134`; `Unreadable`).
* `linkVault` of `rpc.ts` answers a request without a port and goes on to answer it
  again (`rpc.ts:164-173`; `LinkVault`).
* The shell writes entries as UTF-8, and the clients read them as ASCII: what is not
  ASCII is lost on them, and by their next save for everyone (`VaultContent.cs:42`,
  `AuthenticationContext.cs:90`; `CsText`).
* `process.on("SIGKILL", ..)` throws where signals are POSIX (`munkey.ts:200`;
  `StartFails`): there the service runs only as a shell.

## 4. What is proved

For every set of names, ids, calls, devices, databases and replications, finite
or not, from the one assumption that `None` is not one of them (and, in
`VaultSync`, that the bound is a number and those that link are devices; in `Shell`
and `RpcServer`, that each vault has a password, and that a text read wrongly is none of
the texts):

* `AdminInvariant`: `AdminTypeOK`, `HeldListIsCurrent` and `UniqueIds`. They are
  inductive together: that `put` appends an id the *current* list lacks follows
  from the revision check and from "a list held at the current revision is the
  current list".
* `AdminImplementsLog`: `AdminSpec => RecordsAreALog`. `RecorderPut` maps to
  `Insert`, all else to stuttering steps.
* `TypeCorrect`, `RegistryInvariant`, `RestartRestores`, `RegistryImplementsLog`
  for `VaultRegistry`. `LoadingLoop` is the loop invariant, indexed by the cursor;
  `PhaseOK`, a part of `TypeOK`, is what makes it hold at the first step (the
  maps are empty when the process is down) and keeps everything else away
  from the loop. `RestartRestores` is that invariant at the end of the list.
* `KeptVaultsAreSafe`: `OneDatabasePerVault` and `RecordedWhereOpen` under
  `KeepSpec`. The strengthening (`KeepInv`) says what two maps, the records and
  the records on their way have to do with each other: each vault in memory is
  on the database of its record, each name used by a database leads to some
  vault, and two records or calls with one name are the same.
* `ConnectionsInvariant`: the three invariants of `Connections`. The strengthening
  adds that a listed replication belongs to the key it is listed under
  (`KeyMatches`: the error handler removes its own entry and no other), that a
  replication waits only for links that wait (`WaiterWaits`), and that the memory
  of an ended process is empty (`MemoryGone`).
* `WritesSeeWhatTheyReplace`: `OneSuccessorPerDevice`. The strengthening (`SyncInv`)
  adds that databases and batches hold only revisions that were made (`HoldsMade`)
  and that a device keeps its own (`KeepsOwn`): a leaf of its database then has
  no successor by the same device anywhere. Nothing is assumed of the calls in
  flight, because `Put` looks again.
* `OneVaultRemovesNothing`: where all copies are of one vault, the check passes every
  change, so no revision is a removal.
* `ReadsAdvance`: `ContentAdvances`. A revision comes a generation after the one it
  replaces (`Generations`), and the order of revisions is total (`BetterIsTotal`), so a finite
  set of them has one that is preferred (`SomeIsPreferred`), and no other revision replaces it:
  a database without removals shows the best of what it holds (`ReadsThePreferred`). What is
  held only grows (`DatabasesGrow`), so the best of it only gets better.
* `SyncImplementsTree`: `IsRevisionTree`. `StepEffect` sorts every step of the system, by what
  it does to revisions and databases, into three kinds: a write on top of a leaf, which may
  be the removal that rejects a change; a copy of whole branches of what was made; or nothing.
  That a batch is a whole branch when it is written, however long after it was read, needs
  that `Closed` holds of every database and every batch (`Histories`).
* `LeavesAreEnough`: `LeavesTellAll`. In a closed set every revision is an ancestor of
  a leaf, which is an induction over finite sets: `LeavesCover` replaces it by the greatest
  generation that is missing. Devices that hold each other's leaves so hold each other's
  revisions, whatever was left out when a sync broke off.
* `DiscoveryInvariant`: the invariant of `PeerDiscovery`, and `WalkAsksAsListed`. That a
  walk asks each address exactly as often as the first answer that listed it did needs that
  the mask holds what is yet to ask (`WalkOK`), so that no later answer adds to it; the rest
  is what each call owes to the list it runs over (`CallOK`), which `SeenOK` carries over a
  change of the list.
* `ClientsInvariant`: the invariants of `ViewModel`. The strengthening (`ClientsInv`) says
  that a payload under way is its vault's own unless it is a save signed with another
  key (`CallsOwn`), and that the entries shown are those of the title as long as the
  key is (`ShownOwn`): every step that makes title and key agree replaces the entries.
  `OwnKept` reduces a step to the payloads it stores, sends or hands out.
* `ShellInvariant`: `TypeOK`, `OneReader`, `SecretsAreSilent` and `PasswordStays`. The last
  is in no run: what a database holds is signed by a tenant, and opens with that vault's
  password. The strengthening (`ShellInv`) has three parts: a prompt, like the silence of
  the terminal, belongs to a command that asked for a password (`PromptOwned`); names lead
  to vaults that are held, whose database has them for a tenant; and what a command is about
  to write is a tenant's own, unless its database is gone (`CommandOK`).
* `DocumentsOpen`: for every vault, password and text, what `JsSeal` and `CsSeal` write is
  readable and valid in both languages, opens in both, and gives both the key and the
  entries (`Garbled` for what only TypeScript can read). The proof goes layer by layer:
  `SliceIs` and `FillIs` say what a slice, and a `Read`, of a concatenation is, and
  `DatasetRoundTrip`, `PayloadRoundTrip`, `KeyRoundTrip` that each reader inverts each writer.
* `DocumentsStayShut`: the converse. A document validates for its vault alone and opens with its
  password alone, in both languages (`DeciphersOnlyWith`, `SealedParts`). This is what allows
  `Shell` and `ViewModel` to let a document be a record of vault and password.
* `ShellKeepsStore`, `ServerKeepsStore`: `KeepsVaults`, in `Shell` and in `RpcServer`, with
  two-step deletes, shared databases and content of any vault. Each action is shown to be
  one action of `VaultStore` or to leave the vaults alone, from the invariant of its module:
  that what is written is a tenant's own is what the command's part of it says, and that
  part survives the steps of the others because they add tenants, and take them away only
  with the database, and with it every handle.
* `RpcInvariant`: `TypeOK`, `StoredOpens` and `AnswersMatch`. Inductive is that content is
  signed by a tenant of its database, and that a call that is about to write holds content
  of a vault that is a tenant of the database it holds, if that is still there; that such
  content opens is `DocumentsOpen`, that the check of `setContent` lets nothing else through
  is that a document validates for no other vault. An answer takes the tenants of the moment
  with it, which is what `AnswersMatch` speaks of. Only model-checked: the liveness
  properties (fairness and ENABLED are beyond the prover). No module uses RECURSIVE
  operators. That the format's readers invert its writers is proved of the lengths of the
  model; sizes that are negative, or that do not fit the buffer, are documents nobody here
  writes.

## 5. What is not modelled

`PROJECT.json` lists every part with its status. Left out for good: key
generation and files of the identity, cryptography, logging, argument parsing,
the forms of the desktop application, `deleteVaultById` and
`VaultDatabase.create` (nothing calls them), read errors of the admin database
other than 404. The encrypting PouchDB plugin is configured by its own test only: a
service stores what clients encrypted. In `WireFormat`: damaged documents, and passwords
outside ASCII, which the two languages derive different keys from. In `RpcServer`: the
time a handler spends on microtasks (an iteration over memory that is written with `for await`)
is no step of its own, since nothing else happens meanwhile.

## 6. Plan

In this order:

1. `MunkeyDevice`: `VaultRegistry` and `Connections` composed, replacing the
   assumption that a vault is its database, which `Connections` still makes.
2. `VaultStore` with restarts: what the registry must promise so that the vaults and databases a
   service had before it stopped are those it has after it started again.
3. The command line client's other commands, and the change of the service address in
   the desktop application.

The theorem worth proving next: that `VaultRegistry` keeps such a store across its
crashes for the vaults whose records were written, and only for those.
