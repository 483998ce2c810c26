----------------------------- MODULE Connections -----------------------------
(***************************************************************************)
(* services/connection.ts: the live replications of a device, and the two   *)
(* handlers that open them: onVaultLink (CommandServer.ts) and the mDNS     *)
(* "up" event (activity.ts), against vaults that come and go.               *)
(*                                                                          *)
(* publishDatabaseConnection starts two things at once: a first pull, whose *)
(* end a link waits for, and a live sync, whose token is kept under the     *)
(* vault id and the device.  PouchDB ends both when the local database is   *)
(* destroyed, and tells so with "complete"; a network failure ends the sync *)
(* with "error", and the first pull with a rejection.                       *)
(*                                                                          *)
(* A vault is its database here: what names and records do is VaultRegistry. *)
(***************************************************************************)
EXTENDS Naturals

CONSTANTS
  VaultId,    \* vaults
  Device,     \* peers, by host and port
  Database,   \* databases of vaults, one per creation of a vault
  Token,      \* replications that may exist together
  Call,       \* link commands that may be in flight together
  None        \* no value

ASSUME NoneAssumption == None \notin VaultId \cup Device \cup Database \cup Token \cup Call

VARIABLES
  process,      \* "up", or how it ended: "down", "threw" or "rejected"
  held,         \* vault id -> the database of the vault in memory, or None
  open,         \* the databases that exist; one that is not held is being deleted
  connections,  \* vault id, device -> the token listed there, or None
  token,        \* the replications of the process
  link          \* the link commands in flight

vars == <<process, held, open, connections, token, link>>

\* A replication: what it joins, whether the sync runs, whether the first pull
\* is still on its way, and the link that waits for it.
Replication ==
  [vault : VaultId, device : Device, database : Database,
   live : BOOLEAN, pulling : BOOLEAN, waiter : Call \cup {None}]
NoReplication ==
  [vault |-> None, device |-> None, database |-> None,
   live |-> FALSE, pulling |-> FALSE, waiter |-> None]

\* A link command: "waiting" for a first pull, or about to be answered "linked".
LinkState == [pc : {"idle", "waiting", "linked"}, database : Database \cup {None}]
IdleLink == [pc |-> "idle", database |-> None]

\* Any vaults may be there when the process starts, each with its database.
Loaded(h) ==
  /\ h \in [VaultId -> Database \cup {None}]
  /\ \A i, j \in VaultId : h[i] = h[j] /\ h[i] # None => i = j

Init ==
  /\ process = "up"
  /\ Loaded(held)
  /\ open = {held[i] : i \in VaultId} \ {None}
  /\ connections = [i \in VaultId |-> [p \in Device |-> None]]
  /\ token = [t \in Token |-> NoReplication]
  /\ link = [c \in Call |-> IdleLink]

-----------------------------------------------------------------------------

Listed(t) == \E i \in VaultId, p \in Device : connections[i][p] = t

\* A token nothing refers to any more.
Free(t) == ~ token[t].live /\ ~ token[t].pulling /\ ~ Listed(t)

\* A database that was never created, or that nothing remembers.
Unused(d) ==
  /\ d \notin open
  /\ \A t \in Token : token[t].database = d => Free(t)
  /\ \A c \in Call : link[c].database # d
  /\ \A i \in VaultId : held[i] # d

Started(i, p, d, w) ==
  [vault |-> i, device |-> p, database |-> d, live |-> TRUE, pulling |-> TRUE, waiter |-> w]

\* Mutant of Publish: an entry that exists is not looked up.
PublishAgain(t, i, p, d, w) ==
  /\ Free(t)
  /\ token' = [token EXCEPT ![t] = Started(i, p, d, w)]
  /\ connections' = [connections EXCEPT ![i][p] = t]

\* publishDatabaseConnection for a device the vault has no entry for.
Publish(t, i, p, d, w) ==
  /\ connections[i][p] = None
  /\ Free(t)
  /\ token' = [token EXCEPT ![t] = Started(i, p, d, w)]
  /\ connections' = [connections EXCEPT ![i][p] = t]

\* onVaultLink for a vault the device does not hold: linkVault creates it.
LinkNew(c, i, p) ==
  /\ process = "up"
  /\ link[c].pc = "idle"
  /\ held[i] = None
  /\ \E d \in Database :
       /\ Unused(d)
       /\ held' = [held EXCEPT ![i] = d]
       /\ open' = open \cup {d}
       /\ \/ /\ \E t \in Token : Publish(t, i, p, d, c)
             /\ link' = [link EXCEPT ![c] = [pc |-> "waiting", database |-> d]]
          \/ /\ connections[i][p] # None
             /\ link' = [link EXCEPT ![c] = [pc |-> "linked", database |-> d]]
             /\ UNCHANGED <<connections, token>>
  /\ UNCHANGED process

\* onVaultLink for a vault in memory, with a device it has no entry for.
LinkHeld(c, i, p) ==
  /\ process = "up"
  /\ link[c].pc = "idle"
  /\ held[i] # None
  /\ \E t \in Token : Publish(t, i, p, held[i], c)
  /\ link' = [link EXCEPT ![c] = [pc |-> "waiting", database |-> held[i]]]
  /\ UNCHANGED <<process, held, open>>

\* Mutant of LinkListed: onFirstPull is not called for an entry that exists.
LinkListedWaits(c, i, p) ==
  /\ process = "up"
  /\ link[c].pc = "idle"
  /\ held[i] # None
  /\ connections[i][p] # None
  /\ link' = [link EXCEPT ![c] = [pc |-> "waiting", database |-> held[i]]]
  /\ UNCHANGED <<process, held, open, connections, token>>

\* onVaultLink when the entry exists: onFirstPull(false) rejects, the rejection
\* is printed, and the link is answered with success.
LinkListed(c, i, p) ==
  /\ process = "up"
  /\ link[c].pc = "idle"
  /\ held[i] # None
  /\ connections[i][p] # None
  /\ link' = [link EXCEPT ![c] = [pc |-> "linked", database |-> held[i]]]
  /\ UNCHANGED <<process, held, open, connections, token>>

\* The process ends, and its memory is gone.  What is on disk matters again
\* when a process starts, as the vaults it loads.
Gone(how) ==
  /\ process' = how
  /\ held' = [i \in VaultId |-> None]
  /\ open' = {}
  /\ connections' = [i \in VaultId |-> [p \in Device |-> None]]
  /\ token' = [t \in Token |-> NoReplication]
  /\ link' = [c \in Call |-> IdleLink]

\* mDNS "up": a device advertises vault i among others, and i is in memory.
Discover(i, p) ==
  /\ process = "up"
  /\ held[i] # None
  /\ \E t \in Token : Publish(t, i, p, held[i], None)
  /\ UNCHANGED <<process, held, open, link>>

\* mDNS "up" for a vault that has the entry already: onFirstPull is undefined,
\* calling it throws, and the rejected handler ends the process.
DiscoverListed(i, p) ==
  /\ process = "up"
  /\ held[i] # None
  /\ connections[i][p] # None
  /\ Gone("threw")

\* Mutants of PullEnds: the link is not told; the link is told and stays known.
PullEndsUntold(t) ==
  /\ token[t].pulling
  /\ token' = [token EXCEPT ![t].pulling = FALSE, ![t].waiter = None]
  /\ UNCHANGED <<process, held, open, connections, link>>

PullEndsKept(t) ==
  /\ token[t].pulling
  /\ token' = [token EXCEPT ![t].pulling = FALSE]
  /\ link' = [c \in Call |-> IF c = token[t].waiter THEN [link[c] EXCEPT !.pc = "linked"] ELSE link[c]]
  /\ UNCHANGED <<process, held, open, connections>>

\* The first pull of token t ends: its link goes on, whatever the outcome.
PullEnds(t) ==
  /\ token[t].pulling
  /\ token' = [token EXCEPT ![t].pulling = FALSE, ![t].waiter = None]
  /\ link' = [c \in Call |-> IF c = token[t].waiter THEN [link[c] EXCEPT !.pc = "linked"] ELSE link[c]]
  /\ UNCHANGED <<process, held, open, connections>>

\* The network fails the first pull: nobody handles the rejection.
PullFails(t) ==
  /\ token[t].pulling
  /\ token[t].database \in open
  /\ Gone("rejected")

\* Mutant of SyncError: the entry stays.
SyncErrorKept(t) ==
  /\ token[t].live
  /\ token' = [token EXCEPT ![t].live = FALSE]
  /\ UNCHANGED <<process, held, open, connections, link>>

\* The network fails the sync: "error", and the entry is removed.
SyncError(t) ==
  /\ token[t].live
  /\ token' = [token EXCEPT ![t].live = FALSE]
  /\ connections' = [connections EXCEPT ![token[t].vault][token[t].device] = None]
  /\ UNCHANGED <<process, held, open, link>>

\* onVaultLink returns.
Answer(c) ==
  /\ link[c].pc = "linked"
  /\ link' = [link EXCEPT ![c] = IdleLink]
  /\ UNCHANGED <<process, held, open, connections, token>>

\* onDeleteVault: the vault leaves the memory.
Delete(i) ==
  /\ process = "up"
  /\ held[i] # None
  /\ held' = [held EXCEPT ![i] = None]
  /\ UNCHANGED <<process, open, connections, token, link>>

\* Its database is destroyed: the syncs on it end with "complete", which is
\* only logged.
Destroy(d) ==
  /\ process = "up"
  /\ d \in open
  /\ \A i \in VaultId : held[i] # d
  /\ open' = open \ {d}
  /\ token' = [t \in Token |-> IF token[t].database = d THEN [token[t] EXCEPT !.live = FALSE] ELSE token[t]]
  /\ UNCHANGED <<process, held, connections, link>>

Crash == process = "up" /\ Gone("down")

Start ==
  /\ process # "up"
  /\ process' = "up"
  /\ Loaded(held')
  /\ open' = {held'[i] : i \in VaultId} \ {None}
  /\ UNCHANGED <<connections, token, link>>

FirstPull(t) == PullEnds(t) \/ PullFails(t)

Next ==
  \/ \E i \in VaultId, p \in Device :
       \/ \E c \in Call : LinkNew(c, i, p) \/ LinkHeld(c, i, p) \/ LinkListed(c, i, p)
       \/ Discover(i, p)
       \/ DiscoverListed(i, p)
  \/ \E t \in Token : FirstPull(t) \/ SyncError(t)
  \/ \E c \in Call : Answer(c)
  \/ \E i \in VaultId : Delete(i)
  \/ \E d \in Database : Destroy(d)
  \/ Crash
  \/ Start

\* A pull ends or fails, and a handler that can go on does.  A sync may stay up
\* for ever, a deletion may fail, and nobody has to start the process again.
Fairness ==
  /\ \A t \in Token : WF_vars(FirstPull(t))
  /\ \A c \in Call : WF_vars(Answer(c))

Spec == Init /\ [][Next]_vars /\ Fairness

-----------------------------------------------------------------------------

\* Every variable holds a value of its type; tokens that run have their parts,
\* and the databases in memory exist and differ.
TypeOK ==
  /\ process \in {"up", "down", "threw", "rejected"}
  /\ Loaded(held)
  /\ open \subseteq Database
  /\ \A i \in VaultId : held[i] # None => held[i] \in open
  /\ connections \in [VaultId -> [Device -> Token \cup {None}]]
  /\ token \in [Token -> Replication \cup {NoReplication}]
  /\ link \in [Call -> LinkState]
  /\ \A t \in Token : token[t].waiter # None => token[t].pulling

\* No sync runs that the table does not list under its vault and its device:
\* none can go on unseen while publishDatabaseConnection starts another
\* (connection.ts:48-92), whatever errors came between.
NoLeakedSync ==
  \A t \in Token : token[t].live => connections[token[t].vault][token[t].device] = t

\* No sync runs on a database that was destroyed, and an entry whose database
\* still exists is a sync that runs: what failed can be connected again
\* (connection.ts:82-85).
EntryRunsUnlessDestroyed ==
  /\ \A t \in Token : token[t].live => token[t].database \in open
  /\ \A i \in VaultId, p \in Device :
       LET t == connections[i][p] IN
         t # None /\ token[t].database \in open => token[t].live

\* A link that waits has one first pull that will wake it, even when the sync
\* failed or the vault was deleted meanwhile (CommandServer.ts:186-191).
WaitingHasPull ==
  \A c \in Call : link[c].pc = "waiting" =>
    \E t \in Token : token[t].waiter = c /\ \A u \in Token \ {t} : token[u].waiter # c

\* Every link command is answered, or the process ends (CommandServer.ts:153-206).
EveryLinkReturns == \A c \in Call : link[c].pc # "idle" ~> link[c].pc = "idle"
=============================================================================
