-------------------------- MODULE ConnectionsProofs --------------------------
(***************************************************************************)
(* Proofs about Connections, for every set of vaults, devices, databases,   *)
(* replications and link commands.                                          *)
(*                                                                          *)
(* NoLeakedSync says where the token of a running sync is listed.  That the *)
(* error handler removes that entry and no other needs the converse: a      *)
(* listed token belongs to the key it is listed under (KeyMatches).  That   *)
(* one pull wakes a waiting link needs that no token waits for a command    *)
(* that does not wait (WaiterWaits), and that a start opens databases while *)
(* no entry is left from before needs that a process that ended left none   *)
(* (MemoryGone), which is inductive by itself.                              *)
(***************************************************************************)
EXTENDS Connections, TLAPS

KeyMatches ==
  \A i \in VaultId, p \in Device :
    LET t == connections[i][p] IN t # None => token[t].vault = i /\ token[t].device = p

WaiterWaits ==
  \A t \in Token, c \in Call : token[t].waiter = c => link[c].pc = "waiting"

MemoryGone ==
  process # "up" =>
    /\ connections = [i \in VaultId |-> [p \in Device |-> None]]
    /\ token = [t \in Token |-> NoReplication]

Inv ==
  /\ TypeOK
  /\ KeyMatches
  /\ NoLeakedSync
  /\ EntryRunsUnlessDestroyed
  /\ WaiterWaits
  /\ WaitingHasPull

-----------------------------------------------------------------------------

\* What a token that was never used looks like.
LEMMA NoReplicationFacts ==
  /\ NoReplication.live = FALSE /\ NoReplication.pulling = FALSE
  /\ NoReplication.waiter = None
  /\ NoReplication \notin Replication
  BY NoneAssumption DEF NoReplication, Replication

\* A replication that runs or pulls has its parts.
LEMMA RunningType ==
  ASSUME TypeOK, NEW t \in Token, token[t].live \/ token[t].pulling
  PROVE  /\ token[t] \in Replication
         /\ token[t].vault \in VaultId /\ token[t].device \in Device
         /\ token[t].database \in Database
<1>1. token[t] \in Replication
  BY NoReplicationFacts DEF TypeOK
<1> QED BY <1>1 DEF Replication

\* The invariant holds at first, whatever vaults are there.
LEMMA InitInv == Init => Inv
<1> SUFFICES ASSUME Init PROVE Inv
  OBVIOUS
<1>1. TypeOK
  BY NoneAssumption, NoReplicationFacts DEF Init, TypeOK, Loaded, LinkState, IdleLink
<1>2. KeyMatches /\ NoLeakedSync /\ EntryRunsUnlessDestroyed
  BY NoReplicationFacts DEF Init, KeyMatches, NoLeakedSync, EntryRunsUnlessDestroyed
<1>3. WaiterWaits /\ WaitingHasPull
  BY NoneAssumption, NoReplicationFacts DEF Init, WaiterWaits, WaitingHasPull, IdleLink
<1> QED BY <1>1, <1>2, <1>3 DEF Inv

\* publishDatabaseConnection, on a database that exists: for a link that does
\* not wait yet, or for nobody.
LEMMA PublishInv ==
  ASSUME Inv, NEW t \in Token, NEW i \in VaultId, NEW p \in Device, NEW d \in Database,
         NEW w \in Call \cup {None},
         Publish(t, i, p, d, w),
         d \in open', open \subseteq open',
         \A u \in Token : token[u].database \in open' \ open => Free(u),
         process' = "up", held' \in [VaultId -> Database \cup {None}], Loaded(held'),
         \A j \in VaultId : held'[j] # None => held'[j] \in open', open' \subseteq Database,
         w \in Call => link[w].pc = "idle" /\ link' = [link EXCEPT ![w] = [pc |-> "waiting", database |-> d]],
         w = None => link' = link
  PROVE  Inv'
<1> USE DEF Inv
<1>1. /\ token' = [token EXCEPT ![t] = Started(i, p, d, w)]
      /\ connections' = [connections EXCEPT ![i][p] = t]
      /\ ~ token[t].live /\ ~ token[t].pulling
      /\ \A j \in VaultId, q \in Device : connections[j][q] # t
      /\ connections[i][p] = None
  BY DEF Publish, Free, Listed
<1>2. /\ token \in [Token -> Replication \cup {NoReplication}]
      /\ connections \in [VaultId -> [Device -> Token \cup {None}]]
      /\ link \in [Call -> LinkState]
      /\ \A u \in Token : token[u].waiter # None => token[u].pulling
  BY DEF TypeOK
<1>3. /\ Started(i, p, d, w) \in Replication
      /\ Started(i, p, d, w).vault = i /\ Started(i, p, d, w).device = p
      /\ Started(i, p, d, w).database = d /\ Started(i, p, d, w).waiter = w
      /\ Started(i, p, d, w).live /\ Started(i, p, d, w).pulling
  BY DEF Started, Replication
<1>4. /\ token'[t] = Started(i, p, d, w)
      /\ \A u \in Token \ {t} : token'[u] = token[u]
  BY <1>1, <1>2
<1>5. /\ connections'[i][p] = t
      /\ \A j \in VaultId, q \in Device : j # i \/ q # p => connections'[j][q] = connections[j][q]
      /\ connections' \in [VaultId -> [Device -> Token \cup {None}]]
  BY <1>1, <1>2
<1>6. link' \in [Call -> LinkState]
  BY <1>2 DEF LinkState
<1>7. TypeOK'
  <2>1. token' \in [Token -> Replication \cup {NoReplication}]
    BY <1>1, <1>2, <1>3
  <2>2. \A u \in Token : token'[u].waiter # None => token'[u].pulling
    BY <1>2, <1>3, <1>4
  <2> QED BY <2>1, <2>2, <1>5, <1>6 DEF TypeOK
<1>8. KeyMatches'
  <2> SUFFICES ASSUME NEW j \in VaultId, NEW q \in Device, connections'[j][q] # None
               PROVE  token'[connections'[j][q]].vault = j /\ token'[connections'[j][q]].device = q
    BY DEF KeyMatches
  <2>1. CASE j = i /\ q = p
    BY <2>1, <1>3, <1>4, <1>5
  <2>2. CASE j # i \/ q # p
    BY <2>2, <1>1, <1>2, <1>4, <1>5 DEF KeyMatches
  <2> QED BY <2>1, <2>2
<1>9. NoLeakedSync'
  <2> SUFFICES ASSUME NEW u \in Token, token'[u].live
               PROVE  connections'[token'[u].vault][token'[u].device] = u
    BY DEF NoLeakedSync
  <2>1. CASE u = t
    BY <2>1, <1>3, <1>4, <1>5
  <2>2. CASE u # t
    <3>1. token'[u] = token[u] /\ token[u].vault \in VaultId /\ token[u].device \in Device
      BY <2>2, <1>4, RunningType
    <3>2. connections[token[u].vault][token[u].device] = u
      BY <3>1 DEF NoLeakedSync
    <3>3. token[u].vault # i \/ token[u].device # p
      BY <3>2, <1>1, NoneAssumption
    <3> QED BY <3>1, <3>2, <3>3, <1>5
  <2> QED BY <2>1, <2>2
<1>10. EntryRunsUnlessDestroyed'
  <2>1. \A u \in Token : token'[u].live => token'[u].database \in open'
    BY <1>3, <1>4 DEF EntryRunsUnlessDestroyed
  <2>2. \A j \in VaultId, q \in Device :
           connections'[j][q] # None /\ token'[connections'[j][q]].database \in open'
             => token'[connections'[j][q]].live
    <3> SUFFICES ASSUME NEW j \in VaultId, NEW q \in Device, connections'[j][q] # None,
                        token'[connections'[j][q]].database \in open'
                 PROVE  token'[connections'[j][q]].live
      OBVIOUS
    <3>1. CASE j = i /\ q = p
      BY <3>1, <1>3, <1>4, <1>5
    <3>2. CASE j # i \/ q # p
      <4>1. /\ connections'[j][q] = connections[j][q]
            /\ connections[j][q] \in Token \ {t}
            /\ token'[connections[j][q]] = token[connections[j][q]]
        BY <3>2, <1>1, <1>2, <1>4, <1>5
      <4>2. token[connections[j][q]].database \in open
        BY <4>1 DEF Free, Listed
      <4> QED BY <4>1, <4>2 DEF EntryRunsUnlessDestroyed
    <3> QED BY <3>1, <3>2
  <2> QED BY <2>1, <2>2 DEF EntryRunsUnlessDestroyed
<1>11. WaiterWaits' /\ WaitingHasPull'
  <2>1. token[t].waiter = None
    BY <1>1, <1>2
  <2>2. CASE w = None
    BY <2>1, <2>2, <1>3, <1>4, NoneAssumption DEF WaiterWaits, WaitingHasPull
  <2>3. CASE w \in Call
    <3>1. /\ link'[w].pc = "waiting" /\ link[w].pc # "waiting"
          /\ \A c \in Call \ {w} : link'[c] = link[c]
      BY <2>3, <1>2
    <3>2. \A u \in Token : token[u].waiter # w
      BY <2>3, <3>1 DEF WaiterWaits
    <3>3. WaiterWaits'
      BY <2>3, <3>1, <3>2, <1>3, <1>4 DEF WaiterWaits
    <3>4. WaitingHasPull'
      <4> SUFFICES ASSUME NEW c \in Call, link'[c].pc = "waiting"
                   PROVE  \E u \in Token : token'[u].waiter = c /\ \A v \in Token \ {u} : token'[v].waiter # c
        BY DEF WaitingHasPull
      <4>1. CASE c = w
        BY <4>1, <3>2, <1>3, <1>4
      <4>2. CASE c # w
        <5>1. PICK u \in Token : token[u].waiter = c /\ \A v \in Token \ {u} : token[v].waiter # c
          BY <4>2, <3>1 DEF WaitingHasPull
        <5>2. u # t
          BY <5>1, <2>1, NoneAssumption
        <5> QED BY <4>2, <5>1, <5>2, <1>3, <1>4
      <4> QED BY <4>1, <4>2
    <3> QED BY <3>3, <3>4
  <2> QED BY <2>2, <2>3
<1> QED BY <1>7, <1>8, <1>9, <1>10, <1>11

\* A link that is answered at once: it did not wait, and it does not now.
LEMMA LinkedInv ==
  ASSUME Inv, NEW c \in Call, NEW d \in Database,
         link[c].pc = "idle", link' = [link EXCEPT ![c] = [pc |-> "linked", database |-> d]],
         UNCHANGED <<connections, token>>,
         open \subseteq open', open' \subseteq Database,
         \A u \in Token : token[u].database \in open' \ open => Free(u),
         process' = "up", Loaded(held'), \A j \in VaultId : held'[j] # None => held'[j] \in open'
  PROVE  Inv'
<1> USE DEF Inv
<1>1. TypeOK'
  BY DEF TypeOK, LinkState
<1>2. KeyMatches' /\ NoLeakedSync'
  BY DEF KeyMatches, NoLeakedSync
<1>3. EntryRunsUnlessDestroyed'
  <2>1. \A j \in VaultId, q \in Device : connections[j][q] # None =>
           connections[j][q] \in Token /\ Listed(connections[j][q])
    BY DEF TypeOK, Listed
  <2> QED BY <2>1 DEF EntryRunsUnlessDestroyed, Free
<1>4. WaiterWaits' /\ WaitingHasPull'
  BY DEF WaiterWaits, WaitingHasPull, TypeOK
<1> QED BY <1>1, <1>2, <1>3, <1>4

\* A link to a new vault: on a database nothing refers to.
LEMMA LinkNewInv ==
  ASSUME Inv, NEW c \in Call, NEW i \in VaultId, NEW p \in Device, LinkNew(c, i, p)
  PROVE  Inv'
<1> USE DEF Inv
<1>1. PICK d \in Database :
        /\ Unused(d)
        /\ held' = [held EXCEPT ![i] = d]
        /\ open' = open \cup {d}
        /\ \/ /\ \E t \in Token : Publish(t, i, p, d, c)
              /\ link' = [link EXCEPT ![c] = [pc |-> "waiting", database |-> d]]
           \/ /\ connections[i][p] # None
              /\ link' = [link EXCEPT ![c] = [pc |-> "linked", database |-> d]]
              /\ UNCHANGED <<connections, token>>
  BY DEF LinkNew
<1>2. /\ open \subseteq open' /\ d \in open' /\ open' \subseteq Database
      /\ \A u \in Token : token[u].database \in open' \ open => Free(u)
  BY <1>1 DEF Unused, TypeOK
<1>3. /\ held' \in [VaultId -> Database \cup {None}] /\ Loaded(held')
      /\ \A j \in VaultId : held'[j] # None => held'[j] \in open'
  BY <1>1 DEF TypeOK, Loaded, Unused
<1>4. process' = "up" /\ link[c].pc = "idle"
  BY DEF LinkNew
<1>5. CASE \E t \in Token : Publish(t, i, p, d, c) /\
             link' = [link EXCEPT ![c] = [pc |-> "waiting", database |-> d]]
  BY <1>2, <1>3, <1>4, <1>5, PublishInv, NoneAssumption
<1>6. CASE /\ link' = [link EXCEPT ![c] = [pc |-> "linked", database |-> d]]
           /\ UNCHANGED <<connections, token>>
  BY <1>2, <1>3, <1>4, <1>6, LinkedInv
<1> QED BY <1>1, <1>5, <1>6

\* What publishing on a vault in memory may rely on.
LEMMA HeldInv ==
  ASSUME Inv, NEW i \in VaultId, held[i] # None, process = "up", UNCHANGED <<process, held, open>>
  PROVE  /\ held[i] \in Database /\ held[i] \in open'
         /\ open \subseteq open' /\ open' \subseteq Database /\ process' = "up"
         /\ \A u \in Token : token[u].database \in open' \ open => Free(u)
         /\ held' \in [VaultId -> Database \cup {None}] /\ Loaded(held')
         /\ \A j \in VaultId : held'[j] # None => held'[j] \in open'
  BY DEF Inv, TypeOK, Loaded

\* A link to a vault in memory.
LEMMA LinkHeldInv ==
  ASSUME Inv, NEW c \in Call, NEW i \in VaultId, NEW p \in Device,
         LinkHeld(c, i, p) \/ LinkListed(c, i, p)
  PROVE  Inv'
<1>0. held[i] # None /\ process = "up" /\ UNCHANGED <<process, held, open>>
  BY DEF LinkHeld, LinkListed
<1>1. CASE LinkHeld(c, i, p)
  BY <1>0, <1>1, HeldInv, PublishInv, NoneAssumption DEF LinkHeld
<1>2. CASE LinkListed(c, i, p)
  BY <1>0, <1>2, HeldInv, LinkedInv DEF LinkListed
<1> QED BY <1>1, <1>2

\* The process ends: nothing is left in memory.
LEMMA GoneInv ==
  ASSUME Inv, NEW how \in {"down", "threw", "rejected"}, Gone(how)
  PROVE  Inv'
<1> USE DEF Inv
<1>1. TypeOK'
  BY NoneAssumption, NoReplicationFacts DEF Gone, TypeOK, Loaded, LinkState, IdleLink
<1>2. KeyMatches' /\ NoLeakedSync' /\ EntryRunsUnlessDestroyed'
  BY NoReplicationFacts DEF Gone, KeyMatches, NoLeakedSync, EntryRunsUnlessDestroyed
<1>3. WaiterWaits' /\ WaitingHasPull'
  BY NoneAssumption, NoReplicationFacts DEF Gone, WaiterWaits, WaitingHasPull, IdleLink
<1> QED BY <1>1, <1>2, <1>3

\* A process that ended left no entry and no replication.
LEMMA NextMemoryGone == MemoryGone /\ [Next]_vars => MemoryGone'
<1> SUFFICES ASSUME MemoryGone, [Next]_vars, process' # "up" PROVE MemoryGone'
  BY DEF MemoryGone
<1>1. CASE \E how \in {"down", "threw", "rejected"} : Gone(how)
  BY <1>1 DEF Gone, MemoryGone
<1>2. ASSUME NEW t \in Token, PullEnds(t) \/ SyncError(t)
      PROVE  FALSE
  <2>1. process # "up"
    BY <1>2 DEF PullEnds, SyncError
  <2>2. ~ token[t].live /\ ~ token[t].pulling
    BY <2>1, NoReplicationFacts DEF MemoryGone
  <2> QED BY <2>2, <1>2 DEF PullEnds, SyncError
<1>3. ASSUME NEW c \in Call, Answer(c)
      PROVE  MemoryGone'
  BY <1>3 DEF Answer, MemoryGone
<1>4. CASE UNCHANGED vars
  BY <1>4 DEF vars, MemoryGone
<1>5. ASSUME NEW i \in VaultId, NEW p \in Device,
             \/ \E c \in Call : LinkNew(c, i, p) \/ LinkHeld(c, i, p) \/ LinkListed(c, i, p)
             \/ Discover(i, p)
      PROVE  process' = "up"
  BY <1>5 DEF LinkNew, LinkHeld, LinkListed, Discover
<1>6. ASSUME (\E i \in VaultId : Delete(i)) \/ (\E d \in Database : Destroy(d)) \/ Start
      PROVE  process' = "up"
  BY <1>6 DEF Delete, Destroy, Start
<1>7. ASSUME NEW i \in VaultId, NEW p \in Device, DiscoverListed(i, p)
      PROVE  Gone("threw")
  BY <1>7 DEF DiscoverListed
<1>8. ASSUME NEW t \in Token, PullFails(t)
      PROVE  Gone("rejected")
  BY <1>8 DEF PullFails
<1> QED BY <1>1, <1>2, <1>3, <1>4, <1>5, <1>6, <1>7, <1>8 DEF Next, FirstPull, Crash

\* A start loads vaults into an empty memory.
LEMMA StartInv ==
  ASSUME Inv, MemoryGone, Start
  PROVE  Inv'
<1> USE DEF Inv
<1>1. process # "up" /\ process' = "up" /\ Loaded(held') /\ UNCHANGED <<connections, token, link>>
      /\ open' = {held'[i] : i \in VaultId} \ {None}
  BY DEF Start
<1>2. open' \subseteq Database /\ \A i \in VaultId : held'[i] # None => held'[i] \in open'
  BY <1>1 DEF Loaded
<1>3. TypeOK'
  BY <1>1, <1>2 DEF TypeOK
<1>4. (\A t \in Token : ~ token[t].live) /\ \A i \in VaultId, p \in Device : connections[i][p] = None
  BY <1>1, NoReplicationFacts DEF MemoryGone
<1>5. EntryRunsUnlessDestroyed'
  BY <1>1, <1>4 DEF EntryRunsUnlessDestroyed
<1> QED BY <1>1, <1>3, <1>5 DEF KeyMatches, NoLeakedSync, WaiterWaits, WaitingHasPull

\* The end of a first pull wakes the link that waits for it, and no other.
LEMMA PullEndsInv ==
  ASSUME Inv, NEW t \in Token, PullEnds(t)
  PROVE  Inv'
<1> USE DEF Inv
<1>1. /\ token' = [token EXCEPT ![t].pulling = FALSE, ![t].waiter = None]
      /\ link' = [c \in Call |-> IF c = token[t].waiter THEN [link[c] EXCEPT !.pc = "linked"] ELSE link[c]]
      /\ token[t].pulling
      /\ UNCHANGED <<process, held, open, connections>>
  BY DEF PullEnds
<1>2. token[t] \in Replication
  BY <1>1, RunningType
<1>3. /\ token' \in [Token -> Replication \cup {NoReplication}]
      /\ \A u \in Token : /\ token'[u].vault = token[u].vault /\ token'[u].device = token[u].device
                          /\ token'[u].database = token[u].database /\ token'[u].live = token[u].live
                          /\ u # t => token'[u] = token[u]
      /\ ~ token'[t].pulling /\ token'[t].waiter = None
  BY <1>1, <1>2 DEF TypeOK, Replication
<1>4. link' \in [Call -> LinkState]
  BY <1>1 DEF TypeOK, LinkState
<1>5. TypeOK'
  BY <1>1, <1>3, <1>4 DEF TypeOK
<1>6. KeyMatches' /\ NoLeakedSync' /\ EntryRunsUnlessDestroyed'
  <2>1. \A i \in VaultId, p \in Device : connections[i][p] # None => connections[i][p] \in Token
    BY DEF TypeOK
  <2> QED BY <2>1, <1>1, <1>3 DEF KeyMatches, NoLeakedSync, EntryRunsUnlessDestroyed
<1>7. \A c \in Call : link'[c].pc = "waiting" <=> link[c].pc = "waiting" /\ c # token[t].waiter
  BY <1>1 DEF TypeOK, LinkState
<1>8. WaiterWaits'
  <2> SUFFICES ASSUME NEW u \in Token, NEW c \in Call, token'[u].waiter = c
               PROVE  link'[c].pc = "waiting"
    BY DEF WaiterWaits
  <2>1. u # t /\ token[u].waiter = c
    BY <1>3, NoneAssumption
  <2>2. link[c].pc = "waiting"
    BY <2>1 DEF WaiterWaits
  <2>3. c # token[t].waiter
    BY <2>1, <2>2 DEF WaitingHasPull
  <2> QED BY <2>2, <2>3, <1>7
<1>9. WaitingHasPull'
  <2> SUFFICES ASSUME NEW c \in Call, link'[c].pc = "waiting"
               PROVE  \E u \in Token : token'[u].waiter = c /\ \A v \in Token \ {u} : token'[v].waiter # c
    BY DEF WaitingHasPull
  <2>1. PICK u \in Token : token[u].waiter = c /\ \A v \in Token \ {u} : token[v].waiter # c
    BY <1>7 DEF WaitingHasPull
  <2>2. u # t
    BY <2>1, <1>7
  <2> QED BY <2>1, <2>2, <1>3, NoneAssumption
<1> QED BY <1>5, <1>6, <1>8, <1>9

\* The error handler removes the entry of the sync that failed.
LEMMA SyncErrorInv ==
  ASSUME Inv, NEW t \in Token, SyncError(t)
  PROVE  Inv'
<1> DEFINE i == token[t].vault
           p == token[t].device
<1> USE DEF Inv
<1>1. /\ token' = [token EXCEPT ![t].live = FALSE]
      /\ connections' = [connections EXCEPT ![i][p] = None]
      /\ token[t].live
      /\ UNCHANGED <<process, held, open, link>>
  BY DEF SyncError
<1>2. token[t] \in Replication /\ i \in VaultId /\ p \in Device
  BY <1>1, RunningType
<1>3. /\ token' \in [Token -> Replication \cup {NoReplication}]
      /\ \A u \in Token : /\ token'[u].vault = token[u].vault /\ token'[u].device = token[u].device
                          /\ token'[u].database = token[u].database
                          /\ token'[u].pulling = token[u].pulling /\ token'[u].waiter = token[u].waiter
                          /\ u # t => token'[u] = token[u]
      /\ ~ token'[t].live
  BY <1>1, <1>2 DEF TypeOK, Replication
<1>4. /\ connections' \in [VaultId -> [Device -> Token \cup {None}]]
      /\ connections'[i][p] = None
      /\ \A j \in VaultId, q \in Device : j # i \/ q # p => connections'[j][q] = connections[j][q]
  BY <1>1, <1>2 DEF TypeOK
<1>5. connections[i][p] = t
  BY <1>1 DEF NoLeakedSync
<1>6. \A j \in VaultId, q \in Device : connections'[j][q] # None =>
         /\ connections'[j][q] = connections[j][q]
         /\ connections[j][q] \in Token \ {t}
  <2> SUFFICES ASSUME NEW j \in VaultId, NEW q \in Device, connections'[j][q] # None
               PROVE  connections'[j][q] = connections[j][q] /\ connections[j][q] \in Token \ {t}
    OBVIOUS
  <2>1. (j # i \/ q # p) /\ connections'[j][q] = connections[j][q]
    BY <1>4
  <2>2. connections[j][q] \in Token
    BY <2>1 DEF TypeOK
  <2>3. connections[j][q] # t
    BY <2>1, <2>2 DEF KeyMatches
  <2> QED BY <2>1, <2>2, <2>3
<1>7. TypeOK'
  BY <1>1, <1>3, <1>4 DEF TypeOK
<1>8. KeyMatches'
  BY <1>3, <1>6 DEF KeyMatches
<1>9. NoLeakedSync'
  <2> SUFFICES ASSUME NEW u \in Token, token'[u].live
               PROVE  connections'[token'[u].vault][token'[u].device] = u
    BY DEF NoLeakedSync
  <2>1. u # t /\ token'[u] = token[u]
    BY <1>3
  <2>2. /\ connections[token[u].vault][token[u].device] = u
        /\ token[u].vault \in VaultId /\ token[u].device \in Device
    BY <2>1, RunningType DEF NoLeakedSync
  <2> QED BY <2>1, <2>2, <1>4, <1>5
<1>10. EntryRunsUnlessDestroyed'
  BY <1>1, <1>3, <1>6 DEF EntryRunsUnlessDestroyed
<1>11. WaiterWaits' /\ WaitingHasPull'
  BY <1>1, <1>3 DEF WaiterWaits, WaitingHasPull
<1> QED BY <1>7, <1>8, <1>9, <1>10, <1>11

\* An answer: nothing waits for it.
LEMMA AnswerInv ==
  ASSUME Inv, NEW c \in Call, Answer(c)
  PROVE  Inv'
<1> USE DEF Inv
<1>1. /\ link' = [link EXCEPT ![c] = IdleLink] /\ link[c].pc = "linked"
      /\ UNCHANGED <<process, held, open, connections, token>>
  BY DEF Answer
<1>2. TypeOK'
  BY <1>1 DEF TypeOK, LinkState, IdleLink
<1>3. \A b \in Call : link'[b].pc = "waiting" <=> link[b].pc = "waiting"
  BY <1>1 DEF TypeOK, IdleLink
<1> QED BY <1>1, <1>2, <1>3 DEF KeyMatches, NoLeakedSync, EntryRunsUnlessDestroyed, WaiterWaits, WaitingHasPull

\* A vault that leaves the memory takes no entry with it.
LEMMA DeleteInv ==
  ASSUME Inv, NEW i \in VaultId, Delete(i)
  PROVE  Inv'
<1> USE DEF Inv
<1>1. held' = [held EXCEPT ![i] = None] /\ UNCHANGED <<process, open, connections, token, link>>
  BY DEF Delete
<1>2. TypeOK'
  BY <1>1 DEF TypeOK, Loaded
<1> QED BY <1>1, <1>2 DEF KeyMatches, NoLeakedSync, EntryRunsUnlessDestroyed, WaiterWaits, WaitingHasPull

\* The syncs on a destroyed database end with it.
LEMMA DestroyInv ==
  ASSUME Inv, NEW d \in Database, Destroy(d)
  PROVE  Inv'
<1> USE DEF Inv
<1>1. /\ token' = [t \in Token |-> IF token[t].database = d THEN [token[t] EXCEPT !.live = FALSE] ELSE token[t]]
      /\ open' = open \ {d}
      /\ \A i \in VaultId : held[i] # d
      /\ UNCHANGED <<process, held, connections, link>>
  BY DEF Destroy
<1>2. \A t \in Token : /\ token'[t] \in Replication \cup {NoReplication}
                       /\ token'[t].vault = token[t].vault /\ token'[t].device = token[t].device
                       /\ token'[t].database = token[t].database
                       /\ token'[t].pulling = token[t].pulling /\ token'[t].waiter = token[t].waiter
                       /\ token'[t].live => token[t].live /\ token[t].database # d
                       /\ token[t].database # d => token'[t] = token[t]
  <2> SUFFICES ASSUME NEW t \in Token
               PROVE  /\ token'[t] \in Replication \cup {NoReplication}
                      /\ token'[t].vault = token[t].vault /\ token'[t].device = token[t].device
                      /\ token'[t].database = token[t].database
                      /\ token'[t].pulling = token[t].pulling /\ token'[t].waiter = token[t].waiter
                      /\ token'[t].live => token[t].live /\ token[t].database # d
                      /\ token[t].database # d => token'[t] = token[t]
    OBVIOUS
  <2>1. token[t] \in Replication \cup {NoReplication}
    BY DEF TypeOK
  <2>2. CASE token[t].database # d
    BY <2>1, <2>2, <1>1
  <2>3. CASE token[t].database = d
    <3>1. token'[t] = [token[t] EXCEPT !.live = FALSE]
      BY <2>3, <1>1
    <3>2. CASE token[t] \in Replication
      BY <3>1, <3>2, <2>3 DEF Replication
    <3>3. CASE token[t] = NoReplication
      BY <3>1, <3>3, <2>3, NoneAssumption DEF NoReplication
    <3> QED BY <3>2, <3>3, <2>1
  <2> QED BY <2>2, <2>3
<1>3. token' \in [Token -> Replication \cup {NoReplication}]
  BY <1>1, <1>2
<1>4. TypeOK'
  BY <1>1, <1>2, <1>3 DEF TypeOK
<1>5. \A i \in VaultId, p \in Device : connections[i][p] # None => connections[i][p] \in Token
  BY DEF TypeOK
<1>6. KeyMatches' /\ NoLeakedSync' /\ EntryRunsUnlessDestroyed'
  BY <1>1, <1>2, <1>5 DEF KeyMatches, NoLeakedSync, EntryRunsUnlessDestroyed
<1>7. WaiterWaits' /\ WaitingHasPull'
  BY <1>1, <1>2 DEF WaiterWaits, WaitingHasPull
<1> QED BY <1>4, <1>6, <1>7

\* Every step keeps the invariant.
LEMMA NextInv == Inv /\ MemoryGone /\ [Next]_vars => Inv'
<1> SUFFICES ASSUME Inv, MemoryGone, [Next]_vars PROVE Inv'
  OBVIOUS
<1>1. ASSUME NEW c \in Call, NEW i \in VaultId, NEW p \in Device,
             LinkNew(c, i, p) \/ LinkHeld(c, i, p) \/ LinkListed(c, i, p)
      PROVE  Inv'
  BY <1>1, LinkNewInv, LinkHeldInv
<1>2. ASSUME NEW i \in VaultId, NEW p \in Device, Discover(i, p)
      PROVE  Inv'
  BY <1>2, HeldInv, PublishInv, NoneAssumption DEF Discover
<1>3. ASSUME NEW i \in VaultId, NEW p \in Device, DiscoverListed(i, p)
      PROVE  Inv'
  BY <1>3, GoneInv DEF DiscoverListed
<1>4. ASSUME NEW t \in Token, FirstPull(t) \/ SyncError(t)
      PROVE  Inv'
  BY <1>4, PullEndsInv, GoneInv, SyncErrorInv DEF FirstPull, PullFails
<1>5. ASSUME NEW c \in Call, Answer(c)
      PROVE  Inv'
  BY <1>5, AnswerInv
<1>6. ASSUME NEW i \in VaultId, Delete(i)
      PROVE  Inv'
  BY <1>6, DeleteInv
<1>7. ASSUME NEW d \in Database, Destroy(d)
      PROVE  Inv'
  BY <1>7, DestroyInv
<1>8. CASE Crash \/ Start
  BY <1>8, GoneInv, StartInv DEF Crash
<1>9. CASE UNCHANGED vars
  BY <1>9 DEF vars, Inv, TypeOK, Loaded, KeyMatches, NoLeakedSync, EntryRunsUnlessDestroyed,
              WaiterWaits, WaitingHasPull
<1> QED BY <1>1, <1>2, <1>3, <1>4, <1>5, <1>6, <1>7, <1>8, <1>9 DEF Next

\* Connections: every running sync is listed under its vault and device and is on
\* a database that exists, every entry runs unless its database was destroyed,
\* and a waiting link has the one first pull that wakes it.
THEOREM ConnectionsInvariant ==
  Spec => [](TypeOK /\ NoLeakedSync /\ EntryRunsUnlessDestroyed /\ WaitingHasPull)
<1>1. Inv => TypeOK /\ NoLeakedSync /\ EntryRunsUnlessDestroyed /\ WaitingHasPull
  BY DEF Inv
<1>2. Init => MemoryGone
  BY DEF Init, MemoryGone
<1> QED BY InitInv, NextInv, NextMemoryGone, <1>1, <1>2, PTL DEF Spec

=============================================================================
