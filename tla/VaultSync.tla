------------------------------ MODULE VaultSync ------------------------------
(***************************************************************************)
(* The content of a vault on several devices: reads and writes of the one   *)
(* document by services/vault/VaultDatabase.ts, its replication, and the     *)
(* check of what was pulled, in services/connection.ts.                     *)
(*                                                                          *)
(* PouchDB keeps every revision of a document, as a tree.  A leaf that is    *)
(* not a removal is live; what is read is the live leaf of the highest       *)
(* generation, the greatest hash among equals.  A write names the revision   *)
(* it replaces, and is refused unless that is a leaf.  Replication copies    *)
(* the leaves the other side lacks, with their ancestors, and refuses        *)
(* nothing: it makes branches, of which one is read.                        *)
(*                                                                          *)
(* Devices replicate databases by NAME.  A name that was given to another    *)
(* vault on one of them (see VaultRegistry) joins databases of two vaults,   *)
(* so a device has a database made for some vault, and a revision is signed  *)
(* for the vault of the device that wrote it.                               *)
(***************************************************************************)
EXTENDS Naturals

CONSTANTS
  Device,     \* devices that hold the database
  Linking,    \* those that link with the others; the rest are only linked to
  Vault,      \* vaults its copies may have been made for
  Call,       \* writes that may be in flight together
  MaxRev,     \* bound on the revisions ever made
  None        \* no value

Rev == 1..MaxRev

ASSUME ConstantsAssumption ==
  /\ MaxRev \in Nat
  /\ Linking \subseteq Device
  /\ None \notin Device \cup Vault \cup Rev

VARIABLES
  vaultOf,    \* device -> the vault its copy was made for
  revision,   \* revision -> what it is, or NoRevision if it was not made yet
  has,        \* device -> the revisions in its database
  link,       \* device, peer -> the replication the device runs with the peer
  rejecting,  \* device -> the revisions it is about to remove
  call        \* the writes in flight

vars == <<vaultOf, revision, has, link, rejecting, call>>

\* A revision: the one it replaced, its generation, the vault it is signed for
\* (None for a removal, which has no payload), and the device that made it.
Revision ==
  [parent : Rev \cup {None}, gen : Nat, vault : Vault \cup {None}, by : Device]
NoRevision == [parent |-> None, gen |-> 0, vault |-> None, by |-> None]

\* A replication: whether the sync runs, whether the first pull is on its way,
\* and the batch the sync is about to write: the revisions it reads and,
\* among them, the leaves that were missing.
Replication ==
  [live : BOOLEAN, pulling : BOOLEAN, batch : SUBSET Rev, docs : SUBSET Rev]
NoReplication == [live |-> FALSE, pulling |-> FALSE, batch |-> {}, docs |-> {}]

\* A setContent: before the comparison that putAttachment makes ("check"), or
\* before the write ("put"), with the revision to replace, None for none.
CallState ==
  [pc : {"idle", "check", "put"}, device : Device \cup {None}, rev : Rev \cup {None}]
IdleCall == [pc |-> "idle", device |-> None, rev |-> None]

Init ==
  /\ vaultOf \in [Device -> Vault]
  /\ revision = [r \in Rev |-> NoRevision]
  /\ has = [d \in Device |-> {}]
  /\ link = [d \in Device |-> [e \in Device |-> NoReplication]]
  /\ rejecting = [d \in Device |-> {}]
  /\ call = [c \in Call |-> IdleCall]

-----------------------------------------------------------------------------
\* The document of a device.

Made(r) == revision[r] # NoRevision

Leaves(S) == {r \in S : \A s \in S : revision[s].parent # r}

Removal(r) == revision[r].vault = None

Live(d) == {r \in Leaves(has[d]) : ~ Removal(r)}

\* PouchDB prefers r to s; the number of a revision stands for its hash.
Better(r, s) ==
  \/ revision[s].gen < revision[r].gen
  \/ revision[s].gen = revision[r].gen /\ s < r

\* The revision of S that it prefers, as a set.
Preferred(S) == {r \in S : \A s \in S \ {r} : Better(r, s)}

\* A read of the document finds r: None if there is none, or only removals.
Reads(d, r) ==
  \/ r = None /\ Live(d) = {}
  \/ r \in Preferred(Live(d))

Content(d) == CHOOSE r \in Rev \cup {None} : Reads(d, r)

\* Device d makes a revision on top of p, signed for v.
NewRevision(d, p, v) ==
  \E r \in Rev :
    /\ ~ Made(r)
    /\ revision' = [revision EXCEPT ![r] =
         [parent |-> p, gen |-> IF p = None THEN 1 ELSE revision[p].gen + 1,
          vault |-> v, by |-> d]]
    /\ has' = [has EXCEPT ![d] = @ \cup {r}]

-----------------------------------------------------------------------------
\* setContent: the revision is read, compared by putAttachment with another
\* read, and named in the write.  A call ends with true in Put, with false in
\* CheckFails and PutFails.

\* Clients sign with a key they find in the content.  The first content of a
\* vault is written once, by the command that made the key (onCreateVault).
CanSign(d) ==
  \/ \E r \in has[d] : revision[r].vault = vaultOf[d]
  \/ /\ \A r \in Rev : revision[r].vault # vaultOf[d]
     /\ \A c \in Call : call[c].pc # "idle" => vaultOf[call[c].device] # vaultOf[d]

\* The bound: no write is begun once all revisions are made.
GetRevision(c, d) ==
  /\ \E r \in Rev : ~ Made(r)
  /\ CanSign(d)
  /\ call[c].pc = "idle"
  /\ \E r \in Rev \cup {None} :
       /\ Reads(d, r)
       /\ call' = [call EXCEPT ![c] = [pc |-> "check", device |-> d, rev |-> r]]
  /\ UNCHANGED <<vaultOf, revision, has, link, rejecting>>

Return(c) == call' = [call EXCEPT ![c] = IdleCall]

\* putAttachment finds the revision it was given, or no document if it was
\* given none.  A document that was removed is neither.
Unchanged(c) ==
  /\ Reads(call[c].device, call[c].rev)
  /\ call[c].rev = None => has[call[c].device] = {}

Check(c) ==
  /\ call[c].pc = "check"
  /\ Unchanged(c)
  /\ call' = [call EXCEPT ![c].pc = "put"]
  /\ UNCHANGED <<vaultOf, revision, has, link, rejecting>>

CheckFails(c) ==
  /\ call[c].pc = "check"
  /\ ~ Unchanged(c)
  /\ Return(c)
  /\ UNCHANGED <<vaultOf, revision, has, link, rejecting>>

\* What a write that names rev replaces: rev, while it is a leaf; a write that
\* names none starts the document, or goes on top of its removal.
Replaceable(d, rev) ==
  IF rev # None THEN {rev} \cap Leaves(has[d])
  ELSE IF has[d] = {} THEN {None}
  ELSE IF Live(d) = {} THEN Preferred(Leaves(has[d]))
  ELSE {}

\* Mutant of Put: whatever was read is replaced.
PutForced(c) ==
  /\ call[c].pc = "put"
  /\ NewRevision(call[c].device, call[c].rev, vaultOf[call[c].device])
  /\ Return(c)
  /\ UNCHANGED <<vaultOf, link, rejecting>>

Put(c) ==
  /\ call[c].pc = "put"
  /\ \E p \in Replaceable(call[c].device, call[c].rev) :
       NewRevision(call[c].device, p, vaultOf[call[c].device])
  /\ Return(c)
  /\ UNCHANGED <<vaultOf, link, rejecting>>

PutFails(c) ==
  /\ call[c].pc = "put"
  /\ Replaceable(call[c].device, call[c].rev) = {}
  /\ Return(c)
  /\ UNCHANGED <<vaultOf, revision, has, link, rejecting>>

-----------------------------------------------------------------------------
\* publishDatabaseConnection, and the replication it starts.

Connect(d, e) ==
  /\ d \in Linking /\ d # e
  /\ ~ link[d][e].live
  /\ link' = [link EXCEPT ![d][e] = [@ EXCEPT !.live = TRUE, !.pulling = TRUE]]
  /\ UNCHANGED <<vaultOf, revision, has, rejecting, call>>

\* The first pull has no "change" handler: nothing is checked.
FirstPull(d, e) ==
  /\ link[d][e].pulling
  /\ has' = [has EXCEPT ![d] = @ \cup has[e]]
  /\ link' = [link EXCEPT ![d][e].pulling = FALSE]
  /\ UNCHANGED <<vaultOf, revision, rejecting, call>>

\* The sync sends what the peer lacks.  The peer, which is only served, checks
\* nothing.
Push(d, e) ==
  /\ link[d][e].live
  /\ ~ has[d] \subseteq has[e]
  /\ has' = [has EXCEPT ![e] = @ \cup has[d]]
  /\ UNCHANGED <<vaultOf, revision, link, rejecting, call>>

\* Mutant of PullReads: the pull is not live.
PullReadsOnce(d, e) ==
  /\ link[d][e].live
  /\ link[d][e].docs = {}
  /\ has[d] = {}
  /\ Leaves(has[e]) # {}
  /\ link' = [link EXCEPT ![d][e] = [@ EXCEPT !.batch = has[e], !.docs = Leaves(has[e])]]
  /\ UNCHANGED <<vaultOf, revision, has, rejecting, call>>

\* The sync reads the leaves of the peer that the device lacks.
PullReads(d, e) ==
  /\ link[d][e].live
  /\ link[d][e].docs = {}
  /\ LET missing == Leaves(has[e]) \ has[d]
     IN  /\ missing # {}
         /\ link' = [link EXCEPT ![d][e] = [@ EXCEPT !.batch = has[e], !.docs = missing]]
  /\ UNCHANGED <<vaultOf, revision, has, rejecting, call>>

\* Pulled revisions that are not signed for the device's vault.
Foreign(d, docs) == {r \in docs : ~ Removal(r) /\ revision[r].vault # vaultOf[d]}

\* Mutant of PullWrites: the result of the validation is taken the wrong way.
PullWritesInverted(d, e) ==
  /\ link[d][e].docs # {}
  /\ \A r \in link[d][e].docs : ~ Removal(r)
  /\ has' = [has EXCEPT ![d] = @ \cup link[d][e].batch]
  /\ rejecting' = [rejecting EXCEPT ![d] = @ \cup (link[d][e].docs \ Foreign(d, link[d][e].docs))]
  /\ link' = [link EXCEPT ![d][e] = [@ EXCEPT !.batch = {}, !.docs = {}]]
  /\ UNCHANGED <<vaultOf, revision, call>>

\* Mutant of PullWrites: the documents are written without their ancestors.
PullWritesNoHistory(d, e) ==
  /\ link[d][e].docs # {}
  /\ \A r \in link[d][e].docs : ~ Removal(r)
  /\ has' = [has EXCEPT ![d] = @ \cup link[d][e].docs]
  /\ rejecting' = [rejecting EXCEPT ![d] = @ \cup Foreign(d, link[d][e].docs)]
  /\ link' = [link EXCEPT ![d][e] = [@ EXCEPT !.batch = {}, !.docs = {}]]
  /\ UNCHANGED <<vaultOf, revision, call>>

\* The batch is written, and the "change" handler checks its documents.
PullWrites(d, e) ==
  /\ link[d][e].docs # {}
  /\ \A r \in link[d][e].docs : ~ Removal(r)
  /\ has' = [has EXCEPT ![d] = @ \cup link[d][e].batch]
  /\ rejecting' = [rejecting EXCEPT ![d] = @ \cup Foreign(d, link[d][e].docs)]
  /\ link' = [link EXCEPT ![d][e] = [@ EXCEPT !.batch = {}, !.docs = {}]]
  /\ UNCHANGED <<vaultOf, revision, call>>

\* The same, with a removal in the batch, which has no attachments: the handler
\* throws there, with some of the documents checked, and the sync ends.
PullWritesRemoval(d, e) ==
  /\ \E r \in link[d][e].docs : Removal(r)
  /\ has' = [has EXCEPT ![d] = @ \cup link[d][e].batch]
  /\ \E checked \in SUBSET Foreign(d, link[d][e].docs) :
       rejecting' = [rejecting EXCEPT ![d] = @ \cup checked]
  /\ link' = [link EXCEPT ![d][e] = [@ EXCEPT !.live = FALSE, !.batch = {}, !.docs = {}]]
  /\ UNCHANGED <<vaultOf, revision, call>>

\* localVault.remove("vault", r): removes r if it is a leaf, and fails if not.
\* The hash of a removal is that of its parent's: two devices make the same one.
Reject(d, r) ==
  /\ r \in rejecting[d]
  /\ \/ /\ r \notin Leaves(has[d])
        /\ UNCHANGED <<revision, has>>
     \/ /\ r \in Leaves(has[d])
        /\ \E t \in Rev :
             /\ Made(t) /\ Removal(t) /\ revision[t].parent = r
             /\ has' = [has EXCEPT ![d] = @ \cup {t}]
        /\ UNCHANGED revision
     \/ /\ r \in Leaves(has[d])
        /\ \A t \in Rev : Made(t) /\ Removal(t) => revision[t].parent # r
        /\ NewRevision(d, r, None)
  /\ rejecting' = [rejecting EXCEPT ![d] = @ \ {r}]
  /\ UNCHANGED <<vaultOf, link, call>>

\* Mutant of Disconnect: the batch of a sync that ended is taken up again.
DisconnectKeepsBatch(d, e) ==
  /\ link[d][e].live
  /\ link' = [link EXCEPT ![d][e].live = FALSE]
  /\ UNCHANGED <<vaultOf, revision, has, rejecting, call>>

\* The network ends a sync.  A batch on its way may still be written, but the
\* handler is not called any more.
Disconnect(d, e) ==
  /\ link[d][e].live
  /\ has' \in {has, [has EXCEPT ![d] = @ \cup link[d][e].batch]}
  /\ link' = [link EXCEPT ![d][e] = [@ EXCEPT !.live = FALSE, !.batch = {}, !.docs = {}]]
  /\ UNCHANGED <<vaultOf, revision, rejecting, call>>

\* The process of a device ends, and is started again.
Restart(d) ==
  /\ link' = [link EXCEPT ![d] = [e \in Device |-> NoReplication]]
  /\ rejecting' = [rejecting EXCEPT ![d] = {}]
  /\ call' = [c \in Call |-> IF call[c].device = d THEN IdleCall ELSE call[c]]
  /\ UNCHANGED <<vaultOf, revision, has>>

-----------------------------------------------------------------------------

CallStep(c) == Check(c) \/ CheckFails(c) \/ Put(c) \/ PutFails(c)

SyncStep(d, e) == Push(d, e) \/ PullReads(d, e) \/ PullWrites(d, e) \/ PullWritesRemoval(d, e)

Next ==
  \/ \E c \in Call :
       \/ \E d \in Device : GetRevision(c, d)
       \/ CallStep(c)
  \/ \E d, e \in Device :
       \/ Connect(d, e) \/ FirstPull(d, e) \/ Disconnect(d, e)
       \/ SyncStep(d, e)
  \/ \E d \in Device :
       \/ \E r \in Rev : Reject(d, r)
       \/ Restart(d)

Spec == Init /\ [][Next]_vars

\* A sync that runs gets on with it, in both directions: PouchDB drives a pull
\* and a push, each on its own.  Nothing makes a user write or a device link.
FairSpec ==
  /\ Spec
  /\ \A d, e \in Device :
       /\ WF_vars(Push(d, e))
       /\ WF_vars(PullReads(d, e))
       /\ WF_vars(PullWrites(d, e) \/ PullWritesRemoval(d, e))

-----------------------------------------------------------------------------
\* Properties.

\* The state is well formed: a call in flight is one of a device, and a batch on
\* its way one of a sync that runs, missing leaves among it.
TypeOK ==
  /\ vaultOf \in [Device -> Vault]
  /\ revision \in [Rev -> Revision \cup {NoRevision}]
  /\ has \in [Device -> SUBSET Rev]
  /\ link \in [Device -> [Device -> Replication]]
  /\ rejecting \in [Device -> SUBSET Rev]
  /\ call \in [Call -> CallState]
  /\ \A c \in Call : call[c].pc = "idle" <=> call[c].device = None
  /\ \A d, e \in Device :
       /\ link[d][e].docs \subseteq link[d][e].batch
       /\ ~ link[d][e].live => link[d][e].batch = {}

\* setContent never writes on top of what it did not see: a device makes one
\* revision at most on top of each, whichever of its writes, pulls and removals
\* overlap.  Branches come from devices that write apart.
OneSuccessorPerDevice ==
  \A r, s \in Rev :
    Made(r) /\ Made(s) /\ revision[r].parent = revision[s].parent
      /\ revision[r].by = revision[s].by => r = s

\* Devices that all hold one vault never reject each other's writes: what a device
\* reads is never replaced by nothing, nor by what PouchDB would not prefer to
\* it, whatever order pulls, pushes and writes arrive in.
ContentAdvances ==
  [][(\A d, e \in Device : vaultOf[d] = vaultOf[e]) =>
       \A d \in Device, r \in Rev :
         Content(d) = r => (Content(d) \in {q \in Rev : q = r \/ Better(q, r)})']_vars

\* Replication compares leaves alone: where each side has those of the other, and
\* none of the syncs, errors and restarts left anything out on the way, both
\* have the whole history of the document, and read the same.
LeavesTellAll ==
  \A d, e \in Device :
    Leaves(has[d]) \subseteq has[e] /\ Leaves(has[e]) \subseteq has[d] => has[d] = has[e]

\* To its devices the document is a tree of revisions that only grows: writes go
\* on top of a leaf of their device, whatever arrived since they were begun, and
\* what is pulled, pushed and rejected leaves every device with whole branches.
treeBar == [r \in Rev |-> [parent |-> revision[r].parent, by |-> revision[r].by]]

Tree == INSTANCE RevisionTree WITH tree <- treeBar

IsRevisionTree == Tree!Spec

\* Devices that stay linked come to the same content, once nobody writes (the
\* bound on revisions ends all writing).
Agreement ==
  \A d, e \in Device :
    d # e => (<>[]link[d][e].live => <>[](Content(d) = Content(e)))

\* connection.ts:75, "rejecting changes": what was signed for the vault of a
\* device is replaced by other content, never by none.  (Does not hold: to
\* reject is to remove, and the removal is pushed to the device whose vault it
\* was; a change made on top of signed content takes that with it.)
RejectionKeepsContent ==
  \A d \in Device :
    (\E r \in has[d] : revision[r].vault = vaultOf[d]) => Content(d) # None
=============================================================================
