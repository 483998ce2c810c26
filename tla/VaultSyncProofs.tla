--------------------------- MODULE VaultSyncProofs ---------------------------
(***************************************************************************)
(* Proofs about VaultSync, for any devices, vaults and writes, and any      *)
(* bound on the revisions.                                                  *)
(***************************************************************************)
EXTENDS VaultSync, FiniteSetTheorems, WellFoundedInduction, TLAPS

\* What a database holds, or a batch carries, was made.
HoldsMade ==
  \A d \in Device :
    /\ \A r \in has[d] : Made(r)
    /\ \A e \in Device : \A r \in link[d][e].batch : Made(r)

\* A device keeps what it made.
KeepsOwn == \A r \in Rev : Made(r) => r \in has[revision[r].by]

SyncInv == HoldsMade /\ KeepsOwn /\ OneSuccessorPerDevice

-----------------------------------------------------------------------------

\* The initial states.
LEMMA InitInv == Init => TypeOK /\ SyncInv
  <1> SUFFICES ASSUME Init PROVE TypeOK /\ SyncInv
    OBVIOUS
  <1> USE ConstantsAssumption DEF Init
  <1>1. TypeOK
    BY DEF TypeOK, Replication, NoReplication, CallState, IdleCall, Revision, NoRevision
  <1>2. SyncInv
    BY DEF SyncInv, HoldsMade, KeepsOwn, OneSuccessorPerDevice, Made, NoReplication
  <1> QED BY <1>1, <1>2

\* A revision is made where nothing was, and is none of the values before.
LEMMA RevisionIsSomething ==
  ASSUME NEW p, NEW g, NEW v, NEW d \in Device
  PROVE  [parent |-> p, gen |-> g, vault |-> v, by |-> d] # NoRevision
  BY ConstantsAssumption DEF NoRevision

\* A device that makes a revision on top of p, which none of its revisions has
\* for parent, keeps the invariant.
LEMMA NewRevisionInv ==
  ASSUME TypeOK, SyncInv,
         NEW d \in Device, NEW p \in Rev \cup {None}, NEW v \in Vault \cup {None},
         p # None => Made(p),
         \A s \in has[d] : revision[s].parent # p,
         NewRevision(d, p, v),
         UNCHANGED link
  PROVE  /\ revision' \in [Rev -> Revision \cup {NoRevision}]
         /\ has' \in [Device -> SUBSET Rev]
         /\ SyncInv'
  <1> PICK r \in Rev :
        /\ ~ Made(r)
        /\ revision' = [revision EXCEPT ![r] =
             [parent |-> p, gen |-> IF p = None THEN 1 ELSE revision[p].gen + 1,
              vault |-> v, by |-> d]]
        /\ has' = [has EXCEPT ![d] = @ \cup {r}]
    BY DEF NewRevision
  <1> DEFINE new == [parent |-> p, gen |-> IF p = None THEN 1 ELSE revision[p].gen + 1,
                     vault |-> v, by |-> d]
  <1>1. revision \in [Rev -> Revision \cup {NoRevision}] /\ has \in [Device -> SUBSET Rev]
    BY DEF TypeOK
  <1>2. new \in Revision
    <2>1. CASE p = None
      BY <2>1 DEF Revision
    <2>2. CASE p # None
      <3>1. p \in Rev /\ revision[p] \in Revision
        BY <1>1, <2>2 DEF Made
      <3>2. revision[p].gen + 1 \in Nat
        BY <3>1 DEF Revision
      <3> QED BY <3>1, <3>2, <2>2 DEF Revision
    <2> QED BY <2>1, <2>2
  <1>3. revision'[r] = new /\ new # NoRevision
    <2>1. new # NoRevision
      BY RevisionIsSomething
    <2> QED BY <1>1, <2>1
  <1>4. \A s \in Rev \ {r} : revision'[s] = revision[s]
    BY <1>1
  <1>5. has'[d] = has[d] \cup {r} /\ \A e \in Device \ {d} : has'[e] = has[e]
    BY <1>1
  <1> HIDE DEF new
  <1>6. new.by = d /\ new.parent = p
    BY DEF new
  <1>7. HoldsMade'
    BY <1>1, <1>3, <1>4, <1>5 DEF SyncInv, HoldsMade, Made, TypeOK, Replication
  <1>8. KeepsOwn'
    BY <1>1, <1>3, <1>4, <1>5, <1>6 DEF SyncInv, KeepsOwn, Made, Revision
  <1>9. OneSuccessorPerDevice'
    <2> SUFFICES ASSUME NEW s \in Rev, NEW t \in Rev, Made(s)', Made(t)',
                        revision'[s].parent = revision'[t].parent,
                        revision'[s].by = revision'[t].by
                 PROVE  s = t
      BY DEF OneSuccessorPerDevice
    <2>1. \A u \in Rev \ {r} : Made(u) /\ revision[u].by = d => revision[u].parent # p
      BY DEF SyncInv, KeepsOwn
    <2>2. CASE s = r
      BY <2>1, <2>2, <1>3, <1>4, <1>6 DEF Made
    <2>3. CASE t = r
      BY <2>1, <2>3, <1>3, <1>4, <1>6 DEF Made
    <2>4. CASE s # r /\ t # r
      BY <2>4, <1>4 DEF SyncInv, OneSuccessorPerDevice, Made
    <2> QED BY <2>2, <2>3, <2>4
  <1>10. revision' \in [Rev -> Revision \cup {NoRevision}] /\ has' \in [Device -> SUBSET Rev]
    BY <1>1, <1>2 DEF new
  <1> QED BY <1>7, <1>8, <1>9, <1>10 DEF SyncInv

\* Databases that only gain what was made, with nothing made, keep it too.
LEMMA CopiedInv ==
  ASSUME TypeOK, SyncInv, UNCHANGED revision,
         has' \in [Device -> SUBSET Rev],
         \A d \in Device : has[d] \subseteq has'[d],
         \A d \in Device : \A r \in has'[d] : Made(r),
         \A d, e \in Device : \A r \in link'[d][e].batch : Made(r)
  PROVE  SyncInv'
  <1>1. HoldsMade'
    BY DEF HoldsMade, Made
  <1>2. KeepsOwn'
    <2> SUFFICES ASSUME NEW r \in Rev, Made(r) PROVE r \in has'[revision[r].by]
      BY DEF KeepsOwn, Made
    <2>1. revision[r].by \in Device
      BY DEF TypeOK, Made, Revision
    <2> QED BY <2>1 DEF SyncInv, KeepsOwn
  <1>3. OneSuccessorPerDevice'
    BY DEF SyncInv, OneSuccessorPerDevice, Made
  <1> QED BY <1>1, <1>2, <1>3 DEF SyncInv

-----------------------------------------------------------------------------
\* The steps, for one device or call each.

\* A call that ends, or goes on, is well formed.
LEMMA CallInv ==
  ASSUME TypeOK, NEW c \in Call,
         NEW x \in CallState, x.pc = "idle" <=> x.device = None,
         call' = [call EXCEPT ![c] = x]
  PROVE  /\ call' \in [Call -> CallState]
         /\ \A b \in Call : call'[b].pc = "idle" <=> call'[b].device = None
  BY DEF TypeOK

\* The same for a replication.
LEMMA LinkInv ==
  ASSUME TypeOK, NEW d \in Device, NEW e \in Device,
         NEW x \in Replication, x.docs \subseteq x.batch, ~ x.live => x.batch = {},
         link' = [link EXCEPT ![d][e] = x]
  PROVE  /\ link' \in [Device -> [Device -> Replication]]
         /\ \A a, b \in Device :
              /\ link'[a][b].docs \subseteq link'[a][b].batch
              /\ ~ link'[a][b].live => link'[a][b].batch = {}
         /\ \A a, b \in Device : link'[a][b].batch \subseteq link[a][b].batch \cup x.batch
  BY DEF TypeOK

\* A write returns.
LEMMA ReturnInv ==
  ASSUME TypeOK, NEW c \in Call, Return(c)
  PROVE  /\ call' \in [Call -> CallState]
         /\ \A b \in Call : call'[b].pc = "idle" <=> call'[b].device = None
  <1>1. IdleCall \in CallState /\ IdleCall.pc = "idle" /\ IdleCall.device = None
    BY DEF IdleCall, CallState
  <1> QED BY <1>1, CallInv DEF Return

\* GetRevision, Check and CheckFails change the call only.
LEMMA GetRevisionInv ==
  ASSUME TypeOK, SyncInv, NEW c \in Call, NEW d \in Device, GetRevision(c, d)
  PROVE  TypeOK' /\ SyncInv'
  <1>1. PICK r \in Rev \cup {None} :
          call' = [call EXCEPT ![c] = [pc |-> "check", device |-> d, rev |-> r]]
    BY DEF GetRevision
  <1>2. [pc |-> "check", device |-> d, rev |-> r] \in CallState /\ d # None
    BY ConstantsAssumption DEF CallState
  <1>3. UNCHANGED <<vaultOf, revision, has, link, rejecting>>
    BY DEF GetRevision
  <1>4. TypeOK'
    BY <1>1, <1>2, <1>3, CallInv DEF TypeOK
  <1>5. SyncInv'
    BY <1>3 DEF SyncInv, HoldsMade, KeepsOwn, OneSuccessorPerDevice, Made
  <1> QED BY <1>4, <1>5

\* putAttachment compares.
LEMMA CheckInv ==
  ASSUME TypeOK, SyncInv, NEW c \in Call, Check(c) \/ CheckFails(c) \/ PutFails(c)
  PROVE  TypeOK' /\ SyncInv'
  <1>1. UNCHANGED <<vaultOf, revision, has, link, rejecting>>
    BY DEF Check, CheckFails, PutFails
  <1>2. /\ call' \in [Call -> CallState]
        /\ \A b \in Call : call'[b].pc = "idle" <=> call'[b].device = None
    <2>1. CASE Check(c)
      <3> DEFINE x == [call[c] EXCEPT !.pc = "put"]
      <3>1. x \in CallState /\ x.pc = "put" /\ x.device # None
        BY <2>1 DEF Check, TypeOK, CallState
      <3>2. call' = [call EXCEPT ![c] = x]
        BY <2>1 DEF Check
      <3> HIDE DEF x
      <3> QED BY <3>1, <3>2, CallInv
    <2>2. CASE CheckFails(c) \/ PutFails(c)
      BY <2>2, ReturnInv DEF CheckFails, PutFails
    <2> QED BY <2>1, <2>2
  <1>3. SyncInv'
    BY <1>1 DEF SyncInv, HoldsMade, KeepsOwn, OneSuccessorPerDevice, Made
  <1> QED BY <1>1, <1>2, <1>3 DEF TypeOK

\* Put goes on top of a leaf, or starts a database that is empty.
LEMMA PutInv ==
  ASSUME TypeOK, SyncInv, NEW c \in Call, Put(c)
  PROVE  TypeOK' /\ SyncInv'
  <1> DEFINE d == call[c].device
  <1>1. d \in Device /\ call[c].rev \in Rev \cup {None}
    BY DEF Put, TypeOK, CallState
  <1>2. PICK p \in Replaceable(d, call[c].rev) : NewRevision(d, p, vaultOf[d])
    BY DEF Put
  <1>3. UNCHANGED <<vaultOf, link, rejecting>> /\ Return(c)
    BY DEF Put
  <1> HIDE DEF d
  <1>4. p \in Leaves(has[d]) \/ (p = None /\ has[d] = {})
    BY <1>2 DEF Replaceable, Preferred
  <1>5. p \in Rev \cup {None} /\ (p # None => Made(p))
    BY <1>1, <1>4 DEF Leaves, TypeOK, SyncInv, HoldsMade
  <1>6. \A s \in has[d] : revision[s].parent # p
    BY <1>4 DEF Leaves
  <1>7. vaultOf[d] \in Vault \cup {None}
    BY <1>1 DEF TypeOK
  <1>8. /\ revision' \in [Rev -> Revision \cup {NoRevision}]
        /\ has' \in [Device -> SUBSET Rev]
        /\ SyncInv'
    BY <1>1, <1>2, <1>3, <1>5, <1>6, <1>7, NewRevisionInv
  <1> QED BY <1>3, <1>8, ReturnInv DEF TypeOK

\* A removal goes on top of the leaf it removes, or is one that was made.
LEMMA RejectInv ==
  ASSUME TypeOK, SyncInv, NEW d \in Device, NEW r \in Rev, Reject(d, r)
  PROVE  TypeOK' /\ SyncInv'
  <1>1. /\ UNCHANGED <<vaultOf, link, call>>
        /\ rejecting' \in [Device -> SUBSET Rev]
    BY DEF Reject, TypeOK
  <1>2. /\ revision' \in [Rev -> Revision \cup {NoRevision}]
        /\ has' \in [Device -> SUBSET Rev]
        /\ SyncInv'
    <2>1. CASE UNCHANGED <<revision, has>>
      BY <2>1, <1>1 DEF TypeOK, SyncInv, HoldsMade, KeepsOwn, OneSuccessorPerDevice, Made
    <2>2. CASE /\ \E t \in Rev : Made(t) /\ has' = [has EXCEPT ![d] = @ \cup {t}]
               /\ UNCHANGED revision
      <3>1. PICK t \in Rev : Made(t) /\ has' = [has EXCEPT ![d] = @ \cup {t}]
        BY <2>2
      <3>2. has' \in [Device -> SUBSET Rev] /\ \A a \in Device : has[a] \subseteq has'[a]
        BY <3>1 DEF TypeOK
      <3>3. \A a \in Device : \A s \in has'[a] : Made(s)
        BY <3>1 DEF TypeOK, SyncInv, HoldsMade
      <3>4. \A a, b \in Device : \A s \in link'[a][b].batch : Made(s)
        BY <1>1 DEF SyncInv, HoldsMade
      <3> QED BY <2>2, <3>2, <3>3, <3>4, CopiedInv DEF TypeOK
    <2>3. CASE r \in Leaves(has[d]) /\ NewRevision(d, r, None)
      <3>1. Made(r) /\ \A s \in has[d] : revision[s].parent # r
        BY <2>3 DEF Leaves, SyncInv, HoldsMade
      <3> QED BY <2>3, <3>1, <1>1, NewRevisionInv
    <2> QED BY <2>1, <2>2, <2>3 DEF Reject
  <1> QED BY <1>1, <1>2 DEF TypeOK

\* What the replication copies was made, and so is what it reads.
LEMMA CopyInv ==
  ASSUME TypeOK, SyncInv, NEW d \in Device, NEW e \in Device,
         Connect(d, e) \/ FirstPull(d, e) \/ Disconnect(d, e) \/ SyncStep(d, e)
  PROVE  TypeOK' /\ SyncInv'
  <1> DEFINE l == link[d][e]
  <1>1. l \in Replication /\ l.docs \subseteq l.batch /\ (~ l.live => l.batch = {})
    BY DEF TypeOK
  <1>2. UNCHANGED <<vaultOf, revision, call>>
    BY DEF Connect, FirstPull, Disconnect, SyncStep, Push, PullReads, PullWrites, PullWritesRemoval
  <1>3. rejecting' \in [Device -> SUBSET Rev]
    <2>1. \A X \in SUBSET Foreign(d, l.docs) : X \in SUBSET Rev
      BY <1>1 DEF Foreign, Replication
    <2>2. Foreign(d, l.docs) \in SUBSET Foreign(d, l.docs)
      OBVIOUS
    <2> QED BY <2>1, <2>2 DEF TypeOK, Connect, FirstPull, Disconnect, SyncStep, Push, PullReads,
                             PullWrites, PullWritesRemoval
  <1>4. /\ has' \in [Device -> SUBSET Rev]
        /\ \A a \in Device : has[a] \subseteq has'[a]
        /\ \A a \in Device : \A r \in has'[a] : Made(r)
    <2>1. /\ has \in [Device -> SUBSET Rev] /\ l.batch \in SUBSET Rev
          /\ \A a \in Device : \A r \in has[a] : Made(r)
          /\ \A r \in l.batch : Made(r)
      BY <1>1 DEF TypeOK, Replication, SyncInv, HoldsMade
    <2>2. \/ has' = has
          \/ has' = [has EXCEPT ![d] = @ \cup has[e]]
          \/ has' = [has EXCEPT ![e] = @ \cup has[d]]
          \/ has' = [has EXCEPT ![d] = @ \cup l.batch]
      BY DEF Connect, FirstPull, Disconnect, SyncStep, Push, PullReads, PullWrites,
             PullWritesRemoval
    <2> HIDE DEF l
    <2> QED BY <2>1, <2>2
  <1>5. \/ UNCHANGED link
        \/ \E x \in Replication :
             /\ x.docs \subseteq x.batch /\ (~ x.live => x.batch = {})
             /\ x.batch \in {{}, l.batch, has[e]}
             /\ link' = [link EXCEPT ![d][e] = x]
    <2>1. CASE Connect(d, e)
      <3> DEFINE x == [l EXCEPT !.live = TRUE, !.pulling = TRUE]
      <3>1. x \in Replication /\ x.docs \subseteq x.batch /\ x.live /\ x.batch = l.batch
        BY <1>1 DEF Replication
      <3> QED BY <3>1, <2>1 DEF Connect
    <2>2. CASE FirstPull(d, e)
      <3> DEFINE x == [l EXCEPT !.pulling = FALSE]
      <3>1. /\ x \in Replication /\ x.docs \subseteq x.batch
            /\ (~ x.live => x.batch = {}) /\ x.batch = l.batch
        BY <1>1 DEF Replication
      <3>2. link' = [link EXCEPT ![d][e] = x]
        BY <2>2 DEF FirstPull, TypeOK
      <3> QED BY <3>1, <3>2
    <2>3. CASE Disconnect(d, e) \/ PullWritesRemoval(d, e)
      <3> DEFINE x == [l EXCEPT !.live = FALSE, !.batch = {}, !.docs = {}]
      <3>1. x \in Replication /\ x.docs = {} /\ x.batch = {}
        BY <1>1 DEF Replication
      <3> QED BY <3>1, <2>3 DEF Disconnect, PullWritesRemoval
    <2>4. CASE PullWrites(d, e)
      <3> DEFINE x == [l EXCEPT !.batch = {}, !.docs = {}]
      <3>1. x \in Replication /\ x.docs = {} /\ x.batch = {}
        BY <1>1 DEF Replication
      <3> QED BY <3>1, <2>4 DEF PullWrites
    <2>5. CASE PullReads(d, e)
      <3> DEFINE missing == Leaves(has[e]) \ has[d]
                 x == [l EXCEPT !.batch = has[e], !.docs = missing]
      <3>1. has[e] \subseteq Rev /\ missing \subseteq has[e] /\ l.live
        BY <2>5 DEF PullReads, Leaves, TypeOK
      <3>2. x \in Replication /\ x.docs \subseteq x.batch /\ x.live /\ x.batch = has[e]
        BY <1>1, <3>1 DEF Replication
      <3> QED BY <3>2, <2>5 DEF PullReads
    <2>6. CASE Push(d, e)
      BY <2>6 DEF Push
    <2> QED BY <2>1, <2>2, <2>3, <2>4, <2>5, <2>6 DEF SyncStep
  <1>6. /\ link' \in [Device -> [Device -> Replication]]
        /\ \A a, b \in Device :
             /\ link'[a][b].docs \subseteq link'[a][b].batch
             /\ ~ link'[a][b].live => link'[a][b].batch = {}
             /\ \A r \in link'[a][b].batch : Made(r)
    <2>1. CASE UNCHANGED link
      BY <2>1 DEF TypeOK, SyncInv, HoldsMade
    <2>2. CASE ~ UNCHANGED link
      <3>1. PICK x \in Replication :
             /\ x.docs \subseteq x.batch /\ (~ x.live => x.batch = {})
             /\ x.batch \in {{}, l.batch, has[e]}
             /\ link' = [link EXCEPT ![d][e] = x]
        BY <1>5, <2>2
      <3>2. \A r \in x.batch : Made(r)
        BY <3>1 DEF SyncInv, HoldsMade
      <3>3. /\ link' \in [Device -> [Device -> Replication]]
            /\ \A a, b \in Device :
                 /\ link'[a][b].docs \subseteq link'[a][b].batch
                 /\ ~ link'[a][b].live => link'[a][b].batch = {}
                 /\ link'[a][b].batch \subseteq link[a][b].batch \cup x.batch
        BY <3>1, LinkInv
      <3> QED BY <3>2, <3>3 DEF SyncInv, HoldsMade
    <2> QED BY <2>1, <2>2
  <1>7. SyncInv'
    BY <1>2, <1>4, <1>6, CopiedInv
  <1> QED BY <1>2, <1>3, <1>4, <1>6, <1>7 DEF TypeOK

\* A process that ends forgets what it was doing, and keeps its database.
LEMMA RestartInv ==
  ASSUME TypeOK, SyncInv, NEW d \in Device, Restart(d)
  PROVE  TypeOK' /\ SyncInv'
  <1>1. UNCHANGED <<vaultOf, revision, has>> /\ rejecting' \in [Device -> SUBSET Rev]
    BY DEF Restart, TypeOK
  <1>2. IdleCall \in CallState /\ IdleCall.pc = "idle" /\ IdleCall.device = None
    BY DEF IdleCall, CallState
  <1>3. /\ call' \in [Call -> CallState]
        /\ \A c \in Call : call'[c].pc = "idle" <=> call'[c].device = None
    BY <1>2 DEF Restart, TypeOK
  <1>4. /\ NoReplication \in Replication
        /\ NoReplication.docs = {} /\ NoReplication.batch = {}
    BY DEF Replication, NoReplication
  <1>5. /\ link' \in [Device -> [Device -> Replication]]
        /\ \A a, b \in Device :
             /\ link'[a][b].docs \subseteq link'[a][b].batch
             /\ ~ link'[a][b].live => link'[a][b].batch = {}
             /\ \A r \in link'[a][b].batch : Made(r)
    BY <1>4 DEF Restart, TypeOK, SyncInv, HoldsMade
  <1>6. SyncInv'
    BY <1>1, <1>5 DEF SyncInv, HoldsMade, KeepsOwn, OneSuccessorPerDevice, Made
  <1> QED BY <1>1, <1>3, <1>5, <1>6 DEF TypeOK

-----------------------------------------------------------------------------

\* Every step keeps the invariant.
LEMMA StepInv == TypeOK /\ SyncInv /\ [Next]_vars => TypeOK' /\ SyncInv'
  <1> SUFFICES ASSUME TypeOK, SyncInv, [Next]_vars PROVE TypeOK' /\ SyncInv'
    OBVIOUS
  <1>1. ASSUME NEW c \in Call, NEW d \in Device, GetRevision(c, d) PROVE TypeOK' /\ SyncInv'
    BY <1>1, GetRevisionInv
  <1>2. ASSUME NEW c \in Call, CallStep(c) PROVE TypeOK' /\ SyncInv'
    BY <1>2, CheckInv, PutInv DEF CallStep
  <1>3. ASSUME NEW d \in Device, NEW e \in Device,
               Connect(d, e) \/ FirstPull(d, e) \/ Disconnect(d, e) \/ SyncStep(d, e)
        PROVE  TypeOK' /\ SyncInv'
    BY <1>3, CopyInv
  <1>4. ASSUME NEW d \in Device, NEW r \in Rev, Reject(d, r) PROVE TypeOK' /\ SyncInv'
    BY <1>4, RejectInv
  <1>5. ASSUME NEW d \in Device, Restart(d) PROVE TypeOK' /\ SyncInv'
    BY <1>5, RestartInv
  <1>6. CASE UNCHANGED vars
    BY <1>6 DEF vars, TypeOK, SyncInv, HoldsMade, KeepsOwn, OneSuccessorPerDevice, Made
  <1> QED BY <1>1, <1>2, <1>3, <1>4, <1>5, <1>6 DEF Next

\* setContent never writes on top of what it did not see (VaultDatabase.ts,
\* 54-73): a device makes at most one revision on top of each, writes and
\* removals counted, whatever replication brings in between; and the state is
\* well typed.  The step needs that a device keeps what it made, so that a
\* leaf of its database has no successor of its own elsewhere.
THEOREM WritesSeeWhatTheyReplace == Spec => [](TypeOK /\ OneSuccessorPerDevice)
  <1>1. TypeOK /\ SyncInv => TypeOK /\ OneSuccessorPerDevice
    BY DEF SyncInv
  <1> QED BY <1>1, InitInv, StepInv, PTL DEF Spec

-----------------------------------------------------------------------------
\* Where all copies are of one vault, the check of pulled changes (connection.ts,
\* 73-74) passes all of them.

OneVault == \A d, e \in Device : vaultOf[d] = vaultOf[e]

NothingRemoved ==
  OneVault =>
    \A d \in Device :
      /\ rejecting[d] = {}
      /\ \A r \in Rev : Made(r) => revision[r].vault = vaultOf[d]

\* What a pull carries is signed for the one vault there is.
LEMMA NothingForeign ==
  ASSUME TypeOK, SyncInv, NothingRemoved, OneVault, NEW d \in Device, NEW e \in Device
  PROVE  Foreign(d, link[d][e].docs) = {}
  <1>1. link[d][e].docs \subseteq Rev /\ \A r \in link[d][e].docs : Made(r)
    BY DEF TypeOK, Replication, SyncInv, HoldsMade
  <1> QED BY <1>1 DEF NothingRemoved, Foreign

\* The copies of one vault never reject each other's writes, so no revision is a
\* removal and no sync ends on one.
THEOREM OneVaultRemovesNothing == Spec => []NothingRemoved
  <1>1. Init => TypeOK /\ SyncInv /\ NothingRemoved
    BY InitInv DEF Init, NothingRemoved, Made
  <1>2. TypeOK /\ SyncInv /\ NothingRemoved /\ [Next]_vars => NothingRemoved'
    <2> SUFFICES ASSUME TypeOK, SyncInv, NothingRemoved, [Next]_vars, OneVault',
                        NEW d \in Device
                 PROVE  /\ rejecting'[d] = {}
                        /\ \A r \in Rev : Made(r)' => revision'[r].vault = vaultOf'[d]
      BY DEF NothingRemoved
    <2>1. UNCHANGED vaultOf
      BY DEF Next, vars, GetRevision, CallStep, Check, CheckFails, Put, PutFails, Connect,
             FirstPull, Disconnect, SyncStep, Push, PullReads, PullWrites, PullWritesRemoval,
             Reject, Restart
    <2>2. /\ OneVault
          /\ \A a \in Device : rejecting[a] = {}
          /\ \A r \in Rev : Made(r) => revision[r].vault = vaultOf[d]
      BY <2>1 DEF NothingRemoved, OneVault
    <2>3. ASSUME NEW c \in Call, Put(c)
          PROVE  /\ rejecting'[d] = {}
                 /\ \A r \in Rev : Made(r)' => revision'[r].vault = vaultOf'[d]
      <3>1. PICK p : NewRevision(call[c].device, p, vaultOf[call[c].device])
        BY <2>3 DEF Put
      <3>2. call[c].device \in Device /\ UNCHANGED rejecting
        BY <2>3 DEF Put, TypeOK, CallState
      <3>3. vaultOf[call[c].device] = vaultOf[d]
        BY <2>2, <3>2 DEF OneVault
      <3> QED BY <2>1, <2>2, <3>1, <3>2, <3>3 DEF NewRevision, Made, TypeOK
    <2>4. ASSUME NEW a \in Device, NEW e \in Device, SyncStep(a, e)
          PROVE  UNCHANGED revision /\ rejecting'[d] = {}
      <3>1. Foreign(a, link[a][e].docs) = {}
        BY <2>2, NothingForeign
      <3>2. rejecting \in [Device -> SUBSET Rev] /\ rejecting[a] = {} /\ rejecting[d] = {}
        BY <2>2 DEF TypeOK
      <3>3. CASE Push(a, e) \/ PullReads(a, e)
        BY <3>2, <3>3 DEF Push, PullReads
      <3>4. CASE PullWrites(a, e)
        BY <3>1, <3>2, <3>4 DEF PullWrites
      <3>5. CASE PullWritesRemoval(a, e)
        <4>1. PICK checked \in SUBSET Foreign(a, link[a][e].docs) :
                rejecting' = [rejecting EXCEPT ![a] = @ \cup checked]
          BY <3>5 DEF PullWritesRemoval
        <4>2. checked = {}
          BY <3>1, <4>1
        <4> QED BY <3>2, <3>5, <4>1, <4>2 DEF PullWritesRemoval
      <3> QED BY <2>4, <3>3, <3>4, <3>5 DEF SyncStep
    <2>5. ASSUME NEW a \in Device, NEW r \in Rev, Reject(a, r) PROVE FALSE
      BY <2>2, <2>5 DEF Reject
    <2>6. ASSUME NEW a \in Device, Restart(a) PROVE UNCHANGED revision /\ rejecting'[d] = {}
      BY <2>2, <2>6 DEF Restart, TypeOK
    <2>7. ASSUME NEW c \in Call,
                 Check(c) \/ CheckFails(c) \/ PutFails(c) \/ \E a \in Device : GetRevision(c, a)
          PROVE  UNCHANGED <<revision, rejecting>>
      BY <2>7 DEF Check, CheckFails, PutFails, GetRevision
    <2>8. ASSUME NEW a \in Device, NEW e \in Device,
                 Connect(a, e) \/ FirstPull(a, e) \/ Disconnect(a, e)
          PROVE  UNCHANGED <<revision, rejecting>>
      BY <2>8 DEF Connect, FirstPull, Disconnect
    <2>9. UNCHANGED revision /\ rejecting'[d] = {} =>
            \A r \in Rev : Made(r)' => revision'[r].vault = vaultOf'[d]
      BY <2>1, <2>2 DEF Made
    <2>10. CASE UNCHANGED vars
      BY <2>2, <2>9, <2>10 DEF vars
    <2> QED BY <2>2, <2>3, <2>4, <2>5, <2>6, <2>7, <2>8, <2>9, <2>10 DEF Next, CallStep
  <1>3. TypeOK /\ SyncInv /\ [Next]_vars => TypeOK' /\ SyncInv'
    BY StepInv
  <1> QED BY <1>1, <1>2, <1>3, PTL DEF Spec

-----------------------------------------------------------------------------
\* What a step does to the revisions and the databases, whichever it is.

\* With every revision, S has the one it replaced.
Closed(S) == \A r \in S : revision[r].parent # None => revision[r].parent \in S

Histories ==
  \A d \in Device :
    /\ Closed(has[d])
    /\ \A e \in Device : Closed(link[d][e].batch)

\* A revision replaces one that was made, and comes a generation later.
Generations ==
  \A r \in Rev : Made(r) /\ revision[r].parent # None =>
    LET p == revision[r].parent
    IN  Made(p) /\ revision[r].gen = revision[p].gen + 1

\* Device d writes on top of a leaf, or into an empty database.
Writes(d) ==
  /\ UNCHANGED link
  /\ \E p \in Leaves(has[d]) \cup {q \in {None} : has[d] = {}}, v \in Vault \cup {None} :
       NewRevision(d, p, v)

\* Device d comes to hold more of what was made, in whole branches.
Receives(d) ==
  /\ UNCHANGED revision
  /\ \E S \in SUBSET Rev :
       /\ has[d] \subseteq S /\ Closed(S) /\ \A r \in S : Made(r)
       /\ has' = [has EXCEPT ![d] = S]

\* A batch that was read is written whole or not at all, or a new one is read.
LEMMA BatchesAreRead ==
  ASSUME TypeOK, [Next]_vars
  PROVE  \A a, b \in Device : link'[a][b].batch \in {link[a][b].batch, {}, has[b]}
  <1>1. link \in [Device -> [Device -> Replication]]
    BY DEF TypeOK
  <1>2. UNCHANGED link => \A a, b \in Device : link'[a][b].batch \in {link[a][b].batch, {}, has[b]}
    OBVIOUS
  <1>3. ASSUME NEW d \in Device, NEW e \in Device,
               Connect(d, e) \/ FirstPull(d, e) \/ Disconnect(d, e) \/ SyncStep(d, e)
        PROVE  \A a, b \in Device : link'[a][b].batch \in {link[a][b].batch, {}, has[b]}
    <2> DEFINE l == link[d][e]
    <2>1. l \in Replication
      BY <1>1
    <2>2. \/ UNCHANGED link
          \/ \E x \in Replication :
               x.batch \in {l.batch, {}, has[e]} /\ link' = [link EXCEPT ![d][e] = x]
      <3>1. CASE Connect(d, e)
        <4> DEFINE x == [l EXCEPT !.live = TRUE, !.pulling = TRUE]
        <4>1. x \in Replication /\ x.batch = l.batch /\ link' = [link EXCEPT ![d][e] = x]
          BY <2>1, <3>1 DEF Connect, Replication
        <4> HIDE DEF x
        <4> QED BY <4>1
      <3>2. CASE FirstPull(d, e)
        <4> DEFINE x == [l EXCEPT !.pulling = FALSE]
        <4>1. x \in Replication /\ x.batch = l.batch /\ link' = [link EXCEPT ![d][e] = x]
          BY <1>1, <2>1, <3>2 DEF FirstPull, Replication
        <4> HIDE DEF x
        <4> QED BY <4>1
      <3>3. CASE Disconnect(d, e) \/ PullWritesRemoval(d, e)
        <4> DEFINE x == [l EXCEPT !.live = FALSE, !.batch = {}, !.docs = {}]
        <4>1. x \in Replication /\ x.batch = {} /\ link' = [link EXCEPT ![d][e] = x]
          BY <2>1, <3>3 DEF Disconnect, PullWritesRemoval, Replication
        <4> HIDE DEF x
        <4> QED BY <4>1
      <3>4. CASE PullWrites(d, e)
        <4> DEFINE x == [l EXCEPT !.batch = {}, !.docs = {}]
        <4>1. x \in Replication /\ x.batch = {} /\ link' = [link EXCEPT ![d][e] = x]
          BY <2>1, <3>4 DEF PullWrites, Replication
        <4> HIDE DEF x
        <4> QED BY <4>1
      <3>5. CASE PullReads(d, e)
        <4> DEFINE x == [l EXCEPT !.batch = has[e], !.docs = Leaves(has[e]) \ has[d]]
        <4>1. x \in Replication /\ x.batch = has[e] /\ link' = [link EXCEPT ![d][e] = x]
          BY <2>1, <3>5 DEF PullReads, Replication, TypeOK, Leaves
        <4> HIDE DEF x
        <4> QED BY <4>1
      <3>6. CASE Push(d, e)
        BY <3>6 DEF Push
      <3> QED BY <1>3, <3>1, <3>2, <3>3, <3>4, <3>5, <3>6 DEF SyncStep
    <2> QED BY <1>1, <2>2
  <1>4. ASSUME NEW d \in Device, Restart(d)
        PROVE  \A a, b \in Device : link'[a][b].batch \in {link[a][b].batch, {}, has[b]}
    BY <1>1, <1>4 DEF Restart, NoReplication
  <1>5. UNCHANGED link \/ (\E d, e \in Device : Connect(d, e) \/ FirstPull(d, e)
          \/ Disconnect(d, e) \/ SyncStep(d, e)) \/ \E d \in Device : Restart(d)
    BY DEF Next, vars, GetRevision, CallStep, Check, CheckFails, Put, PutFails, Reject
  <1> QED BY <1>2, <1>3, <1>4, <1>5

LEMMA PutWrites ==
  ASSUME TypeOK, NEW c \in Call, Put(c)
  PROVE  \E d \in Device : Writes(d)
  <1> DEFINE d == call[c].device
  <1>1. d \in Device
    BY DEF Put, TypeOK, CallState
  <1>2. PICK p \in Replaceable(d, call[c].rev) : NewRevision(d, p, vaultOf[d])
    BY DEF Put
  <1>3. UNCHANGED link /\ vaultOf[d] \in Vault
    BY <1>1 DEF Put, TypeOK
  <1> HIDE DEF d
  <1>4. p \in Leaves(has[d]) \cup {q \in {None} : has[d] = {}}
    BY <1>2 DEF Replaceable, Preferred
  <1> QED BY <1>1, <1>2, <1>3, <1>4 DEF Writes

LEMMA RejectWritesOrReceives ==
  ASSUME TypeOK, SyncInv, Histories, NEW d \in Device, NEW r \in Rev, Reject(d, r)
  PROVE  UNCHANGED <<revision, has>> \/ Writes(d) \/ Receives(d)
  <1>1. CASE UNCHANGED <<revision, has>>
    BY <1>1
  <1>2. CASE /\ UNCHANGED revision
             /\ r \in Leaves(has[d])
             /\ \E t \in Rev : /\ Made(t) /\ Removal(t) /\ revision[t].parent = r
                               /\ has' = [has EXCEPT ![d] = @ \cup {t}]
    <2>1. PICK t \in Rev : /\ Made(t) /\ revision[t].parent = r
                           /\ has' = [has EXCEPT ![d] = @ \cup {t}]
      BY <1>2
    <2> DEFINE S == has[d] \cup {t}
    <2>2. S \in SUBSET Rev /\ has' = [has EXCEPT ![d] = S]
      BY <2>1 DEF TypeOK
    <2>3. Closed(S) /\ \A s \in S : Made(s)
      BY <1>2, <2>1 DEF Leaves, Closed, Histories, SyncInv, HoldsMade
    <2> HIDE DEF S
    <2>4. has[d] \subseteq S
      BY DEF S
    <2> QED BY <1>2, <2>2, <2>3, <2>4 DEF Receives
  <1>3. CASE r \in Leaves(has[d]) /\ NewRevision(d, r, None)
    BY <1>3 DEF Writes, Reject
  <1> QED BY <1>1, <1>2, <1>3 DEF Reject

LEMMA CopyReceives ==
  ASSUME TypeOK, SyncInv, Histories, NEW d \in Device, NEW e \in Device,
         Connect(d, e) \/ FirstPull(d, e) \/ Disconnect(d, e) \/ SyncStep(d, e)
  PROVE  UNCHANGED <<revision, has>> \/ Receives(d) \/ Receives(e)
  <1>1. UNCHANGED revision
    BY DEF Connect, FirstPull, Disconnect, SyncStep, Push, PullReads, PullWrites, PullWritesRemoval
  <1>2. \/ has' = has
        \/ has' = [has EXCEPT ![d] = @ \cup has[e]]
        \/ has' = [has EXCEPT ![e] = @ \cup has[d]]
        \/ has' = [has EXCEPT ![d] = @ \cup link[d][e].batch]
    BY DEF Connect, FirstPull, Disconnect, SyncStep, Push, PullReads, PullWrites, PullWritesRemoval
  <1>3. ASSUME NEW a \in Device, NEW X \in SUBSET Rev, Closed(X), \A r \in X : Made(r),
               has' = [has EXCEPT ![a] = @ \cup X]
        PROVE  Receives(a)
    <2> DEFINE S == has[a] \cup X
    <2>1. S \in SUBSET Rev /\ has' = [has EXCEPT ![a] = S] /\ has[a] \subseteq S
      BY <1>3 DEF TypeOK
    <2>2. Closed(S) /\ \A r \in S : Made(r)
      BY <1>3 DEF Closed, Histories, SyncInv, HoldsMade
    <2> HIDE DEF S
    <2> QED BY <1>1, <2>1, <2>2 DEF Receives
  <1>4. /\ has[d] \in SUBSET Rev /\ has[e] \in SUBSET Rev /\ link[d][e].batch \in SUBSET Rev
        /\ Closed(has[d]) /\ Closed(has[e]) /\ Closed(link[d][e].batch)
        /\ \A r \in has[d] \cup has[e] \cup link[d][e].batch : Made(r)
    BY DEF TypeOK, Replication, Histories, SyncInv, HoldsMade
  <1> QED BY <1>1, <1>2, <1>3, <1>4

\* Whatever happens, a device writes, receives, or neither.
LEMMA StepEffect ==
  ASSUME TypeOK, SyncInv, Histories, [Next]_vars
  PROVE  UNCHANGED <<revision, has>> \/ \E d \in Device : Writes(d) \/ Receives(d)
  <1>1. ASSUME NEW c \in Call, Put(c) PROVE \E d \in Device : Writes(d)
    BY <1>1, PutWrites
  <1>2. ASSUME NEW d \in Device, NEW r \in Rev, Reject(d, r)
        PROVE  UNCHANGED <<revision, has>> \/ Writes(d) \/ Receives(d)
    BY <1>2, RejectWritesOrReceives
  <1>3. ASSUME NEW d \in Device, NEW e \in Device,
               Connect(d, e) \/ FirstPull(d, e) \/ Disconnect(d, e) \/ SyncStep(d, e)
        PROVE  UNCHANGED <<revision, has>> \/ Receives(d) \/ Receives(e)
    BY <1>3, CopyReceives
  <1>4. \/ UNCHANGED <<revision, has>>
        \/ \E c \in Call : Put(c)
        \/ \E d \in Device, r \in Rev : Reject(d, r)
        \/ \E d, e \in Device :
             Connect(d, e) \/ FirstPull(d, e) \/ Disconnect(d, e) \/ SyncStep(d, e)
    BY DEF Next, vars, GetRevision, CallStep, Check, CheckFails, PutFails, Restart
  <1> QED BY <1>1, <1>2, <1>3, <1>4

\* A revision that is made is one of its device, on top of what that holds, and
\* nothing else changes.
LEMMA WriteMakes ==
  ASSUME TypeOK, SyncInv, NEW d \in Device, Writes(d)
  PROVE  \E r \in Rev, p \in Leaves(has[d]) \cup {q \in {None} : has[d] = {}} :
           /\ ~ Made(r) /\ (p # None => p \in Rev /\ Made(p) /\ p # r)
           /\ revision'[r] # NoRevision
           /\ revision'[r].parent = p /\ revision'[r].by = d
           /\ p # None => revision'[r].gen = revision[p].gen + 1
           /\ \A s \in Rev \ {r} : revision'[s] = revision[s]
           /\ has' = [has EXCEPT ![d] = @ \cup {r}]
  <1>1. PICK p \in Leaves(has[d]) \cup {q \in {None} : has[d] = {}}, v \in Vault \cup {None} :
          NewRevision(d, p, v)
    BY DEF Writes
  <1> DEFINE g == IF p = None THEN 1 ELSE revision[p].gen + 1
             new == [parent |-> p, gen |-> g, vault |-> v, by |-> d]
  <1>2. PICK r \in Rev : /\ ~ Made(r)
                         /\ revision' = [revision EXCEPT ![r] = new]
                         /\ has' = [has EXCEPT ![d] = @ \cup {r}]
    BY <1>1 DEF NewRevision
  <1>3. /\ new.parent = p /\ new.by = d /\ (p # None => new.gen = revision[p].gen + 1)
        /\ new # NoRevision
    BY RevisionIsSomething
  <1> HIDE DEF new
  <1>4. revision'[r] = new /\ \A s \in Rev \ {r} : revision'[s] = revision[s]
    BY <1>2 DEF TypeOK
  <1>5. p # None => p \in has[d]
    BY <1>1 DEF Leaves
  <1>6. p # None => p \in Rev /\ Made(p) /\ p # r
    BY <1>2, <1>5 DEF TypeOK, SyncInv, HoldsMade
  <1> QED BY <1>1, <1>2, <1>3, <1>4, <1>6

HistoryInv == Generations /\ Histories

\* The branches stay whole, and their generations in order.
LEMMA StepHistory == TypeOK /\ SyncInv /\ HistoryInv /\ [Next]_vars => HistoryInv'
  <1> SUFFICES ASSUME TypeOK, SyncInv, Generations, Histories, [Next]_vars
               PROVE  Generations' /\ Histories'
    BY DEF HistoryInv
  <1>1. \A a, b \in Device : link'[a][b].batch \in {link[a][b].batch, {}, has[b]}
    BY BatchesAreRead
  <1>2. \A a, b \in Device : Closed(link'[a][b].batch)
    BY <1>1 DEF Closed, Histories
  <1>3. CASE UNCHANGED revision /\ \A d \in Device : Closed(has'[d])
    BY <1>2, <1>3 DEF Generations, Histories, Closed, Made
  <1>4. CASE UNCHANGED <<revision, has>>
    BY <1>3, <1>4 DEF Histories
  <1>5. ASSUME NEW d \in Device, Receives(d) PROVE Generations' /\ Histories'
    BY <1>3, <1>5 DEF Receives, Histories, TypeOK
  <1>6. ASSUME NEW d \in Device, Writes(d) PROVE Generations' /\ Histories'
    <2>1. PICK r \in Rev, p \in Leaves(has[d]) \cup {q \in {None} : has[d] = {}} :
           /\ ~ Made(r) /\ (p # None => p \in Rev /\ Made(p) /\ p # r)
           /\ revision'[r] # NoRevision
           /\ revision'[r].parent = p
           /\ p # None => revision'[r].gen = revision[p].gen + 1
           /\ \A s \in Rev \ {r} : revision'[s] = revision[s]
           /\ has' = [has EXCEPT ![d] = @ \cup {r}]
      BY <1>6, WriteMakes
    <2>2. \A s \in Rev : Made(s) => s # r
      BY <2>1
    <2>3. ASSUME NEW s \in Rev, revision'[s] # NoRevision,
                 NEW q, q = revision'[s].parent, q # None
          PROVE  revision'[q] # NoRevision /\ revision'[s].gen = revision'[q].gen + 1
      <3>1. CASE s = r
        BY <2>1, <2>3, <3>1 DEF Made
      <3>2. CASE s # r
        <4>1. Made(s) /\ revision'[s] = revision[s] /\ revision[s] \in Revision
          BY <2>1, <2>3, <3>2 DEF Made, TypeOK
        <4>2. q \in Rev /\ Made(q) /\ revision[s].gen = revision[q].gen + 1
          BY <2>3, <4>1 DEF Generations, Revision
        <4> QED BY <2>1, <2>2, <4>1, <4>2 DEF Made
      <3> QED BY <3>1, <3>2
    <2>4. Generations'
      BY <2>3 DEF Generations, Made
    <2>5. ASSUME NEW S \in SUBSET Rev, Closed(S), \A s \in S : Made(s), NEW s \in S,
                 revision'[s].parent # None
          PROVE  revision'[s].parent \in S
      <3>1. revision'[s] = revision[s]
        BY <2>1, <2>2, <2>5
      <3> QED BY <2>5, <3>1 DEF Closed
    <2>6. \A a \in Device : \A s \in has'[a] : revision'[s].parent # None => revision'[s].parent \in has'[a]
      <3> SUFFICES ASSUME NEW a \in Device, NEW s \in has'[a], revision'[s].parent # None
                   PROVE  revision'[s].parent \in has'[a]
        OBVIOUS
      <3>1. has[a] \in SUBSET Rev /\ Closed(has[a]) /\ \A t \in has[a] : Made(t)
        BY DEF TypeOK, Histories, SyncInv, HoldsMade
      <3>2. has[a] \subseteq has'[a] /\ (s \in has[a] \/ (a = d /\ s = r))
        BY <2>1 DEF TypeOK
      <3>3. CASE s \in has[a]
        BY <2>5, <3>1, <3>2, <3>3
      <3>4. CASE a = d /\ s = r
        BY <2>1, <3>2, <3>4 DEF Leaves
      <3> QED BY <3>2, <3>3, <3>4
    <2>7. \A a, b \in Device : \A s \in link'[a][b].batch :
            revision'[s].parent # None => revision'[s].parent \in link'[a][b].batch
      <3> SUFFICES ASSUME NEW a \in Device, NEW b \in Device
                   PROVE  \A s \in link[a][b].batch :
                            revision'[s].parent # None => revision'[s].parent \in link[a][b].batch
        BY <1>6 DEF Writes
      <3>1. /\ link[a][b].batch \in SUBSET Rev /\ Closed(link[a][b].batch)
            /\ \A t \in link[a][b].batch : Made(t)
        BY DEF TypeOK, Replication, Histories, SyncInv, HoldsMade
      <3> QED BY <2>5, <3>1
    <2> QED BY <2>4, <2>6, <2>7 DEF Histories, Closed
  <1> QED BY <1>4, <1>5, <1>6, StepEffect

LEMMA InitHistory == Init => HistoryInv
  BY DEF Init, HistoryInv, Generations, Histories, Closed, Made, NoReplication

-----------------------------------------------------------------------------
\* Which revision is read, where nothing is removed.

\* The order is total on what was made.
LEMMA BetterIsTotal ==
  ASSUME TypeOK, NEW S \in SUBSET Rev, \A r \in S : Made(r)
  PROVE  /\ \A r, s \in S : r # s => Better(r, s) \/ Better(s, r)
         /\ \A r, s, t \in S : Better(r, s) /\ Better(s, t) => Better(r, t)
  <1>1. S \subseteq Nat /\ \A r \in S : revision[r].gen \in Nat
    BY DEF TypeOK, Made, Revision, Rev
  <1> QED BY <1>1 DEF Better

\* Of some revisions there is one that is preferred: a set of revisions without
\* one has a least subset without one, which has a preferred revision as soon as
\* any of its revisions is taken away.
LEMMA SomeIsPreferred ==
  ASSUME TypeOK, NEW S \in SUBSET Rev, S # {}, \A r \in S : Made(r)
  PROVE  Preferred(S) # {}
  <1> DEFINE Lacking == {U \in SUBSET S : U # {} /\ Preferred(U) = {}}
  <1> SUFFICES ASSUME Preferred(S) = {} PROVE FALSE
    OBVIOUS
  <1>1. IsFiniteSet(Rev) /\ IsFiniteSet(S)
    <2>1. IsFiniteSet(1..MaxRev)
      BY ConstantsAssumption, FS_Interval
    <2> QED BY <2>1, FS_Subset DEF Rev
  <1>2. IsWellFoundedOn(StrictSubsetOrdering(S), SUBSET S)
    BY <1>1, FS_StrictSubsetOrderingWellFounded, FS_FiniteSubsetsOfFinite
  <1>3. PICK U \in Lacking : \A V \in Lacking : <<V, U>> \notin StrictSubsetOrdering(S)
    <2>1. Lacking \subseteq SUBSET S /\ Lacking # {}
      OBVIOUS
    <2> HIDE DEF Lacking
    <2> QED BY <1>2, <2>1, WFMin
  <1>4. PICK x \in U : TRUE
    BY <1>3
  <1>5. <<U \ {x}, U>> \in StrictSubsetOrdering(S)
    BY <1>3, <1>4 DEF StrictSubsetOrdering
  <1>6. U \ {x} \notin Lacking
    BY <1>3, <1>5
  <1>7. CASE U \ {x} = {}
    <2>1. x \in Preferred(U)
      BY <1>4, <1>7 DEF Preferred
    <2> QED BY <1>3, <2>1
  <1>8. CASE U \ {x} # {}
    <2>1. PICK y \in Preferred(U \ {x}) : TRUE
      BY <1>3, <1>6, <1>8
    <2>2. y \in U \ {x} /\ \A s \in (U \ {x}) \ {y} : Better(y, s)
      BY <2>1 DEF Preferred, Better
    <2>3. U \in SUBSET Rev /\ \A r \in U : Made(r)
      BY <1>3
    <2>4. CASE Better(y, x)
      <3>1. y \in Preferred(U)
        BY <2>2, <2>4 DEF Preferred, Better
      <3> QED BY <1>3, <3>1
    <2>5. CASE Better(x, y)
      <3>1. \A s \in U \ {x} : Better(x, s)
        BY <1>4, <2>2, <2>3, <2>5, BetterIsTotal
      <3>2. x \in Preferred(U)
        BY <1>4, <3>1 DEF Preferred, Better
      <3> QED BY <1>3, <3>2
    <2> QED BY <1>4, <2>2, <2>3, <2>4, <2>5, BetterIsTotal
  <1> QED BY <1>7, <1>8

\* A device that has revisions, none of them a removal, reads the one that is
\* preferred to all others it has: no revision is on top of that one.
LEMMA ReadsThePreferred ==
  ASSUME TypeOK, SyncInv, Generations, NEW d \in Device, has[d] # {},
         \A r \in has[d] : ~ Removal(r)
  PROVE  Content(d) \in Preferred(has[d])
  <1>1. has[d] \in SUBSET Rev /\ \A r \in has[d] : Made(r)
    BY DEF TypeOK, SyncInv, HoldsMade
  <1>2. None \notin Rev
    BY ConstantsAssumption
  <1>3. PICK r \in Preferred(has[d]) : TRUE
    BY <1>1, SomeIsPreferred
  <1>4. r \in has[d] /\ \A s \in has[d] \ {r} : Better(r, s)
    BY <1>3 DEF Preferred
  <1>5. \A s \in has[d] : revision[s].parent # r
    <2> SUFFICES ASSUME NEW s \in has[d], revision[s].parent = r PROVE FALSE
      OBVIOUS
    <2>1. revision[s].gen = revision[r].gen + 1
      BY <1>1, <1>2, <1>4 DEF Generations
    <2>2. revision[s].gen \in Nat /\ revision[r].gen \in Nat
      BY <1>1, <1>4 DEF TypeOK, Made, Revision
    <2>3. s # r
      BY <2>1, <2>2
    <2> QED BY <1>4, <2>1, <2>2, <2>3 DEF Better
  <1>6. r \in Live(d)
    BY <1>4, <1>5 DEF Live, Leaves
  <1>7. Live(d) \subseteq has[d]
    BY DEF Live, Leaves
  <1>8. r \in Preferred(Live(d))
    BY <1>4, <1>6, <1>7 DEF Preferred
  <1>9. Reads(d, Content(d))
    BY <1>1, <1>4, <1>8 DEF Reads, Content
  <1>10. Content(d) \in Preferred(Live(d))
    BY <1>6, <1>9 DEF Reads
  <1> DEFINE c == Content(d)
  <1>11. c \in Live(d) /\ \A s \in Live(d) \ {c} : Better(c, s)
    BY <1>10 DEF Preferred
  <1> HIDE DEF c
  <1>12. c = r
    <2> SUFFICES ASSUME c # r PROVE FALSE
      OBVIOUS
    <2>1. Better(c, r) /\ Better(r, c)
      BY <1>4, <1>6, <1>7, <1>11
    <2>2. /\ r \in Nat /\ c \in Nat
          /\ revision[r].gen \in Nat /\ revision[c].gen \in Nat
      BY <1>1, <1>4, <1>7, <1>11 DEF TypeOK, Made, Revision, Rev
    <2> QED BY <2>1, <2>2 DEF Better
  <1> QED BY <1>3, <1>12 DEF c

\* Without removals: what a device that holds something reads.
ReadsPreferred ==
  OneVault => \A d \in Device : IF has[d] = {} THEN Content(d) = None
                                ELSE Content(d) \in Preferred(has[d])

LEMMA WhatIsRead == TypeOK /\ SyncInv /\ Generations /\ NothingRemoved => ReadsPreferred
  <1> SUFFICES ASSUME TypeOK, SyncInv, Generations, NothingRemoved, OneVault, NEW d \in Device
               PROVE  IF has[d] = {} THEN Content(d) = None ELSE Content(d) \in Preferred(has[d])
    BY DEF ReadsPreferred
  <1>1. CASE has[d] = {}
    <2>1. Live(d) = {}
      BY <1>1 DEF Live, Leaves
    <2>2. \A r : Reads(d, r) <=> r = None
      BY <2>1 DEF Reads, Preferred
    <2> QED BY <1>1, <2>2 DEF Content
  <1>2. CASE has[d] # {}
    <2>1. vaultOf[d] \in Vault /\ None \notin Vault
      BY ConstantsAssumption DEF TypeOK
    <2>2. \A r \in has[d] : r \in Rev /\ Made(r)
      BY DEF TypeOK, SyncInv, HoldsMade
    <2>3. \A r \in has[d] : ~ Removal(r)
      BY <2>1, <2>2 DEF NothingRemoved, Removal
    <2> QED BY <1>2, <2>3, ReadsThePreferred
  <1> QED BY <1>1, <1>2

\* Nothing leaves a database, and a copy stays one of its vault.
LEMMA DatabasesGrow ==
  ASSUME TypeOK, SyncInv, Histories, [Next]_vars
  PROVE  UNCHANGED vaultOf /\ \A d \in Device : has[d] \subseteq has'[d]
  <1>1. UNCHANGED vaultOf
    BY DEF Next, vars, GetRevision, CallStep, Check, CheckFails, Put, PutFails, Connect,
           FirstPull, Disconnect, SyncStep, Push, PullReads, PullWrites, PullWritesRemoval,
           Reject, Restart
  <1>2. has \in [Device -> SUBSET Rev]
    BY DEF TypeOK
  <1>3. ASSUME NEW d \in Device, Writes(d) PROVE \A a \in Device : has[a] \subseteq has'[a]
    BY <1>2, <1>3 DEF Writes, NewRevision
  <1>4. ASSUME NEW d \in Device, Receives(d) PROVE \A a \in Device : has[a] \subseteq has'[a]
    BY <1>2, <1>4 DEF Receives
  <1> QED BY <1>1, <1>3, <1>4, StepEffect

\* Devices that all hold one vault (connection.ts, 66-82) never go back: what is
\* read on one of them is replaced only by what is preferred to it, whatever is
\* written, replicated, cut off and restarted.  No revision is a removal, the
\* order of revisions is total and goes up along each branch, so a device reads
\* the greatest revision that it holds; and nothing leaves a database.
THEOREM ReadsAdvance == Spec => ContentAdvances
  <1>1. Init => TypeOK /\ SyncInv /\ HistoryInv
    BY InitInv, InitHistory
  <1>2. TypeOK /\ SyncInv /\ HistoryInv /\ ReadsPreferred /\ ReadsPreferred' /\ [Next]_vars =>
          [(\A d, e \in Device : vaultOf[d] = vaultOf[e]) =>
             \A d \in Device, r \in Rev :
               Content(d) = r =>
                 (Content(d) \in {q \in Rev : q = r \/ Better(q, r)})']_vars
    <2> SUFFICES ASSUME TypeOK, SyncInv, Histories, ReadsPreferred, ReadsPreferred',
                        [Next]_vars, OneVault,
                        NEW d \in Device, NEW r \in Rev, Content(d) = r
                 PROVE  (Content(d) \in {q \in Rev : q = r \/ Better(q, r)})'
      BY DEF OneVault, HistoryInv
    <2>1. UNCHANGED vaultOf /\ has[d] \subseteq has'[d]
      BY DatabasesGrow
    <2>2. r \in has[d]
      BY ConstantsAssumption DEF ReadsPreferred, Preferred
    <2>3. (Content(d) \in Preferred(has[d]))'
      BY <2>1, <2>2 DEF ReadsPreferred, OneVault
    <2>4. TypeOK'
      BY StepInv
    <2> QED BY <2>1, <2>2, <2>3, <2>4 DEF Preferred, TypeOK
  <1>3. HistoryInv => Generations
    BY DEF HistoryInv
  <1> QED BY <1>1, <1>2, <1>3, StepInv, StepHistory, WhatIsRead,
        OneVaultRemovesNothing, PTL DEF Spec, ContentAdvances

-----------------------------------------------------------------------------
\* What two devices hold that have each other's leaves.

\* Whole branches reach down from their leaves: a revision of E that D lacks is
\* the ancestor of a leaf of E, the preferred one among them of that leaf itself.
LEMMA LeavesCover ==
  ASSUME TypeOK, Generations, NEW D \in SUBSET Rev, NEW E \in SUBSET Rev,
         \A r \in E : Made(r), Closed(D), Leaves(E) \subseteq D
  PROVE  E \subseteq D
  <1> DEFINE lacking == E \ D
  <1> SUFFICES ASSUME lacking # {} PROVE FALSE
    OBVIOUS
  <1>1. lacking \in SUBSET Rev /\ \A r \in lacking : Made(r)
    OBVIOUS
  <1>2. PICK m \in Preferred(lacking) : TRUE
    <2> HIDE DEF lacking
    <2> QED BY <1>1, SomeIsPreferred
  <1>3. m \in lacking /\ \A s \in lacking \ {m} : Better(m, s)
    BY <1>2 DEF Preferred
  <1>4. PICK s \in E : revision[s].parent = m
    BY <1>3 DEF Leaves
  <1>5. m # None
    BY <1>3, ConstantsAssumption
  <1>6. s \in lacking
    BY <1>3, <1>4, <1>5 DEF Closed
  <1>7. revision[s].gen = revision[m].gen + 1
    BY <1>4, <1>5 DEF Generations
  <1>8. revision[s].gen \in Nat /\ revision[m].gen \in Nat
    BY <1>1, <1>3, <1>6 DEF TypeOK, Made, Revision
  <1>9. s # m
    BY <1>7, <1>8
  <1> QED BY <1>3, <1>6, <1>7, <1>8, <1>9 DEF Better

\* Two devices that have each other's leaves have the same document (connection.ts,
\* 57-63: PouchDB asks for leaves alone).  Nothing that happens to a sync, nor a
\* pull or push that is cut off, leaves a database with half a branch.
THEOREM LeavesAreEnough == Spec => []LeavesTellAll
  <1>1. Init => TypeOK /\ SyncInv /\ HistoryInv
    BY InitInv, InitHistory
  <1>2. TypeOK /\ SyncInv /\ HistoryInv => LeavesTellAll
    <2> SUFFICES ASSUME TypeOK, SyncInv, Generations, Histories,
                        NEW d \in Device, NEW e \in Device,
                        Leaves(has[d]) \subseteq has[e], Leaves(has[e]) \subseteq has[d]
                 PROVE  has[d] = has[e]
      BY DEF LeavesTellAll, HistoryInv
    <2>1. \A a \in {d, e} : has[a] \in SUBSET Rev /\ Closed(has[a]) /\ \A r \in has[a] : Made(r)
      BY DEF TypeOK, Histories, SyncInv, HoldsMade
    <2>2. has[e] \subseteq has[d]
      BY <2>1, LeavesCover
    <2>3. has[d] \subseteq has[e]
      BY <2>1, LeavesCover
    <2> QED BY <2>2, <2>3
  <1> QED BY <1>1, <1>2, StepInv, StepHistory, PTL DEF Spec

-----------------------------------------------------------------------------
\* The tree of revisions that the devices share.

LEMMA TreeOf ==
  ASSUME TypeOK, NEW r \in Rev
  PROVE  /\ treeBar[r].parent = revision[r].parent /\ treeBar[r].by = revision[r].by
         /\ Tree!Made(r) <=> Made(r)
  <1>1. revision[r] = NoRevision => treeBar[r] = Tree!NoRevision
    BY DEF treeBar, NoRevision, Tree!NoRevision
  <1>2. Made(r) => treeBar[r].by # None
    BY ConstantsAssumption DEF treeBar, TypeOK, Made, Revision
  <1>3. Tree!NoRevision.by = None
    BY DEF Tree!NoRevision
  <1> QED BY <1>1, <1>2, <1>3 DEF treeBar, Tree!Made, Made

\* To its devices the document is a tree of revisions that only grows
\* (RevisionTree): VaultDatabase.ts, 54-73, writes on top of a leaf, and what
\* connection.ts, 50-92, replicates and removes arrives with whole branches.
THEOREM SyncImplementsTree == Spec => IsRevisionTree
  <1>1. Init => Tree!Init
    BY DEF Init, Tree!Init, treeBar, NoRevision, Tree!NoRevision
  <1>2. TypeOK /\ TypeOK' /\ SyncInv /\ HistoryInv /\ [Next]_vars => [Tree!Next]_Tree!vars
    <2> SUFFICES ASSUME TypeOK, TypeOK', SyncInv, Histories, [Next]_vars
                 PROVE  [Tree!Next]_Tree!vars
      BY DEF HistoryInv
    <2>1. CASE UNCHANGED <<revision, has>>
      BY <2>1 DEF Tree!vars, treeBar
    <2>2. ASSUME NEW d \in Device, Writes(d) PROVE Tree!Write(d)
      <3>1. PICK r \in Rev, p \in Leaves(has[d]) \cup {q \in {None} : has[d] = {}} :
              /\ ~ Made(r)
              /\ revision'[r].parent = p /\ revision'[r].by = d
              /\ \A s \in Rev \ {r} : revision'[s] = revision[s]
              /\ has' = [has EXCEPT ![d] = @ \cup {r}]
        BY <2>2, WriteMakes
      <3>2. Leaves(has[d]) \subseteq Tree!Leaves(has[d])
        BY TreeOf DEF Leaves, Tree!Leaves, TypeOK
      <3>3. treeBar' = [treeBar EXCEPT ![r] = [parent |-> p, by |-> d]]
        BY <3>1 DEF treeBar
      <3>4. ~ Tree!Made(r)
        BY <3>1, TreeOf
      <3> QED BY <3>1, <3>2, <3>3, <3>4 DEF Tree!Write
    <2>3. ASSUME NEW d \in Device, Receives(d) PROVE Tree!Receive(d)
      <3>1. PICK S \in SUBSET Rev :
              /\ has[d] \subseteq S /\ Closed(S) /\ \A r \in S : Made(r)
              /\ has' = [has EXCEPT ![d] = S]
        BY <2>3 DEF Receives
      <3>2. UNCHANGED treeBar
        BY <2>3 DEF Receives, treeBar
      <3>3. Tree!Closed(S) /\ S \in SUBSET {r \in Rev : Tree!Made(r)}
        BY <3>1, TreeOf DEF Closed, Tree!Closed
      <3> QED BY <3>1, <3>2, <3>3 DEF Tree!Receive
    <2> QED BY <2>1, <2>2, <2>3, StepEffect DEF Tree!Next
  <1>3. Init => TypeOK /\ SyncInv /\ HistoryInv
    BY InitInv, InitHistory
  <1> QED BY <1>1, <1>2, <1>3, StepInv, StepHistory, PTL DEF Spec, IsRevisionTree, Tree!Spec
=============================================================================
