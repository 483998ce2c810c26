---------------------------- MODULE RevisionTree ----------------------------
(***************************************************************************)
(* What a replicated document promises, in the terms of its revisions: each *)
(* device holds some of them, with all their ancestors, and loses none.  A   *)
(* device writes on top of a leaf of what it holds, or starts the document   *)
(* where it holds nothing.  It may receive at any time what others hold.     *)
(* Nothing is said of which leaf is read, of what a revision contains, or of *)
(* the calls, syncs and restarts by which all this comes about.              *)
(***************************************************************************)

CONSTANTS
  Device,   \* devices that hold the document
  Rev,      \* revisions that may be made
  None      \* no value

VARIABLES
  tree,   \* revision -> the one it replaced, and who made it
  has     \* device -> the revisions it holds

vars == <<tree, has>>

NoRevision == [parent |-> None, by |-> None]

Made(r) == tree[r] # NoRevision

\* With every revision, S has the one it replaced.
Closed(S) == \A r \in S : tree[r].parent # None => tree[r].parent \in S

Leaves(S) == {r \in S : \A s \in S : tree[s].parent # r}

Init ==
  /\ tree = [r \in Rev |-> NoRevision]
  /\ has = [d \in Device |-> {}]

Write(d) ==
  \E r \in Rev, p \in Leaves(has[d]) \cup {q \in {None} : has[d] = {}} :
    /\ ~ Made(r)
    /\ tree' = [tree EXCEPT ![r] = [parent |-> p, by |-> d]]
    /\ has' = [has EXCEPT ![d] = @ \cup {r}]

Receive(d) ==
  \E S \in SUBSET {r \in Rev : Made(r)} :
    /\ has[d] \subseteq S /\ Closed(S)
    /\ has' = [has EXCEPT ![d] = S]
    /\ UNCHANGED tree

Next == \E d \in Device : Write(d) \/ Receive(d)

Spec == Init /\ [][Next]_vars
=============================================================================
