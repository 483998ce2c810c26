---------------------------- MODULE PeerDiscovery ----------------------------
(***************************************************************************)
(* The active peer list of one device: services/activity.ts, and those who   *)
(* call it, the commands, the mDNS browser and POST /link.                   *)
(*                                                                          *)
(* To publish a device is to ask it for its identity, list it, and go on to  *)
(* the devices it lists that the walk has not met yet, which a mask shared   *)
(* by the whole walk remembers.  An answer is compared with the mask before  *)
(* any of it is added: an address that it lists twice is asked twice.  Each  *)
(* device is asked after the one before has been dealt with, so a walk has   *)
(* one request on its way.  Which of those it has yet to ask comes next is   *)
(* left open.                                                               *)
(*                                                                          *)
(* Two loops run over the list itself, which is a Map: a loop that is under  *)
(* way meets the addresses that are added meanwhile, and not those that are  *)
(* removed.  The other devices may answer anything, at any time.             *)
(***************************************************************************)
EXTENDS Naturals

CONSTANTS
  Address,    \* host and port
  PeerId,     \* the ids of the other devices
  Task,       \* calls of the service that may be under way together
  Answer,     \* bound: what a peer may answer, how often it lists each address;
              \* the lists of the service's own devices come from a Map, so at
              \* most once
  None        \* no value

ASSUME NoneAssumption == None \notin Address \cup PeerId
ASSUME AnswerAssumption == Answer \subseteq [Address -> Nat]

VARIABLES
  activePeerList,   \* address -> the id of the device it answered for, or None
  task              \* the calls under way

vars == <<activePeerList, task>>

\* What a call is for: "find" a peer, at one of several addresses; "restore", a
\* POST /link; "republish", the end of a create.
Kind == {"find", "restore", "republish"}

\* A call waits for the answer of the address at.  peer: whom a "restore" is
\* about.  todo: the addresses its own loop has yet to come to.  mask: whom the
\* walk has met.  pending: how often it has yet to ask whom.  told: for the
\* properties, who was sent a POST.
TaskState ==
  [kind : Kind \cup {"idle"}, peer : PeerId \cup {None}, at : Address \cup {None},
   todo : SUBSET Address, mask : SUBSET Address, pending : [Address -> Nat],
   told : SUBSET Address]

Never == [a \in Address |-> 0]

Idle ==
  [kind |-> "idle", peer |-> None, at |-> None, todo |-> {}, mask |-> {},
   pending |-> Never, told |-> {}]

Listed(list) == {a \in Address : list[a] # None}

Init ==
  /\ activePeerList = [a \in Address |-> None]
  /\ task = [t \in Task |-> Idle]

-----------------------------------------------------------------------------
\* The loops of a call.

\* Mutant of Seen: the loops are over a copy of the list.
SeenCopy(k, list) == k

\* A call after the list has changed: the loops over the list notice.
Seen(k, list) ==
  IF k.kind \in {"restore", "republish"}
  THEN [k EXCEPT !.todo =
          (@ \cap Listed(list)) \cup (Listed(list) \ Listed(activePeerList))]
  ELSE k

\* restorePeer passes over the addresses of other devices.
PassedOver(k, list) == {a \in k.todo : k.kind = "restore" /\ list[a] # k.peer}

\* The loop comes to a, having passed over the addresses in skipped: a new walk,
\* or a POST, begins there.
Visit(k, a, skipped) ==
  [k EXCEPT !.at = a, !.todo = @ \ (skipped \cup {a}), !.mask = {}, !.pending = Never]

\* What a loop may come to next.
Loop(k, list) ==
  {n \in {Idle} : k.todo = PassedOver(k, list)}
    \cup UNION {{Visit(k, a, skipped) : a \in k.todo \ PassedOver(k, list)} :
                skipped \in SUBSET PassedOver(k, list)}

\* The walk asks a, whom somebody listed.
Ask(k, a) == [k EXCEPT !.at = a, !.pending[a] = @ - 1]

Pending(k) == {a \in Address : k.pending[a] > 0}

\* What a call does once the answer it waited for is dealt with: it asks the
\* next of the walk; when that is over, its loop goes on.
Continue(k, list) ==
  IF Pending(k) # {} THEN {Ask(k, a) : a \in Pending(k)} ELSE Loop(k, list)

\* The list becomes list, and call t goes on as one of the states in next.
Proceed(t, next, list) ==
  /\ activePeerList' = list
  /\ \E n \in next :
       task' = [u \in Task |-> IF u = t THEN n ELSE Seen(task[u], list)]

-----------------------------------------------------------------------------
\* The calls begin.

\* A peer is looked for at the addresses in S, until one answers.
Find(t, S) ==
  /\ task[t] = Idle
  /\ Proceed(t, Loop([Idle EXCEPT !.kind = "find", !.todo = S], activePeerList),
             activePeerList)

\* onPeerLink, and onVaultLink before it looks for the vault.
Link(t, a) == Find(t, {a})

\* A service is announced, at addresses S.
ServiceUp(t, S) == Find(t, S)

\* POST /link, from a device that says it is p.
PostLink(t, p) ==
  /\ task[t] = Idle
  /\ LET call == [Idle EXCEPT !.kind = "restore", !.peer = p,
                              !.todo = Listed(activePeerList)]
     IN  Proceed(t, Loop(call, activePeerList), activePeerList)

\* A vault was created: the devices listed are told.
Republish(t) ==
  /\ task[t] = Idle
  /\ LET call == [Idle EXCEPT !.kind = "republish", !.todo = Listed(activePeerList)]
     IN  Proceed(t, Loop(call, activePeerList), activePeerList)

-----------------------------------------------------------------------------
\* Answers.

Asking(t) == task[t].kind \in Kind \ {"republish"}

ListedIn(answer) == {a \in Address : answer[a] > 0}

\* Mutant of Hear: nobody looks at the mask.
HearUnmasked(k, answer) ==
  [k EXCEPT !.todo = IF k.kind = "find" THEN {} ELSE @, !.mask = @ \cup ListedIn(answer),
            !.pending = [a \in Address |-> IF answer[a] > 0 THEN answer[a] ELSE @[a]]]

\* The walk hears of the addresses in answer, and is to ask those that are new,
\* each as often as the answer lists it.  A "find" that reached a peer tries no
\* other address.
Hear(k, answer) ==
  [k EXCEPT !.todo = IF k.kind = "find" THEN {} ELSE @, !.mask = @ \cup ListedIn(answer),
            !.pending = [a \in Address |-> IF a \in k.mask THEN @[a] ELSE answer[a]]]

\* Mutant of PeerAnswers: the entry is taken out and put in again, which moves it
\* to the end of the Map.
PeerAnswersReinserted(t) ==
  /\ Asking(t)
  /\ \E p \in PeerId :
       LET list == [activePeerList EXCEPT ![task[t].at] = p]
           call == [Seen(task[t], list) EXCEPT !.todo = @ \cup {task[t].at}]
       IN  Proceed(t, UNION {Continue(k, list) : k \in {Hear(call, answer) : answer \in Answer}},
                   list)

\* A peer answers, with its id and the addresses it lists.  It is listed, and the
\* walk goes on to those it has not met.
PeerAnswers(t) ==
  /\ Asking(t)
  /\ \E p \in PeerId :
       LET list == [activePeerList EXCEPT ![task[t].at] = p]
           call == Seen(task[t], list)
       IN  Proceed(t, UNION {Continue(k, list) : k \in {Hear(call, answer) : answer \in Answer}},
                   list)

\* Nobody answers, or somebody who is no peer, or the device itself.  What was
\* listed at the address stays.
NobodyAnswers(t) ==
  /\ Asking(t)
  /\ Proceed(t, Continue(task[t], activePeerList), activePeerList)

\* An answer that cannot be read (sendLinkRequest rejects) takes the address off
\* the list.
NonsenseAnswers(t) ==
  /\ Asking(t)
  /\ LET list == [activePeerList EXCEPT ![task[t].at] = None]
     IN  Proceed(t, Continue(Seen(task[t], list), list), list)

\* A POST was answered, or failed, which is logged.
PostReturns(t) ==
  /\ task[t].kind = "republish"
  /\ LET told == [task[t] EXCEPT !.told = @ \cup {task[t].at}]
     IN  Proceed(t, Loop(told, activePeerList), activePeerList)

\* Mutant of ServiceDown: loops that run still come to the addresses.
ServiceDownUnseen(S) ==
  /\ activePeerList' = [a \in Address |-> IF a \in S THEN None ELSE activePeerList[a]]
  /\ UNCHANGED task

\* A service leaves, with addresses S.
ServiceDown(S) ==
  /\ activePeerList' = [a \in Address |-> IF a \in S THEN None ELSE activePeerList[a]]
  /\ task' = [t \in Task |-> Seen(task[t], activePeerList')]

\* The process ends, and is started again.
Restart ==
  /\ activePeerList' = [a \in Address |-> None]
  /\ task' = [t \in Task |-> Idle]

-----------------------------------------------------------------------------

Answered(t) == PostReturns(t) \/ NobodyAnswers(t) \/ NonsenseAnswers(t) \/ PeerAnswers(t)

Next ==
  \/ \E t \in Task :
       \/ \E a \in Address : Link(t, a)
       \/ \E S \in SUBSET Address : ServiceUp(t, S)
       \/ \E p \in PeerId : PostLink(t, p)
       \/ Republish(t)
       \/ Answered(t)
  \/ \E S \in SUBSET Address : ServiceDown(S)
  \/ Restart

Spec == Init /\ [][Next]_vars

\* A request is answered in the end, or fails.
FairSpec == Spec /\ \A t \in Task : WF_vars(Answered(t))

-----------------------------------------------------------------------------
\* Properties.

\* The state is well formed: a call waits for an answer, and a loop over the list
\* will come only to what is listed.
TypeOK ==
  /\ activePeerList \in [Address -> PeerId \cup {None}]
  /\ task \in [Task -> TaskState]
  /\ \A t \in Task :
       /\ task[t].kind = "idle" <=> task[t].at = None
       /\ task[t].kind \in {"restore", "republish"} =>
            task[t].todo \subseteq Listed(activePeerList)
       /\ task[t].kind = "idle" => task[t] = Idle

\* Whatever the peers list, in circles or not, a walk asks each address they list
\* as often as the first answer that listed it did (once, if answers list nothing
\* twice): what it has yet to ask becomes less only by asking, and more never,
\* and the walk is not over before.
WalkAsksAsListed ==
  [][\A t \in Task, a \in Address :
       LET k == task[t]
           l == task'[t]
       IN  a \in k.mask =>
             \/ l.pending[a] = k.pending[a] /\ a \in l.mask
             \/ l.pending[a] = k.pending[a] - 1 /\ a \in l.mask /\ l.at = a
             \/ k.pending = Never /\ l.mask = {}
             \/ Restart]_vars

\* A create is answered only after everyone listed then was told of it: who is
\* listed was told, or will be, those included who were listed while the others
\* were told.
PeersAreTold ==
  \A t \in Task : task[t].kind = "republish" =>
    Listed(activePeerList) \subseteq task[t].told \cup task[t].todo \cup {task[t].at}

\* Every link and every announcement comes to an end, whatever else is under way
\* and whatever the peers answer.
EveryWalkEnds ==
  \A t \in Task : task[t].kind = "find" ~> task[t].kind = "idle"

\* Every create and every POST is answered, unless devices leave and come back for
\* ever: then the loops over the list may follow them for ever.
EveryLoopEnds ==
  <>[][Listed(activePeerList) \subseteq Listed(activePeerList')]_vars =>
    \A t \in Task : task[t].kind \in {"restore", "republish"} ~> task[t].kind = "idle"
=============================================================================
