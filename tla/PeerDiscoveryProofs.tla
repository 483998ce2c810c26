------------------------- MODULE PeerDiscoveryProofs -------------------------
(***************************************************************************)
(* Proofs about PeerDiscovery, for any addresses, devices and calls.        *)
(***************************************************************************)
EXTENDS PeerDiscovery, TLAPS

List == [Address -> PeerId \cup {None}]

\* A walk is to ask only whom it has met.
WalkOK(k) == \A a \in Address \ k.mask : k.pending[a] = 0

\* What WalkAsksAsListed says of a call that was k and is l.
Follows(k, l) ==
  \A a \in k.mask :
    \/ l.pending[a] = k.pending[a] /\ a \in l.mask
    \/ l.pending[a] = k.pending[a] - 1 /\ a \in l.mask /\ l.at = a
    \/ k.pending = Never /\ l.mask = {}

\* What holds of a call, given the list.
CallOK(k, list) ==
  /\ k \in TaskState
  /\ k.kind = "idle" <=> k.at = None
  /\ k.kind = "idle" => k = Idle
  /\ k.kind \in {"restore", "republish"} => k.todo \subseteq Listed(list)
  /\ WalkOK(k)
  /\ k.kind = "republish" => k.mask = {}
  /\ k.kind = "republish" => Listed(list) \subseteq k.told \cup k.todo \cup {k.at}

DiscoveryInv ==
  /\ activePeerList \in List
  /\ task \in [Task -> TaskState]
  /\ \A t \in Task : CallOK(task[t], activePeerList)

\* A call whose answer has come: as CallOK, but it waits for nothing.
Resuming(k, list) ==
  /\ k \in TaskState /\ k.kind # "idle"
  /\ k.kind \in {"restore", "republish"} => k.todo \subseteq Listed(list)
  /\ k.kind = "republish" => Listed(list) \subseteq k.told \cup k.todo

-----------------------------------------------------------------------------

\* An idle call is in order.
LEMMA IdleOK == ASSUME NEW list \in List PROVE CallOK(Idle, list)
  BY NoneAssumption DEF CallOK, WalkOK, Idle, TaskState, Kind, Never

\* Whatever a loop comes to next is in order.
LEMMA LoopOK ==
  ASSUME NEW list \in List, NEW k, Resuming(k, list), NEW n \in Loop(k, list)
  PROVE  CallOK(n, list) /\ n.mask = {}
  <1>1. CASE n = Idle
    BY <1>1, IdleOK DEF Idle
  <1>2. CASE n # Idle
    <2>1. PICK skipped \in SUBSET PassedOver(k, list), a \in k.todo \ PassedOver(k, list) :
            n = Visit(k, a, skipped)
      BY <1>2 DEF Loop
    <2>2. a \in Address /\ a # None /\ skipped \subseteq Address
      BY <2>1, NoneAssumption DEF Resuming, TaskState, PassedOver
    <2>3. n \in TaskState
      BY <2>1, <2>2 DEF Visit, Resuming, TaskState, Never
    <2>4. /\ n.kind = k.kind /\ n.at = a /\ n.todo = k.todo \ (skipped \cup {a})
          /\ n.mask = {} /\ n.pending = Never /\ n.told = k.told
      BY <2>1 DEF Visit, Resuming, TaskState
    <2>5. k.kind = "republish" => skipped = {}
      BY <2>1 DEF PassedOver
    <2> QED BY <2>2, <2>3, <2>4, <2>5 DEF CallOK, WalkOK, Resuming, Never
  <1> QED BY <1>1, <1>2

\* Whatever a walk does next is in order, and it follows: h is the call k, with
\* more that it has heard.
LEMMA ContinueOK ==
  ASSUME NEW list \in List, NEW k \in TaskState, NEW h, Resuming(h, list),
         h.kind # "republish", WalkOK(k), WalkOK(h), k.mask \subseteq h.mask,
         \A a \in k.mask : h.pending[a] = k.pending[a],
         NEW n \in Continue(h, list)
  PROVE  CallOK(n, list) /\ Follows(k, n)
  <1>1. CASE Pending(h) # {}
    <2>1. PICK a \in Pending(h) : n = Ask(h, a)
      BY <1>1 DEF Continue
    <2>2. /\ a \in Address /\ a # None /\ h.pending \in [Address -> Nat] /\ h.pending[a] > 0
      BY <2>1, NoneAssumption DEF Resuming, TaskState, Pending
    <2>3. /\ n.kind = h.kind /\ n.at = a /\ n.todo = h.todo /\ n.mask = h.mask
          /\ n.pending = [h.pending EXCEPT ![a] = @ - 1]
      BY <2>1 DEF Ask, Resuming, TaskState
    <2>4. n.pending \in [Address -> Nat] /\ n.pending[a] = h.pending[a] - 1
      BY <2>2, <2>3
    <2>5. n \in TaskState
      BY <2>1, <2>2, <2>3, <2>4 DEF Ask, Resuming, TaskState
    <2>6. a \in h.mask /\ h.mask \subseteq Address
      BY <2>2 DEF WalkOK, Resuming, TaskState
    <2>7. WalkOK(n)
      BY <2>2, <2>3, <2>6 DEF WalkOK
    <2>8. Follows(k, n)
      BY <2>2, <2>3, <2>4, <2>6 DEF Follows, TaskState
    <2> QED BY <2>2, <2>3, <2>5, <2>7, <2>8 DEF CallOK, Resuming
  <1>2. CASE Pending(h) = {}
    <2>1. CallOK(n, list) /\ n.mask = {}
      BY <1>2, LoopOK DEF Continue
    <2>2. \A a \in Address : h.pending[a] = 0
      BY <1>2 DEF Pending, Resuming, TaskState
    <2>3. \A a \in Address : k.pending[a] = 0
      BY <2>2 DEF WalkOK
    <2>4. k.pending = Never
      BY <2>3 DEF Never, TaskState
    <2> QED BY <2>1, <2>4 DEF Follows
  <1> QED BY <1>1, <1>2

\* A call is in order when the list has changed and it has seen that.
LEMMA SeenOK ==
  ASSUME NEW list \in List, NEW k, CallOK(k, activePeerList)
  PROVE  /\ CallOK(Seen(k, list), list)
         /\ Seen(k, list).mask = k.mask /\ Seen(k, list).pending = k.pending
  <1>1. CASE k.kind \notin {"restore", "republish"}
    BY <1>1 DEF Seen, CallOK
  <1>2. CASE k.kind \in {"restore", "republish"}
    <2> DEFINE todo == (k.todo \cap Listed(list)) \cup (Listed(list) \ Listed(activePeerList))
    <2>1. Seen(k, list) = [k EXCEPT !.todo = todo]
      BY <1>2 DEF Seen
    <2>2. Listed(list) \subseteq Address
      BY DEF Listed
    <2> HIDE DEF todo
    <2>3. todo \subseteq Listed(list) /\ todo \subseteq Address
      BY <2>2 DEF todo
    <2>4. [k EXCEPT !.todo = todo] \in TaskState
      BY <2>3 DEF CallOK, TaskState
    <2>5. k.kind = "republish" => Listed(list) \subseteq k.told \cup todo \cup {k.at}
      BY DEF CallOK, todo
    <2> QED BY <1>2, <2>1, <2>3, <2>4, <2>5 DEF CallOK, WalkOK, TaskState
  <1> QED BY <1>1, <1>2

\* What the invariant and WalkAsksAsListed say of a step.
StepIsOK == DiscoveryInv' /\ \A t \in Task : Follows(task[t], task'[t]) \/ Restart

\* An answer that leaves its call in order leaves all calls in order.
LEMMA ProceedOK ==
  ASSUME DiscoveryInv, NEW t \in Task, NEW list \in List, NEW next,
         \A n \in next : CallOK(n, list) /\ Follows(task[t], n), Proceed(t, next, list)
  PROVE  StepIsOK
  <1>1. PICK n \in next :
          /\ activePeerList' = list
          /\ task' = [u \in Task |-> IF u = t THEN n ELSE Seen(task[u], list)]
    BY DEF Proceed
  <1>2. \A u \in Task : CallOK(task'[u], list)
    BY <1>1, SeenOK DEF DiscoveryInv
  <1>3. task' \in [Task -> TaskState]
    BY <1>1, <1>2 DEF CallOK
  <1>4. \A u \in Task : Follows(task[u], task'[u])
    <2> TAKE u \in Task
    <2>1. CASE u = t
      BY <1>1, <2>1
    <2>2. CASE u # t
      <3>1. task'[u].mask = task[u].mask /\ task'[u].pending = task[u].pending
        BY <1>1, <2>2, SeenOK DEF DiscoveryInv
      <3> QED BY <3>1 DEF Follows
    <2> QED BY <2>1, <2>2
  <1> QED BY <1>1, <1>2, <1>3, <1>4 DEF DiscoveryInv, CallOK, StepIsOK

\* A call that begins.
LEMMA BeginOK ==
  ASSUME DiscoveryInv, NEW t \in Task, task[t] = Idle, NEW call,
         Resuming(call, activePeerList), Proceed(t, Loop(call, activePeerList), activePeerList)
  PROVE  StepIsOK
  <1>1. activePeerList \in List
    BY DEF DiscoveryInv
  <1>2. \A n : Follows(task[t], n)
    BY DEF Follows, Idle
  <1>3. \A n \in Loop(call, activePeerList) : CallOK(n, activePeerList)
    BY <1>1, LoopOK
  <1> QED BY <1>1, <1>2, <1>3, ProceedOK

\* An answer to a walk: the list changes at the address asked, if at all.
LEMMA AnswerResumes ==
  ASSUME DiscoveryInv, NEW t \in Task, Asking(t), NEW list \in List
  PROVE  /\ Resuming(Seen(task[t], list), list)
         /\ Seen(task[t], list).kind # "republish"
         /\ WalkOK(Seen(task[t], list))
         /\ Seen(task[t], list) \in TaskState /\ task[t] \in TaskState /\ WalkOK(task[t])
         /\ Seen(task[t], list).mask = task[t].mask
         /\ Seen(task[t], list).pending = task[t].pending
  <1>1. /\ CallOK(Seen(task[t], list), list)
        /\ Seen(task[t], list).mask = task[t].mask
        /\ Seen(task[t], list).pending = task[t].pending
    BY SeenOK DEF DiscoveryInv
  <1>2. task[t].kind \in {"find", "restore"} /\ task[t] \in TaskState
    BY DEF DiscoveryInv, Asking, Kind
  <1>3. Seen(task[t], list).kind = task[t].kind
    BY <1>2 DEF Seen, TaskState
  <1> QED BY <1>1, <1>2, <1>3 DEF CallOK, Resuming, DiscoveryInv

-----------------------------------------------------------------------------

\* The initial states.
LEMMA InitOK == Init => DiscoveryInv
  <1> SUFFICES ASSUME Init PROVE DiscoveryInv
    OBVIOUS
  <1>1. activePeerList \in List
    BY DEF Init, List
  <1>2. \A t \in Task : CallOK(task[t], activePeerList)
    BY <1>1, IdleOK DEF Init
  <1> QED BY <1>1, <1>2 DEF Init, DiscoveryInv, CallOK

\* Every step.
LEMMA StepOK == DiscoveryInv /\ [Next]_vars => StepIsOK
  <1> SUFFICES ASSUME DiscoveryInv, [Next]_vars PROVE StepIsOK
    OBVIOUS
  <1>0. activePeerList \in List
    BY DEF DiscoveryInv
  <1>1. ASSUME NEW t \in Task, NEW S \in SUBSET Address, Find(t, S) PROVE StepIsOK
    <2> DEFINE call == [Idle EXCEPT !.kind = "find", !.todo = S]
    <2>0. task[t] = Idle
      BY <1>1 DEF Find
    <2>1. Resuming(call, activePeerList)
      BY DEF Resuming, TaskState, Idle, Kind, Never
    <2>2. Proceed(t, Loop(call, activePeerList), activePeerList)
      BY <1>1 DEF Find
    <2> HIDE DEF call
    <2> QED BY <2>0, <2>1, <2>2, BeginOK
  <1>2. ASSUME NEW t \in Task, NEW p \in PeerId, PostLink(t, p) PROVE StepIsOK
    <2> DEFINE call == [Idle EXCEPT !.kind = "restore", !.peer = p,
                                    !.todo = Listed(activePeerList)]
    <2>0. task[t] = Idle
      BY <1>2 DEF PostLink
    <2>1. Resuming(call, activePeerList)
      BY DEF Resuming, TaskState, Idle, Kind, Listed, Never
    <2>2. Proceed(t, Loop(call, activePeerList), activePeerList)
      BY <1>2 DEF PostLink
    <2> HIDE DEF call
    <2> QED BY <2>0, <2>1, <2>2, BeginOK
  <1>3. ASSUME NEW t \in Task, Republish(t) PROVE StepIsOK
    <2> DEFINE call == [Idle EXCEPT !.kind = "republish", !.todo = Listed(activePeerList)]
    <2>0. task[t] = Idle
      BY <1>3 DEF Republish
    <2>1. Resuming(call, activePeerList)
      BY DEF Resuming, TaskState, Idle, Kind, Listed, Never
    <2>2. Proceed(t, Loop(call, activePeerList), activePeerList)
      BY <1>3 DEF Republish
    <2> HIDE DEF call
    <2> QED BY <2>0, <2>1, <2>2, BeginOK
  <1>4. ASSUME NEW t \in Task, PeerAnswers(t) PROVE StepIsOK
    <2>1. PICK p \in PeerId :
            LET list == [activePeerList EXCEPT ![task[t].at] = p]
                call == Seen(task[t], list)
            IN  Proceed(t, UNION {Continue(k, list) : k \in {Hear(call, answer) :
                                  answer \in Answer}}, list)
      BY <1>4 DEF PeerAnswers
    <2> DEFINE list == [activePeerList EXCEPT ![task[t].at] = p]
               call == Seen(task[t], list)
               next == UNION {Continue(k, list) : k \in {Hear(call, answer) : answer \in Answer}}
    <2>2. list \in List
      BY <1>0 DEF List
    <2>3. Proceed(t, next, list)
      BY <2>1
    <2>4. /\ Resuming(call, list) /\ call.kind # "republish"
          /\ WalkOK(call) /\ call \in TaskState /\ task[t] \in TaskState /\ WalkOK(task[t])
          /\ call.mask = task[t].mask /\ call.pending = task[t].pending
      BY <1>4, <2>2, AnswerResumes DEF PeerAnswers
    <2> HIDE DEF list, call
    <2>5. ASSUME NEW answer \in Answer, NEW n \in Continue(Hear(call, answer), list)
          PROVE  CallOK(n, list) /\ Follows(task[t], n)
      <3>0. answer \in [Address -> Nat] /\ ListedIn(answer) \subseteq Address
        BY AnswerAssumption DEF ListedIn
      <3>1. PICK k : k = Hear(call, answer)
        OBVIOUS
      <3>2. [a \in Address |-> IF a \in call.mask THEN call.pending[a] ELSE answer[a]]
              \in [Address -> Nat]
        BY <2>4, <3>0 DEF TaskState
      <3>3. k \in TaskState
        BY <2>4, <3>0, <3>1, <3>2 DEF Hear, TaskState
      <3>4. /\ k.kind = call.kind /\ k.todo \in {{}, call.todo} /\ k.told = call.told
            /\ k.mask = call.mask \cup ListedIn(answer)
            /\ k.pending = [a \in Address |-> IF a \in call.mask THEN call.pending[a] ELSE answer[a]]
        BY <2>4, <3>1 DEF Hear, TaskState
      <3>5. WalkOK(k)
        BY <3>0, <3>4 DEF WalkOK, ListedIn
      <3>6. Resuming(k, list)
        BY <2>4, <3>3, <3>4 DEF Resuming
      <3>7. call.mask \subseteq k.mask /\ \A a \in task[t].mask : k.pending[a] = task[t].pending[a]
        BY <2>4, <3>4 DEF TaskState
      <3> QED BY <2>2, <2>4, <2>5, <3>1, <3>4, <3>5, <3>6, <3>7, ContinueOK
    <2> QED BY <2>2, <2>3, <2>5, ProceedOK
  <1>5. ASSUME NEW t \in Task, NobodyAnswers(t) PROVE StepIsOK
    <2>1. Proceed(t, Continue(task[t], activePeerList), activePeerList)
      BY <1>5 DEF NobodyAnswers
    <2>2. /\ Resuming(task[t], activePeerList) /\ task[t].kind # "republish"
          /\ WalkOK(task[t]) /\ task[t] \in TaskState
      BY <1>5 DEF NobodyAnswers, Asking, Kind, DiscoveryInv, CallOK, Resuming
    <2>3. \A n \in Continue(task[t], activePeerList) :
            CallOK(n, activePeerList) /\ Follows(task[t], n)
      BY <1>0, <2>2, ContinueOK
    <2> QED BY <1>0, <2>1, <2>3, ProceedOK
  <1>6. ASSUME NEW t \in Task, NonsenseAnswers(t) PROVE StepIsOK
    <2> DEFINE list == [activePeerList EXCEPT ![task[t].at] = None]
    <2>1. list \in List
      BY <1>0 DEF List
    <2>2. Proceed(t, Continue(Seen(task[t], list), list), list)
      BY <1>6 DEF NonsenseAnswers
    <2> HIDE DEF list
    <2>3. \A n \in Continue(Seen(task[t], list), list) :
            CallOK(n, list) /\ Follows(task[t], n)
      BY <1>6, <2>1, AnswerResumes, ContinueOK DEF NonsenseAnswers
    <2> QED BY <2>1, <2>2, <2>3, ProceedOK
  <1>7. ASSUME NEW t \in Task, PostReturns(t) PROVE StepIsOK
    <2> DEFINE told == [task[t] EXCEPT !.told = @ \cup {task[t].at}]
    <2>1. Proceed(t, Loop(told, activePeerList), activePeerList)
      BY <1>7 DEF PostReturns
    <2>2. task[t].kind = "republish" /\ CallOK(task[t], activePeerList)
      BY <1>7 DEF PostReturns, DiscoveryInv
    <2>3. task[t].at \in Address
      BY <2>2 DEF CallOK, TaskState
    <2>4. told \in TaskState
      BY <2>2, <2>3 DEF CallOK, TaskState
    <2>5. /\ told.kind = "republish" /\ told.todo = task[t].todo
          /\ told.told = task[t].told \cup {task[t].at}
      BY <2>2 DEF CallOK, TaskState
    <2> HIDE DEF told
    <2>6. Resuming(told, activePeerList)
      BY <2>2, <2>4, <2>5 DEF CallOK, Resuming
    <2>7. \A n : Follows(task[t], n)
      BY <2>2 DEF CallOK, Follows
    <2> QED BY <1>0, <2>1, <2>6, <2>7, LoopOK, ProceedOK
  <1>8. ASSUME NEW S \in SUBSET Address, ServiceDown(S) PROVE StepIsOK
    <2>1. activePeerList' \in List
      BY <1>0, <1>8 DEF ServiceDown, List
    <2>2. \A t \in Task : task'[t] = Seen(task[t], activePeerList')
      BY <1>8 DEF ServiceDown
    <2>3. \A t \in Task : CallOK(task'[t], activePeerList')
      BY <2>1, <2>2, SeenOK DEF DiscoveryInv
    <2>4. task' \in [Task -> TaskState]
      BY <1>8, <2>3 DEF ServiceDown, CallOK
    <2>5. \A t \in Task : Follows(task[t], task'[t])
      <3>1. \A t \in Task : task'[t].mask = task[t].mask /\ task'[t].pending = task[t].pending
        BY <2>1, <2>2, SeenOK DEF DiscoveryInv
      <3> QED BY <3>1 DEF Follows
    <2> QED BY <2>1, <2>3, <2>4, <2>5 DEF DiscoveryInv, CallOK, StepIsOK
  <1>9. CASE Restart
    <2>1. activePeerList' \in List
      BY <1>9 DEF Restart, List
    <2>2. \A t \in Task : task'[t] = Idle /\ CallOK(Idle, activePeerList')
      BY <1>9, <2>1, IdleOK DEF Restart
    <2>3. task' \in [Task -> TaskState]
      BY <1>9, <2>2 DEF Restart, CallOK
    <2> QED BY <1>9, <2>1, <2>2, <2>3 DEF DiscoveryInv, StepIsOK
  <1>10. CASE UNCHANGED vars
    <2>1. DiscoveryInv'
      BY <1>10 DEF vars, DiscoveryInv, CallOK, Listed
    <2>2. \A t \in Task : Follows(task[t], task'[t])
      BY <1>10 DEF vars, Follows
    <2> QED BY <2>1, <2>2 DEF StepIsOK
  <1> QED BY <1>1, <1>2, <1>3, <1>4, <1>5, <1>6, <1>7, <1>8, <1>9, <1>10
          DEF Next, Link, ServiceUp, Answered

\* At every moment, with any number of calls under way and whatever answers may
\* list, in circles or twice (activity.ts, 86-184): a walk asks each address that
\* is listed to it exactly as often as the first answer that listed it did, and
\* everyone who is listed will have been told before a create is answered.
THEOREM DiscoveryInvariant == Spec => [](TypeOK /\ PeersAreTold) /\ WalkAsksAsListed
  <1>1. DiscoveryInv => TypeOK /\ PeersAreTold
    BY DEF DiscoveryInv, List, CallOK, TypeOK, PeersAreTold
  <1>2. StepIsOK => [\A t \in Task, a \in Address :
                       LET k == task[t]
                           l == task'[t]
                       IN  a \in k.mask =>
                             \/ l.pending[a] = k.pending[a] /\ a \in l.mask
                             \/ l.pending[a] = k.pending[a] - 1 /\ a \in l.mask /\ l.at = a
                             \/ k.pending = Never /\ l.mask = {}
                             \/ Restart]_vars
    BY DEF StepIsOK, Follows
  <1>3. StepIsOK => DiscoveryInv'
    BY DEF StepIsOK
  <1> QED BY <1>1, <1>2, <1>3, InitOK, StepOK, PTL DEF Spec, WalkAsksAsListed
=============================================================================
