--------------------------- MODULE ViewModelProofs ---------------------------
(***************************************************************************)
(* Proofs about ViewModel, for any vaults, entries, passwords and commands.  *)
(***************************************************************************)
EXTENDS ViewModel, TLAPS

\* The entries of p were typed for v, as far as typed tells.
TypedFor(p, v, typed) ==
  p.key = v /\ \A k \in Entry : p.entries[k] # None => typed[p.entries[k]] = v

\* A payload under way is its vault's own.  A save may carry entries of another
\* vault, but then it is signed with another key.
InTransit(c) ==
  call[c].payload # None /\ (call[c].op = "save" => call[c].payload.key = call[c].vault)

CallsOwn == \A c \in Call : InTransit(c) => Own(call[c].payload, call[c].vault)

\* So are the entries that are shown, while the key is that of the title.
ShownOwn ==
  name # None /\ key = name =>
    \A k \in Entry : items[k] # None => typedFor[items[k]] = name

ClientsInv ==
  TypeOK /\ ContentStaysHome /\ CallsOwn /\ ShownOwn /\ MessageHasCommand

\* No step types a password again, or forgets one.
TypedOnce ==
  \A e \in Edit : typedFor[e] # None => typedFor'[e] = typedFor[e]

-----------------------------------------------------------------------------

\* A payload without entries is its vault's own.
LEMMA EmptyOwn ==
  ASSUME NEW v \in Vault, NEW typed
  PROVE  /\ [key |-> v, entries |-> NoEntries] \in Payload
         /\ TypedFor([key |-> v, entries |-> NoEntries], v, typed)
  BY DEF TypedFor, Payload, Entries, NoEntries

\* What was a vault's own stays so: a step has to answer only for the payloads it
\* stores, sends and hands out.
LEMMA OwnKept ==
  ASSUME ClientsInv, TypeOK', TypedOnce,
         \A v \in Vault : stored'[v] # None =>
           stored'[v] = stored[v] \/ TypedFor(stored'[v], v, typedFor'),
         \A c \in Call : InTransit(c)' =>
           call'[c] = call[c] \/ TypedFor(call'[c].payload, call'[c].vault, typedFor')
  PROVE  ContentStaysHome' /\ CallsOwn'
  <1>1. ASSUME NEW p \in Payload, NEW v \in Vault, TypedFor(p, v, typedFor)
        PROVE  TypedFor(p, v, typedFor')
    BY <1>1, NoneAssumption DEF TypedOnce, TypedFor, Payload, Entries
  <1>2. ASSUME NEW v \in Vault, stored'[v] # None PROVE TypedFor(stored'[v], v, typedFor')
    <2>1. CASE stored'[v] = stored[v]
      <3>1. stored[v] # None
        BY <1>2, <2>1
      <3>2. stored[v] \in Payload
        BY <3>1 DEF ClientsInv, TypeOK
      <3>3. Own(stored[v], v)
        BY <3>1 DEF ClientsInv, ContentStaysHome
      <3>4. TypedFor(stored[v], v, typedFor)
        BY <3>3 DEF Own, TypedFor
      <3> QED BY <1>1, <2>1, <3>2, <3>4
    <2> QED BY <1>2, <2>1
  <1>3. ASSUME NEW c \in Call, InTransit(c)'
        PROVE  TypedFor(call'[c].payload, call'[c].vault, typedFor')
    <2>1. CASE call'[c] = call[c]
      <3>1. InTransit(c)
        BY <1>3, <2>1 DEF InTransit
      <3>2. call[c].payload \in Payload
        BY <3>1 DEF ClientsInv, TypeOK, CallState, InTransit
      <3>3. Own(call[c].payload, call[c].vault)
        BY <3>1 DEF ClientsInv, CallsOwn
      <3>4. TypedFor(call[c].payload, call[c].vault, typedFor)
        BY <3>3 DEF Own, TypedFor
      <3>5. call[c].vault \in Vault
        BY <3>2, <3>4 DEF TypedFor, Payload
      <3> QED BY <1>1, <2>1, <3>2, <3>4, <3>5
    <2> QED BY <1>3, <2>1
  <1> QED BY <1>2, <1>3 DEF ContentStaysHome, CallsOwn, Own, TypedFor

\* A command that changes is in order when what it changes to is, and the others stay.
LEMMA CallChanges ==
  ASSUME ClientsInv, NEW c \in Call, NEW x, CallOK(x), call' = [call EXCEPT ![c] = x]
  PROVE  /\ call' \in [Call -> CallState] /\ \A d \in Call : CallOK(call'[d])
         /\ call'[c] = x /\ \A d \in Call \ {c} : call'[d] = call[d]
  BY DEF ClientsInv, TypeOK, CallOK

\* A request is in order.
LEMMA RequestOK ==
  ASSUME NEW v \in Vault, NEW p \in Payload \cup {None},
         NEW op \in {"create", "link", "open", "pull", "save", "fetch", "push"},
         op \in {"create", "save", "push"} => p # None
  PROVE  /\ CallOK(Request(op, v, p))
         /\ Request(op, v, p).op = op /\ Request(op, v, p).pc = "sent"
         /\ Request(op, v, p).vault = v /\ Request(op, v, p).payload = p
  BY DEF CallOK, CallState, Request

\* As long as the message stays, and the commands it may speak of.
LEMMA MessageKept ==
  ASSUME ClientsInv, message' = message,
         \A c \in Call : call[c].op \in {"save", "pull"} => call'[c].op = call[c].op
  PROVE  MessageHasCommand'
  BY DEF ClientsInv, MessageHasCommand

\* The initial states.
LEMMA InitOK == Init => ClientsInv
  <1> SUFFICES ASSUME Init PROVE ClientsInv
    OBVIOUS
  <1>1. TypeOK
    BY NoneAssumption DEF Init, TypeOK, CallOK, CallState, IdleCall, Entries, NoEntries
  <1>2. ContentStaysHome
    BY EmptyOwn DEF Init, ContentStaysHome, Own, TypedFor
  <1>3. CallsOwn /\ ShownOwn /\ MessageHasCommand
    BY DEF Init, CallsOwn, InTransit, ShownOwn, MessageHasCommand, IdleCall
  <1> QED BY <1>1, <1>2, <1>3 DEF ClientsInv

-----------------------------------------------------------------------------
\* The user.

\* A password typed under a title is for that vault.
LEMMA SetPasswordOK ==
  ASSUME ClientsInv, NEW k \in Entry, NEW e \in Edit, SetPassword(k, e)
  PROVE  ClientsInv'
  <1>1. TypeOK'
    BY DEF ClientsInv, TypeOK, CallOK, SetPassword, Entries
  <1>2. TypedOnce
    BY DEF ClientsInv, TypeOK, SetPassword, TypedOnce
  <1>3. ContentStaysHome' /\ CallsOwn'
    BY <1>1, <1>2, OwnKept DEF SetPassword
  <1>4. ShownOwn'
    BY NoneAssumption DEF ClientsInv, TypeOK, Entries, ShownOwn, SetPassword
  <1>5. MessageHasCommand'
    BY DEF ClientsInv, MessageHasCommand, SetPassword
  <1> QED BY <1>1, <1>3, <1>4, <1>5 DEF ClientsInv

\* A command begins where none was under way.
LEMMA SendOK ==
  ASSUME ClientsInv, NEW c \in Call, NEW x, CallOK(x), Send(c, x)
  PROVE  /\ call' \in [Call -> CallState] /\ \A d \in Call : CallOK(call'[d])
         /\ call'[c] = x /\ \A d \in Call \ {c} : call'[d] = call[d]
         /\ call[c].op = "none"
  <1>1. call[c].op = "none"
    BY DEF ClientsInv, TypeOK, CallOK, Send
  <1> QED BY <1>1, CallChanges DEF Send

\* A form sends a new payload, or none.
LEMMA SubmitFormOK ==
  ASSUME ClientsInv, NEW c \in Call, NEW v \in Vault, SubmitForm(c, v)
  PROVE  ClientsInv'
  <1> DEFINE new == [key |-> v, entries |-> NoEntries]
  <1>1. new \in Payload /\ new # None /\ TypedFor(new, v, typedFor')
    BY EmptyOwn, NoneAssumption
  <1> HIDE DEF new
  <1>2. PICK op \in {"create", "open", "link"}, p \in {new, None} :
          Send(c, Request(op, v, p)) /\ (op = "create" <=> p = new)
    BY <1>1 DEF SubmitForm, new
  <1>3. CallOK(Request(op, v, p)) /\ Request(op, v, p).payload = p /\ Request(op, v, p).vault = v
    BY <1>1, <1>2, RequestOK
  <1>4. /\ call' \in [Call -> CallState] /\ \A d \in Call : CallOK(call'[d])
        /\ call'[c] = Request(op, v, p) /\ \A d \in Call \ {c} : call'[d] = call[d]
        /\ call[c].op = "none"
    BY <1>2, <1>3, SendOK
  <1>5. TypeOK'
    BY <1>4 DEF ClientsInv, TypeOK, SubmitForm
  <1>6. TypedOnce
    BY DEF TypedOnce, SubmitForm
  <1>7. \A d \in Call : InTransit(d)' =>
           call'[d] = call[d] \/ TypedFor(call'[d].payload, call'[d].vault, typedFor')
    BY <1>1, <1>2, <1>3, <1>4 DEF InTransit
  <1>8. ContentStaysHome' /\ CallsOwn'
    BY <1>5, <1>6, <1>7, OwnKept DEF SubmitForm
  <1>9. ShownOwn' /\ MessageHasCommand'
    BY <1>4, MessageKept DEF ClientsInv, ShownOwn, SubmitForm
  <1> QED BY <1>5, <1>8, <1>9 DEF ClientsInv

\* A save that is signed with the key of its title carries that vault's entries.
LEMMA SaveClientOK ==
  ASSUME ClientsInv, NEW c \in Call, SaveClient(c)
  PROVE  ClientsInv'
  <1> DEFINE p == [key |-> key, entries |-> items]
  <1>1. name \in Vault /\ p \in Payload /\ p # None
    <2>1. name \in Vault /\ key \in Vault /\ items \in Entries
      BY DEF ClientsInv, TypeOK, SaveClient
    <2>2. p \in Payload
      BY <2>1 DEF Payload
    <2> QED BY <2>1, <2>2, NoneAssumption
  <1>2. p.key = name => TypedFor(p, name, typedFor')
    BY <1>1, NoneAssumption DEF ClientsInv, ShownOwn, TypedFor, SaveClient
  <1>3. Send(c, Request("save", name, p))
    BY DEF SaveClient
  <1> HIDE DEF p
  <1>4. /\ CallOK(Request("save", name, p)) /\ Request("save", name, p).op = "save"
        /\ Request("save", name, p).payload = p /\ Request("save", name, p).vault = name
    BY <1>1, RequestOK
  <1>5. /\ call' \in [Call -> CallState] /\ \A d \in Call : CallOK(call'[d])
        /\ call'[c] = Request("save", name, p) /\ \A d \in Call \ {c} : call'[d] = call[d]
        /\ call[c].op = "none"
    BY <1>3, <1>4, SendOK
  <1>6. TypeOK'
    BY <1>5 DEF ClientsInv, TypeOK, SaveClient
  <1>7. TypedOnce
    BY DEF TypedOnce, SaveClient
  <1>8. \A d \in Call : InTransit(d)' =>
           call'[d] = call[d] \/ TypedFor(call'[d].payload, call'[d].vault, typedFor')
    BY <1>2, <1>4, <1>5 DEF InTransit
  <1>9. ContentStaysHome' /\ CallsOwn'
    BY <1>6, <1>7, <1>8, OwnKept DEF SaveClient
  <1>10. ShownOwn' /\ MessageHasCommand'
    BY <1>4, <1>5 DEF ClientsInv, ShownOwn, MessageHasCommand, SaveClient
  <1> QED BY <1>6, <1>9, <1>10 DEF ClientsInv

\* What is sent without a payload, a pull or the fetch of "vault set".
LEMMA AskOK ==
  ASSUME ClientsInv, NEW c \in Call, UpdateClient(c) \/ \E v \in Vault : VaultSet(c, v)
  PROVE  ClientsInv'
  <1>1. PICK op \in {"pull", "fetch"}, v \in Vault :
          /\ Send(c, Request(op, v, None))
          /\ message' = IF op = "pull" THEN "fetching" ELSE message
    BY DEF ClientsInv, TypeOK, UpdateClient, VaultSet
  <1>2. /\ CallOK(Request(op, v, None)) /\ Request(op, v, None).op = op
        /\ Request(op, v, None).payload = None
    BY RequestOK
  <1>3. /\ call' \in [Call -> CallState] /\ \A d \in Call : CallOK(call'[d])
        /\ call'[c] = Request(op, v, None) /\ \A d \in Call \ {c} : call'[d] = call[d]
        /\ call[c].op = "none"
    BY <1>1, <1>2, SendOK
  <1>4. UNCHANGED <<stored, name, key, items, typedFor>>
    BY DEF UpdateClient, VaultSet
  <1>5. TypeOK'
    BY <1>1, <1>3, <1>4 DEF ClientsInv, TypeOK
  <1>6. TypedOnce
    BY <1>4 DEF TypedOnce
  <1>7. \A d \in Call : InTransit(d)' => call'[d] = call[d]
    BY <1>2, <1>3 DEF InTransit
  <1>8. ContentStaysHome' /\ CallsOwn'
    BY <1>4, <1>5, <1>6, <1>7, OwnKept
  <1>9. ShownOwn' /\ MessageHasCommand'
    BY <1>1, <1>2, <1>3, <1>4 DEF ClientsInv, ShownOwn, MessageHasCommand
  <1> QED BY <1>5, <1>8, <1>9 DEF ClientsInv

\* To close a vault takes its title away.
LEMMA CloseClientOK ==
  ASSUME ClientsInv, CloseClient
  PROVE  ClientsInv'
  <1>1. TypeOK'
    BY DEF ClientsInv, TypeOK, CloseClient
  <1>2. TypedOnce
    BY DEF TypedOnce, CloseClient
  <1>3. ContentStaysHome' /\ CallsOwn'
    BY <1>1, <1>2, OwnKept DEF CloseClient
  <1>4. ShownOwn' /\ MessageHasCommand'
    BY DEF ShownOwn, MessageHasCommand, CloseClient
  <1> QED BY <1>1, <1>3, <1>4 DEF ClientsInv

-----------------------------------------------------------------------------
\* The service.

\* The service answers the command c, and stores nothing but what is its vault's own.
LEMMA ServedOK ==
  ASSUME ClientsInv, NEW c \in Call, NEW x, CallOK(x), x.op = call[c].op,
         call' = [call EXCEPT ![c] = x],
         x.payload # None => TypedFor(x.payload, x.vault, typedFor'),
         stored' \in [Vault -> Payload \cup {None}],
         \A v \in Vault : stored'[v] # None =>
           stored'[v] = stored[v] \/ TypedFor(stored'[v], v, typedFor'),
         UNCHANGED <<name, key, items, message, typedFor>>
  PROVE  ClientsInv'
  <1>1. /\ call' \in [Call -> CallState] /\ \A d \in Call : CallOK(call'[d])
        /\ call'[c] = x /\ \A d \in Call \ {c} : call'[d] = call[d]
    BY CallChanges
  <1>2. TypeOK'
    BY <1>1 DEF ClientsInv, TypeOK
  <1>3. TypedOnce
    BY DEF TypedOnce
  <1>4. \A d \in Call : InTransit(d)' =>
           call'[d] = call[d] \/ TypedFor(call'[d].payload, call'[d].vault, typedFor')
    BY <1>1 DEF InTransit
  <1>5. ContentStaysHome' /\ CallsOwn'
    BY <1>2, <1>3, <1>4, OwnKept
  <1>6. ShownOwn' /\ MessageHasCommand'
    BY <1>1, MessageKept DEF ClientsInv, ShownOwn
  <1> QED BY <1>2, <1>5, <1>6 DEF ClientsInv

\* A read hands out what is stored.
LEMMA GetContentOK ==
  ASSUME ClientsInv, NEW c \in Call, GetContent(c)
  PROVE  ClientsInv'
  <1> DEFINE v == call[c].vault
             x == [call[c] EXCEPT !.pc = "done", !.payload = stored[v]]
  <1>1. call[c] \in CallState /\ CallOK(call[c]) /\ v \in Vault
    BY DEF ClientsInv, TypeOK, CallOK, GetContent
  <1>2. stored[v] \in Payload /\ stored[v] # None /\ Own(stored[v], v)
    BY <1>1 DEF ClientsInv, TypeOK, ContentStaysHome, GetContent
  <1>3. TypedFor(stored[v], v, typedFor')
    BY <1>2 DEF Own, TypedFor, GetContent
  <1>4. call' = [call EXCEPT ![c] = x]
    BY DEF GetContent, Answer
  <1>5. CallOK(x) /\ x.op = call[c].op /\ x.vault = v /\ x.payload = stored[v]
    BY <1>1, <1>2 DEF CallOK, CallState, GetContent
  <1> HIDE DEF v, x
  <1>6. UNCHANGED <<stored, name, key, items, message, typedFor>>
    BY DEF GetContent
  <1>7. stored' \in [Vault -> Payload \cup {None}]
    BY <1>6 DEF ClientsInv, TypeOK
  <1> QED BY <1>3, <1>4, <1>5, <1>6, <1>7, ServedOK

\* A write and a create store what was sent: the key of a create is new, that of a
\* write was checked.
LEMMA StoreOK ==
  ASSUME ClientsInv, NEW c \in Call, SetContent(c) \/ CreateVault(c)
  PROVE  ClientsInv'
  <1> DEFINE v == call[c].vault
             p == call[c].payload
             x == [call[c] EXCEPT !.pc = "done", !.payload = p]
  <1>1. call[c] \in CallState /\ CallOK(call[c]) /\ v \in Vault /\ p \in Payload /\ p # None
    BY DEF ClientsInv, TypeOK, CallOK, CallState, SetContent, CreateVault
  <1>2. InTransit(c)
    BY <1>1 DEF InTransit, SetContent, CreateVault, Validates
  <1>3. TypedFor(p, v, typedFor')
    BY <1>2 DEF ClientsInv, CallsOwn, Own, TypedFor, SetContent, CreateVault
  <1>4. call' = [call EXCEPT ![c] = x] /\ stored' = [stored EXCEPT ![v] = p]
    BY DEF SetContent, CreateVault, Answer, Store
  <1>5. CallOK(x) /\ x.op = call[c].op /\ x.vault = v /\ x.payload = p
    BY <1>1 DEF CallOK, CallState, SetContent, CreateVault
  <1>6. UNCHANGED <<name, key, items, message, typedFor>>
    BY DEF SetContent, CreateVault
  <1> HIDE DEF v, p, x
  <1>7. stored' \in [Vault -> Payload \cup {None}]
    BY <1>1, <1>4 DEF ClientsInv, TypeOK
  <1>8. \A w \in Vault : stored'[w] = stored[w] \/ TypedFor(stored'[w], w, typedFor')
    BY <1>1, <1>3, <1>4 DEF ClientsInv, TypeOK
  <1> QED BY <1>3, <1>4, <1>5, <1>6, <1>7, <1>8, ServedOK

\* A vault that is linked for the first time is empty here.
LEMMA LinkVaultOK ==
  ASSUME ClientsInv, NEW c \in Call, LinkVault(c)
  PROVE  ClientsInv'
  <1> DEFINE v == call[c].vault
             new == [key |-> v, entries |-> NoEntries]
             x == [call[c] EXCEPT !.pc = "done", !.payload = None]
  <1>1. call[c] \in CallState /\ CallOK(call[c]) /\ v \in Vault
    BY DEF ClientsInv, TypeOK, CallOK, LinkVault
  <1>2. new \in Payload /\ TypedFor(new, v, typedFor')
    BY <1>1, EmptyOwn
  <1>3. stored' = stored \/ stored' = [stored EXCEPT ![v] = new]
    BY DEF LinkVault, Store
  <1>4. call' = [call EXCEPT ![c] = x]
    BY DEF LinkVault, Answer
  <1>5. CallOK(x) /\ x.op = call[c].op /\ x.payload = None
    BY <1>1 DEF CallOK, CallState, LinkVault
  <1>6. UNCHANGED <<name, key, items, message, typedFor>>
    BY DEF LinkVault
  <1> HIDE DEF v, new, x
  <1>7. stored' \in [Vault -> Payload \cup {None}]
    BY <1>1, <1>2, <1>3 DEF ClientsInv, TypeOK
  <1>8. \A w \in Vault : stored'[w] = stored[w] \/ TypedFor(stored'[w], w, typedFor')
    BY <1>1, <1>2, <1>3 DEF ClientsInv, TypeOK
  <1> QED BY <1>4, <1>5, <1>6, <1>7, <1>8, ServedOK

\* A request that fails changes nothing but its command.
LEMMA RequestFailsOK ==
  ASSUME ClientsInv, NEW c \in Call, RequestFails(c)
  PROVE  ClientsInv'
  <1> DEFINE x == [call[c] EXCEPT !.pc = "failed", !.payload = None]
  <1>1. call[c] \in CallState /\ CallOK(call[c])
    BY DEF ClientsInv, TypeOK, CallOK
  <1>2. CallOK(x) /\ x.op = call[c].op /\ x.payload = None
    BY <1>1 DEF CallOK, CallState, RequestFails
  <1>3. call' = [call EXCEPT ![c] = x] /\ UNCHANGED <<stored, name, key, items, message, typedFor>>
    BY DEF RequestFails
  <1> HIDE DEF x
  <1>4. stored' \in [Vault -> Payload \cup {None}]
    BY <1>3 DEF ClientsInv, TypeOK
  <1> QED BY <1>2, <1>3, <1>4, ServedOK

-----------------------------------------------------------------------------
\* What the clients do with the answers.

\* A command that returns carries nothing any more.
LEMMA ReturnOK ==
  ASSUME ClientsInv, NEW c \in Call, Return(c)
  PROVE  /\ call' \in [Call -> CallState] /\ \A d \in Call : CallOK(call'[d])
         /\ call'[c] = IdleCall /\ \A d \in Call \ {c} : call'[d] = call[d]
         /\ \A d \in Call : InTransit(d)' => call'[d] = call[d]
  <1>1. CallOK(IdleCall) /\ IdleCall.payload = None
    BY DEF CallOK, CallState, IdleCall
  <1>2. /\ call' \in [Call -> CallState] /\ \A d \in Call : CallOK(call'[d])
        /\ call'[c] = IdleCall /\ \A d \in Call \ {c} : call'[d] = call[d]
    BY <1>1, CallChanges DEF Return
  <1> QED BY <1>1, <1>2 DEF InTransit

\* An answer with a payload of vault v, for the two commands that show it.
LEMMA ShownPayload ==
  ASSUME ClientsInv, NEW c \in Call,
         Arrived(c, {"open", "create", "pull"}, {"done"})
  PROVE  /\ call[c].vault \in Vault /\ call[c].payload \in Payload
         /\ TypedFor(call[c].payload, call[c].vault, typedFor)
  <1>1. /\ call[c].vault \in Vault /\ call[c].payload \in Payload
        /\ call[c].payload # None /\ call[c].op # "save"
    BY DEF ClientsInv, TypeOK, CallOK, CallState, Arrived
  <1>2. Own(call[c].payload, call[c].vault)
    BY <1>1 DEF ClientsInv, CallsOwn, InTransit
  <1> QED BY <1>1, <1>2 DEF Own, TypedFor

\* A vault is shown with its own key and its own entries.
LEMMA OpenedOK ==
  ASSUME ClientsInv, NEW c \in Call, Opened(c)
  PROVE  ClientsInv'
  <1>1. /\ call[c].vault \in Vault /\ call[c].payload \in Payload
        /\ TypedFor(call[c].payload, call[c].vault, typedFor)
    BY ShownPayload DEF Opened, Arrived
  <1>2. /\ call' \in [Call -> CallState] /\ \A d \in Call : CallOK(call'[d])
        /\ \A d \in Call \ {c} : call'[d] = call[d]
        /\ \A d \in Call : InTransit(d)' => call'[d] = call[d]
    BY ReturnOK DEF Opened
  <1>3. /\ items' = call[c].payload.entries /\ name' = call[c].vault
        /\ key' = call[c].payload.key /\ UNCHANGED <<stored, message, typedFor>>
    BY DEF Opened
  <1>4. items' \in Entries /\ key' \in Vault
    BY <1>1, <1>3 DEF Payload
  <1>5. TypeOK'
    BY <1>1, <1>2, <1>3, <1>4, NoneAssumption DEF ClientsInv, TypeOK
  <1>6. TypedOnce
    BY <1>3 DEF TypedOnce
  <1>7. ContentStaysHome' /\ CallsOwn'
    BY <1>2, <1>3, <1>5, <1>6, OwnKept
  <1>8. ShownOwn'
    BY <1>1, <1>3 DEF ShownOwn, TypedFor
  <1>9. MessageHasCommand'
    BY <1>2, <1>3, MessageKept DEF Opened, Arrived
  <1> QED BY <1>5, <1>7, <1>8, <1>9 DEF ClientsInv

\* A pull puts entries and key of one vault under whatever title: they are saved
\* only if that is the title of that vault.
LEMMA PulledOK ==
  ASSUME ClientsInv, NEW c \in Call, Pulled(c)
  PROVE  ClientsInv'
  <1>1. /\ call[c].vault \in Vault /\ call[c].payload \in Payload
        /\ TypedFor(call[c].payload, call[c].vault, typedFor)
    BY ShownPayload DEF Pulled, Arrived
  <1>2. /\ call' \in [Call -> CallState] /\ \A d \in Call : CallOK(call'[d])
        /\ \A d \in Call : InTransit(d)' => call'[d] = call[d]
    BY ReturnOK DEF Pulled
  <1>3. /\ items' = call[c].payload.entries /\ key' = call[c].payload.key
        /\ message' = "pulled" /\ UNCHANGED <<stored, name, typedFor>>
    BY DEF Pulled
  <1>4. items' \in Entries /\ key' \in Vault
    BY <1>1, <1>3 DEF Payload
  <1>5. TypeOK'
    BY <1>2, <1>3, <1>4, NoneAssumption DEF ClientsInv, TypeOK
  <1>6. TypedOnce
    BY <1>3 DEF TypedOnce
  <1>7. ContentStaysHome' /\ CallsOwn'
    BY <1>2, <1>3, <1>5, <1>6, OwnKept
  <1>8. ShownOwn' /\ MessageHasCommand'
    BY <1>1, <1>3 DEF ShownOwn, MessageHasCommand, TypedFor
  <1> QED BY <1>5, <1>7, <1>8 DEF ClientsInv

\* The other ends of a command change at most the message, which then speaks of no
\* command under way.
LEMMA EndsOK ==
  ASSUME ClientsInv, NEW c \in Call,
         FormFails(c) \/ PullFails(c) \/ SaveEnds(c) \/ CommandEnds(c)
  PROVE  ClientsInv'
  <1>1. /\ call' \in [Call -> CallState] /\ \A d \in Call : CallOK(call'[d])
        /\ \A d \in Call \ {c} : call'[d] = call[d]
        /\ \A d \in Call : InTransit(d)' => call'[d] = call[d]
    BY ReturnOK DEF FormFails, PullFails, SaveEnds, CommandEnds
  <1>2. UNCHANGED <<stored, name, key, items, typedFor>>
    BY DEF FormFails, PullFails, SaveEnds, CommandEnds
  <1>3. \/ message' \in {"saved", "fetch failed"}
        \/ message' = message /\ call[c].op \notin {"save", "pull"}
    BY DEF FormFails, PullFails, SaveEnds, CommandEnds, Arrived
  <1>4. TypeOK'
    BY <1>1, <1>2, <1>3 DEF ClientsInv, TypeOK
  <1>5. TypedOnce
    BY <1>2 DEF TypedOnce
  <1>6. ContentStaysHome' /\ CallsOwn'
    BY <1>1, <1>2, <1>4, <1>5, OwnKept
  <1>7. ShownOwn'
    BY <1>2 DEF ClientsInv, ShownOwn
  <1>8. MessageHasCommand'
    BY <1>1, <1>3, MessageKept DEF MessageHasCommand
  <1> QED BY <1>4, <1>6, <1>7, <1>8 DEF ClientsInv

\* A link goes on with an open.
LEMMA LinkedOK ==
  ASSUME ClientsInv, NEW c \in Call, Linked(c)
  PROVE  ClientsInv'
  <1> DEFINE x == Request("open", call[c].vault, None)
  <1>1. call[c].vault \in Vault
    BY DEF ClientsInv, TypeOK, CallOK, Linked, Arrived
  <1>2. CallOK(x) /\ x.payload = None
    BY <1>1, RequestOK
  <1>3. call' = [call EXCEPT ![c] = x] /\ UNCHANGED <<stored, name, key, items, message, typedFor>>
    BY DEF Linked
  <1>4. call[c].op = "link"
    BY DEF Linked, Arrived
  <1> HIDE DEF x
  <1>5. /\ call' \in [Call -> CallState] /\ \A d \in Call : CallOK(call'[d])
        /\ call'[c] = x /\ \A d \in Call \ {c} : call'[d] = call[d]
    BY <1>2, <1>3, CallChanges
  <1>6. TypeOK'
    BY <1>3, <1>5 DEF ClientsInv, TypeOK
  <1>7. TypedOnce
    BY <1>3 DEF TypedOnce
  <1>8. \A d \in Call : InTransit(d)' => call'[d] = call[d]
    BY <1>2, <1>5 DEF InTransit
  <1>9. ContentStaysHome' /\ CallsOwn'
    BY <1>3, <1>6, <1>7, <1>8, OwnKept
  <1>10. ShownOwn' /\ MessageHasCommand'
    BY <1>3, <1>4, <1>5, MessageKept DEF ClientsInv, ShownOwn
  <1> QED BY <1>6, <1>9, <1>10 DEF ClientsInv

\* "vault set" adds a password for the vault whose content it fetched.
LEMMA PushOK ==
  ASSUME ClientsInv, NEW c \in Call, NEW k \in Entry, NEW e \in Edit,
         PushVaultContent(c, k, e)
  PROVE  ClientsInv'
  <1> DEFINE v == call[c].vault
             p == [call[c].payload EXCEPT !.entries[k] = e]
             x == Request("push", v, p)
  <1>1. /\ v \in Vault /\ call[c].payload \in Payload /\ call[c].payload # None
        /\ call[c].op = "fetch"
    BY DEF ClientsInv, TypeOK, CallOK, CallState, PushVaultContent, Arrived
  <1>2. Own(call[c].payload, v)
    BY <1>1 DEF ClientsInv, CallsOwn, InTransit
  <1>3. /\ typedFor[e] = None /\ typedFor' = [typedFor EXCEPT ![e] = v]
        /\ call' = [call EXCEPT ![c] = x] /\ UNCHANGED <<stored, name, key, items, message>>
    BY DEF PushVaultContent
  <1>4. TypedOnce /\ typedFor \in [Edit -> Vault \cup {None}]
    BY <1>3 DEF ClientsInv, TypeOK, TypedOnce
  <1>5. /\ p \in Payload /\ p.key = call[c].payload.key
        /\ \A j \in Entry : p.entries[j] = IF j = k THEN e ELSE call[c].payload.entries[j]
    BY <1>1 DEF Payload, Entries
  <1>6. TypedFor(p, v, typedFor')
    <2>1. p.key = v /\ \A j \in Entry : call[c].payload.entries[j] # None =>
            typedFor[call[c].payload.entries[j]] = v
      BY <1>2, <1>5 DEF Own
    <2>2. ASSUME NEW j \in Entry, p.entries[j] # None PROVE typedFor'[p.entries[j]] = v
      <3>1. CASE j = k
        BY <1>3, <1>4, <1>5, <3>1
      <3>2. CASE j # k
        <4>1. p.entries[j] \in Edit /\ typedFor[p.entries[j]] = v
          BY <1>1, <1>5, <2>1, <2>2, <3>2 DEF Payload, Entries
        <4> QED BY <1>1, <1>3, <1>4, <4>1, NoneAssumption
      <3> QED BY <3>1, <3>2
    <2> QED BY <2>1, <2>2 DEF TypedFor
  <1>7. p # None
    BY <1>5, NoneAssumption
  <1>8. CallOK(x) /\ x.payload = p /\ x.vault = v
    BY <1>1, <1>5, <1>7, RequestOK
  <1> HIDE DEF v, p, x
  <1>9. /\ call' \in [Call -> CallState] /\ \A d \in Call : CallOK(call'[d])
        /\ call'[c] = x /\ \A d \in Call \ {c} : call'[d] = call[d]
    BY <1>3, <1>8, CallChanges
  <1>10. TypeOK'
    BY <1>1, <1>3, <1>9 DEF ClientsInv, TypeOK
  <1>11. \A d \in Call : InTransit(d)' =>
           call'[d] = call[d] \/ TypedFor(call'[d].payload, call'[d].vault, typedFor')
    BY <1>6, <1>8, <1>9 DEF InTransit
  <1>12. ContentStaysHome' /\ CallsOwn'
    BY <1>3, <1>4, <1>10, <1>11, OwnKept
  <1>13. ShownOwn'
    BY <1>3, <1>4, NoneAssumption DEF ClientsInv, TypeOK, Entries, ShownOwn
  <1>14. MessageHasCommand'
    BY <1>1, <1>3, <1>9, MessageKept
  <1> QED BY <1>10, <1>12, <1>13, <1>14 DEF ClientsInv

-----------------------------------------------------------------------------

\* Every step.
LEMMA StepOK == ClientsInv /\ [Next]_vars => ClientsInv'
  <1> SUFFICES ASSUME ClientsInv, [Next]_vars PROVE ClientsInv'
    OBVIOUS
  <1>1. CASE User
    BY <1>1, SetPasswordOK, SubmitFormOK, SaveClientOK, AskOK, CloseClientOK DEF User
  <1>2. ASSUME NEW c \in Call, Serve(c) PROVE ClientsInv'
    BY <1>2, GetContentOK, StoreOK, LinkVaultOK, RequestFailsOK DEF Serve
  <1>3. ASSUME NEW c \in Call, Resume(c) \/ CommandEnds(c) PROVE ClientsInv'
    BY <1>3, OpenedOK, LinkedOK, PulledOK, EndsOK DEF Resume
  <1>4. ASSUME NEW c \in Call, NEW k \in Entry, NEW e \in Edit, PushVaultContent(c, k, e)
        PROVE  ClientsInv'
    BY <1>4, PushOK
  <1>5. CASE UNCHANGED vars
    BY <1>5 DEF vars, ClientsInv, TypeOK, ContentStaysHome, CallsOwn, InTransit, Own,
                ShownOwn, MessageHasCommand
  <1> QED BY <1>1, <1>2, <1>3, <1>4, <1>5 DEF Next

\* Whatever commands overlap, with answers in any order or none: what the service
\* holds for a vault has that vault's key and only passwords that were typed for
\* it, and the message under the entries speaks of a command that is under way
\* (PasswordCollectionViewModel.cs, AuthenticatedClientContext.cs,
\* CommandServer.ts:132-151).
THEOREM ClientsInvariant ==
  Spec => [](TypeOK /\ ContentStaysHome /\ MessageHasCommand)
  <1>1. ClientsInv => TypeOK /\ ContentStaysHome /\ MessageHasCommand
    BY DEF ClientsInv
  <1> QED BY <1>1, InitOK, StepOK, PTL DEF Spec
=============================================================================
