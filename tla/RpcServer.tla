------------------------------ MODULE RpcServer ------------------------------
(***************************************************************************)
(* The gRPC server of the service: server/pipe/rpc.ts over CommandServer.ts, *)
(* and its start and shutdown in munkey.ts.                                 *)
(*                                                                          *)
(* A handler runs up to its first await, and is resumed once for each; the   *)
(* calls of several clients are under way together, and so are peers, who    *)
(* store what they replicate.  A database goes by the name its vault was     *)
(* opened under, so that vaults may come to share one (VaultStore).  A       *)
(* handler without a catch that throws ends the process: an unhandled        *)
(* rejection.                                                                *)
(***************************************************************************)
EXTENDS WireFormat

CONSTANTS
  Name,        \* local names of vaults, and the names peers give theirs
  Call,        \* calls that may be under way together
  PasswordOf,  \* vault -> the password it was made with
  TextOf,      \* vault -> its entries; what clients change in them is left out
  Used,        \* bound: the names that requests and peers use
  Kept,        \* bound: the vault that is loaded under the other name, if there is one
  Empty,       \* a database without content
  Removed,     \* a database whose content was removed
  Gone,        \* a handle whose database was destroyed
  None         \* no value

\* What the shells of devices write, and what clients write: a document stands
\* for its bytes.
Document == [by : {"js", "cs"}, vault : Vault]
Sent == {d \in Document : d.by = "cs"}

OwnContent == [v \in Vault |-> {d \in Document : d.vault = v}]

\* What a client gets: a key, a content, and (history) whose content the
\* database may have held when it was read.
Answer == [key : Vault, content : Document, from : SUBSET Vault]

ASSUME RpcAssumption ==
  /\ Used \subseteq Name /\ Kept \in Vault
  /\ PasswordOf \in [Vault -> Password]
  /\ TextOf \in [Vault -> Text]
  /\ None \notin Name \cup Vault \cup Document \cup Answer \cup {Empty, Removed, Gone}
  /\ Gone \notin Name
  /\ Empty \notin Document /\ Removed \notin Document \cup {Empty}

VARIABLES
  phase,    \* of the process; "ended" by a shutdown, or "cut"
  names,    \* vaultIdMap: name -> vault, None if there is no such name
  handles,  \* vaultMap: vault -> the database it was opened on, None if it is not held
  stored,   \* database -> its content
  tenants,  \* history: database -> the vaults whose content belongs there
  call      \* the calls under way

storeVars == <<names, handles, stored, tenants>>
vars == <<phase, storeVars, call>>

\* The maps and databases of the service.
Vaults == INSTANCE VaultStore WITH Own <- OwnContent

\* The bytes a document stands for.
Bytes(d) ==
  IF d.by = "js" THEN JsSeal(d.vault, PasswordOf[d.vault], TextOf[d.vault])
  ELSE CsSeal(d.vault, PasswordOf[d.vault], TextOf[d.vault])

\* What a request may carry instead: a document of a later version of the
\* format, or one cut short in its header.
Request(d) == {Bytes(d), [Bytes(d) EXCEPT ![1] = 1], Slice(Bytes(d), 0, 3)}

\* vault and db are the vault and the handle that a call holds on to.
CallState ==
  [pc : {"free", "initializes", "fills", "destroys", "reads", "writes", "links",
         "finishes", "answered"},
   name : Name \cup {None},
   vault : Vault \cup {None},
   db : Name \cup {Gone, None},
   content : Document \cup {None},
   answer : Answer \cup {None}]

Free == [pc |-> "free", name |-> None, vault |-> None, db |-> None, content |-> None,
         answer |-> None]

UnderWay(c) == call[c].pc \notin {"free", "answered"}

Running == phase \in {"serving", "draining"}

\* Some vaults are loaded before the server starts.
Init ==
  /\ phase = "starting"
  /\ Vaults!Init
  /\ \A n \in Name \ Used :
       names[n] = Kept /\ tenants[n] = {Kept} /\ stored[n] = [by |-> "cs", vault |-> Kept]
  /\ call = [c \in Call |-> Free]

-----------------------------------------------------------------------------
\* The process.

\* Its calls end with it.
Cut ==
  /\ phase' = "cut"
  /\ call' = [c \in Call |-> Free]
  /\ UNCHANGED storeVars

Start ==
  /\ phase = "starting"
  /\ phase' = "serving"
  /\ UNCHANGED <<storeVars, call>>

\* The address is in use, or a signal cannot be listened for.
StartFails ==
  /\ phase = "starting"
  /\ Cut

\* A signal.  Started with a shell the process listens for none, and ends with
\* the shell.
Stop ==
  /\ phase = "serving"
  /\ \/ phase' = "draining" /\ UNCHANGED <<storeVars, call>>
     \/ Cut

\* Mutant of Shutdown: calls under way are not waited for.
ShutdownForced ==
  /\ phase = "draining"
  /\ phase' = "ended"
  /\ UNCHANGED <<storeVars, call>>

\* tryShutdown() takes no more calls, and waits for those under way.
Shutdown ==
  /\ phase = "draining"
  /\ \A c \in Call : ~UnderWay(c)
  /\ phase' = "ended"
  /\ UNCHANGED <<storeVars, call>>

Ended == phase \in {"ended", "cut"} /\ UNCHANGED vars

-----------------------------------------------------------------------------
\* The start and the end of a call.

Called(c) == phase = "serving" /\ call[c].pc = "free"

Enter(c, x) == call' = [call EXCEPT ![c] = x]

Resumed(c, pc) == Running /\ call[c].pc = pc

Respond(c) == call' = [call EXCEPT ![c] = [Free EXCEPT !.pc = "answered"]]

\* A call that is answered at once: it asks for vaults, devices or the status,
\* names no vault the service holds, creates one under a name or an id that is
\* taken, brings content that is not signed with the key of the vault, or asks
\* for a link without saying where.
Answered(c) ==
  /\ Called(c)
  /\ Respond(c)
  /\ UNCHANGED <<phase, storeVars>>

\* The client has the answer.
Taken(c) ==
  /\ call[c].pc = "answered"
  /\ call' = [call EXCEPT ![c] = Free]
  /\ UNCHANGED <<phase, storeVars>>

-----------------------------------------------------------------------------
\* What createVault and setContent do with the content of a request.

\* deserialize() throws, or answers null, and the handler throws.
Unreadable(c) ==
  /\ Called(c)
  /\ \E d \in Sent : \E b \in Request(d) : ~Readable(b)
  /\ Cut

\* Signed with the key of vault v; content that is not is refused.
Valid(b, v) == Readable(b) /\ Validate(Deserialize(b), v)

-----------------------------------------------------------------------------
\* createVault.

CreateVault(c, n, v, d) ==
  /\ Called(c)
  /\ Vaults!Open(n, v)
  /\ Valid(Bytes(d), v)
  /\ Enter(c, [Free EXCEPT !.pc = "initializes", !.vault = v, !.db = n, !.content = d])
  /\ UNCHANGED phase

\* initialize(): it writes where it finds nothing.
InitializeReads(c) ==
  /\ Resumed(c, "initializes")
  /\ IF call[c].db \in Name /\ stored[call[c].db] \in Document THEN Respond(c)
     ELSE call' = [call EXCEPT ![c].pc = "fills"]
  /\ UNCHANGED <<phase, storeVars>>

\* setContent(), which fails on a destroyed database, and on a removed document.
Store(c) ==
  /\ call[c].db \in Name /\ stored[call[c].db] # Removed
  /\ stored' = [stored EXCEPT ![call[c].db] = call[c].content]
  /\ UNCHANGED <<names, handles, tenants>>

InitializeWrites(c) ==
  /\ Resumed(c, "fills")
  /\ Store(c)
  /\ Enter(c, [Free EXCEPT !.pc = "finishes"])
  /\ UNCHANGED phase

\* The database or its document is gone, or the write fails.
WriteFails(c) ==
  /\ Resumed(c, "fills") \/ Resumed(c, "writes")
  /\ Respond(c)
  /\ UNCHANGED <<phase, storeVars>>

\* republish() ends, or the first pull of a link, whatever it brought (Replicated).
Finishes(c) ==
  /\ Resumed(c, "finishes")
  /\ Respond(c)
  /\ UNCHANGED <<phase, storeVars>>

-----------------------------------------------------------------------------
\* deleteVault: the names go at once, the database when destroy() is done.  Until
\* then calls go on using it, and a vault may be opened on it under its name.

DeleteVault(c, n) ==
  /\ Called(c)
  /\ names[n] # None
  /\ Enter(c, [Free EXCEPT !.pc = "destroys", !.db = handles[names[n]]])
  /\ Vaults!Forget(names[n])
  /\ UNCHANGED phase

\* Mutant of Destroys: a call that holds the database goes on, and makes it again.
DestroysAlone(c) ==
  /\ Resumed(c, "destroys")
  /\ call[c].db \in Name
  /\ Vaults!Destroy(call[c].db)
  /\ call' = [call EXCEPT ![c] = [Free EXCEPT !.pc = "answered"]]
  /\ UNCHANGED phase

\* The calls that hold the database are left with nothing.
Destroys(c) ==
  /\ Resumed(c, "destroys")
  /\ call[c].db \in Name
  /\ Vaults!Destroy(call[c].db)
  /\ call' = [d \in Call |->
       IF d = c THEN [Free EXCEPT !.pc = "answered"]
       ELSE IF call[d].db = call[c].db THEN [call[d] EXCEPT !.db = Gone]
       ELSE call[d]]
  /\ UNCHANGED phase

\* The disk refuses, or another delete destroyed the database.
DestroyFails(c) ==
  /\ Resumed(c, "destroys")
  /\ Respond(c)
  /\ UNCHANGED <<phase, storeVars>>

-----------------------------------------------------------------------------
\* getContent.

GetContent(c, n) ==
  /\ Called(c)
  /\ names[n] # None
  /\ Enter(c, [Free EXCEPT !.pc = "reads", !.name = n, !.vault = names[n],
                           !.db = handles[names[n]]])
  /\ UNCHANGED <<phase, storeVars>>

\* The content of the database that the call holds on to, with a key.
AnswerContent(c, key) ==
  LET db == call[c].db
      answer == [key |-> key, content |-> stored[db], from |-> tenants[db]]
  IN  call' = [call EXCEPT ![c] = [Free EXCEPT !.pc = "answered", !.answer = answer]]

\* Mutant of GetContentEnds: the key is that of the vault the name leads to now.
GetContentEndsByName(c) ==
  /\ Resumed(c, "reads")
  /\ call[c].db \in Name /\ stored[call[c].db] \in Document /\ names[call[c].name] # None
  /\ AnswerContent(c, names[call[c].name])
  /\ UNCHANGED <<phase, storeVars>>

\* Mutant of GetContentEnds: nobody looks whether there is content.
GetContentEndsUnchecked(c) ==
  /\ Resumed(c, "reads")
  /\ call[c].db \in Name
  /\ AnswerContent(c, call[c].vault)
  /\ UNCHANGED <<phase, storeVars>>

GetContentEnds(c) ==
  /\ Resumed(c, "reads")
  /\ call[c].db \in Name /\ stored[call[c].db] \in Document
  /\ AnswerContent(c, call[c].vault)
  /\ UNCHANGED <<phase, storeVars>>

\* There is no content, or the read fails.
NoContent(c) ==
  /\ Resumed(c, "reads")
  /\ Respond(c)
  /\ UNCHANGED <<phase, storeVars>>

-----------------------------------------------------------------------------
\* setContent.

SetContent(c, n, d) ==
  /\ Called(c)
  /\ names[n] # None /\ Valid(Bytes(d), names[n])
  /\ Enter(c, [Free EXCEPT !.pc = "writes", !.vault = names[n], !.db = handles[names[n]],
                           !.content = d])
  /\ UNCHANGED <<phase, storeVars>>

SetContentEnds(c) ==
  /\ Resumed(c, "writes")
  /\ Store(c)
  /\ Respond(c)
  /\ UNCHANGED phase

-----------------------------------------------------------------------------
\* linkVault.  Without a port, or with an invalid one, it answers and goes on,
\* with a link that reaches nobody and whose answer nobody hears.

LinkVault(c, n) ==
  /\ Called(c)
  /\ Enter(c, [Free EXCEPT !.pc = "links", !.name = n])
  /\ UNCHANGED <<phase, storeVars>>

\* The peer has a vault v of that name.  A vault that is held takes the name;
\* for one that is not, the name must be free.
LinkFound(c, v) ==
  /\ Resumed(c, "links")
  /\ Vaults!Link(call[c].name, v) \/ Vaults!Open(call[c].name, v)
  /\ Enter(c, [Free EXCEPT !.pc = "finishes"])
  /\ UNCHANGED phase

LinkFails(c) ==
  /\ Resumed(c, "links")
  /\ Respond(c)
  /\ UNCHANGED <<phase, storeVars>>

-----------------------------------------------------------------------------
\* Replication, by a pull or by a peer's push, goes by names: a database is given
\* whatever the peer has under its name, and nothing checks that before it is
\* stored.  What it gives is the content of some vault, by whichever client.
Replicated(n, d) ==
  /\ Running
  /\ tenants[n] # {}
  /\ stored' = [stored EXCEPT ![n] = d]
  /\ tenants' = [tenants EXCEPT ![n] = @ \cup {d.vault}]
  /\ UNCHANGED <<phase, names, handles, call>>

\* A change that is rejected, on this device or on a peer, takes the content away.
Withdrawn(n) ==
  /\ Running
  /\ Vaults!Withdraw(n)
  /\ UNCHANGED <<phase, call>>

-----------------------------------------------------------------------------
Begin(c) ==
  \/ Answered(c) \/ Taken(c)
  \/ \E n \in Used : DeleteVault(c, n) \/ GetContent(c, n) \/ LinkVault(c, n)
  \/ \E n \in Used, d \in Sent :
       SetContent(c, n, d) \/ \E v \in Vault : CreateVault(c, n, v, d)
  \/ Unreadable(c)

Resume(c) ==
  /\ UnderWay(c)
  /\ \/ InitializeReads(c) \/ InitializeWrites(c) \/ WriteFails(c) \/ Finishes(c)
     \/ Destroys(c) \/ DestroyFails(c)
     \/ GetContentEnds(c) \/ NoContent(c) \/ SetContentEnds(c) \/ LinkFails(c)
     \/ \E v \in Vault : LinkFound(c, v)

Next ==
  \/ Start \/ StartFails \/ Stop \/ Shutdown \/ Ended
  \/ \E c \in Call : Begin(c) \/ Resume(c)
  \/ \E n \in Used : Withdrawn(n) \/ \E d \in Document : Replicated(n, d)

\* What a handler awaits ends, one way or the other.
Spec ==
  /\ Init /\ [][Next]_vars
  /\ \A c \in Call : WF_vars(Resume(c))

-----------------------------------------------------------------------------
TypeOK ==
  /\ phase \in {"starting", "serving", "draining", "ended", "cut"}
  /\ names \in [Name -> Vault \cup {None}]
  /\ handles \in [Vault -> Name \cup {Gone, None}]
  /\ stored \in [Name -> Document \cup {Empty, Removed}]
  /\ tenants \in [Name -> SUBSET Vault]
  /\ call \in [Call -> CallState]

\* Content that a database holds is of a vault it was opened for, or that a
\* peer brought there.  It opens with the password of that vault, in either
\* language, and gives both the same private key and the same entries, but for
\* what only TypeScript reads: whichever client wrote it, and wherever its name
\* led to, and whoever shared its database, between the request and the write.
StoredOpens ==
  \A n \in Name : stored[n] \in Document =>
    LET v == stored[n].vault
        b == Bytes(stored[n])
        legible == stored[n].by = "cs" \/ TextOf[v] \in Ascii
    IN  /\ v \in tenants[n]
        /\ JsOpens(v, PasswordOf[v], b) /\ CsOpens(v, PasswordOf[v], b)
        /\ JsContent(b) = [key |-> Key(v), text |-> TextOf[v]]
        /\ CsContent(b) = [key |-> Key(v), text |-> IF legible THEN TextOf[v] ELSE Garbled]

\* A client that gets a key and a content validates the one with the other
\* (AuthenticatedClientContext.cs:104-109), although the name it asked for may
\* have come to lead to another vault meanwhile: if the database it was read
\* from was one vault's.  One that came to be shared may hold the content of
\* another, and the client then reports that the content is not valid.
AnswersMatch ==
  \A c \in Call : call[c].answer # None =>
    LET answer == call[c].answer IN
    \A v \in Vault : answer.from = {v} =>
      CsValidate(CsDeserialize(Bytes(answer.content)), answer.key)

\* Whatever calls, deletes and peers overlap, they change the vaults as
\* VaultStore promises: a call takes no name or vault that came to be taken
\* while it waited, and writes nothing but a tenant's own content, to a database
\* that is still there.
KeepsVaults == Vaults!Spec

\* A call is answered, also when the process is told to stop: unless the
\* process ends without waiting for calls.
EveryCallAnswered == \A c \in Call : UnderWay(c) ~> ~UnderWay(c) \/ phase = "cut"
=============================================================================
