-------------------------------- MODULE Shell --------------------------------
(***************************************************************************)
(* server/ShellCommandServer.ts: the shell inside the service, over the     *)
(* vaults it shares with the gRPC clients and with replication.             *)
(*                                                                          *)
(* A line is one event.  It goes to whoever listens at that moment: the     *)
(* reader of commands, which detaches itself until its command has ended,   *)
(* or a password prompt.  A line nobody listens for is lost.  So there is   *)
(* one command at a time, but the vaults it works on change between its     *)
(* awaits: they are created, deleted and written by others.                 *)
(*                                                                          *)
(* A document is encrypted with a password, and holds the private key it is *)
(* signed with.  Here that key is the id of its vault; of the entries only   *)
(* the vault they are written to matters.                                   *)
(***************************************************************************)
EXTENDS WebServer

CONSTANTS
  Name,        \* local names of vaults, and the names peers give theirs
  Used,        \* bound: those of them that commands, clients and peers use
  Id,          \* vaults: a public key, with its private key
  Password,    \* passwords
  PasswordOf,  \* vault -> the password whoever makes it chooses
  Empty,       \* a database without content
  Removed,     \* a database whose content was removed
  Gone         \* a handle whose database was destroyed

Doc == [key : Id, password : Password]
NewDoc(i) == [key |-> i, password |-> PasswordOf[i]]

ASSUME ShellAssumption ==
  /\ Used \subseteq Name
  /\ PasswordOf \in [Id -> Password]
  /\ None \notin Name \cup Id \cup Password \cup Doc \cup {Empty, Removed, Gone}
  /\ Gone \notin Name
  /\ Empty \notin Doc /\ Removed \notin Doc \cup {Empty}

VARIABLES
  names,     \* vaultIdMap: name -> id, None if there is no such name
  handles,   \* vaultMap: id -> the database it was opened on, None if it is not held
  disk,      \* database -> its content
  tenants,   \* history: database -> the vaults whose content belongs there
  leaving,   \* databases for which a client's delete is in destroy()
  listener,  \* the listeners of "line"
  silent,    \* whether the terminal echoes nothing
  active,    \* activeVault, None if there is none
  cmd,       \* the command under way
  ended      \* whether the process has ended

storeVars == <<names, handles, disk, tenants, leaving>>
sessionVars == <<listener, silent, active, cmd, ended>>
vars == <<storeVars, sessionVars, webVars>>

OwnContent == [i \in Id |-> {NewDoc(i)}]

\* The maps and databases of the service, which others change as well.
Vaults == INSTANCE VaultStore WITH Vault <- Id, stored <- disk, Own <- OwnContent

\* The password is None where it could not be made into a key.
Active == [name : Name, password : Password \cup {None}]

\* db is the database whose handle a command holds on to.
Command ==
  [op : {"none", "query", "new", "login", "delete", "set", "link", "up", "down", "quit"},
   pc : {"idle", "waits", "password", "derives", "creates", "initializes", "fills",
         "republishes", "destroys", "reads", "writes", "pulls", "closes", "done"},
   name : Name \cup {None},
   nick : Name \cup {None},
   vault : Id \cup {None},
   db : Name \cup {Gone, None},
   password : Password \cup {None},
   doc : Doc \cup {None}]

Idle == [op |-> "none", pc |-> "idle", name |-> None, nick |-> None, vault |-> None,
         db |-> None, password |-> None, doc |-> None]
Done == [Idle EXCEPT !.pc = "done"]

\* Some vaults are loaded before the shell starts.
Init ==
  /\ Vaults!Init
  /\ \A n \in Name \ Used :
       /\ tenants[n] = {names[n]} \ {None}
       /\ disk[n] = IF names[n] = None THEN Empty ELSE NewDoc(names[n])
  /\ leaving = {}
  /\ listener = {"command"}
  /\ silent = FALSE
  /\ active = None
  /\ cmd = Idle
  /\ ended = FALSE
  /\ WebInit

\* A key pair that was just made: no vault, here or elsewhere, has it.
Fresh(i) == \A n \in Name : i \notin tenants[n]

-----------------------------------------------------------------------------
\* The reader of commands.

\* Mutant of TakeLine: the reader stays attached while its command runs.
TakeLineKept == listener

\* The first thing it does is to detach itself.
TakeLine == listener \ {"command"}

Reads == ~ended /\ "command" \in listener

Begin(c) ==
  /\ Reads
  /\ listener' = TakeLine
  /\ cmd' = c

\* A command that asks for a password before anything else.
BeginWithPassword(c) ==
  /\ Reads
  /\ listener' = TakeLine \cup {"password"}
  /\ silent' = TRUE
  /\ cmd' = [c EXCEPT !.pc = "password"]

End == cmd' = Done

\* The end of commandParseHandler, however the command ended.
Prompt ==
  /\ cmd.pc = "done"
  /\ listener' = listener \cup {"command"}
  /\ cmd' = Idle
  /\ UNCHANGED <<storeVars, silent, active, ended, webVars>>

\* Lines that are refused at once: unknown, incomplete, or without a vault.
Refuse ==
  /\ Begin(Done)
  /\ UNCHANGED <<storeVars, silent, active, ended, webVars>>

\* Lines that only ask: vault get, vault list, peer list, peer link.
Query ==
  /\ Begin([Idle EXCEPT !.op = "query", !.pc = "waits"])
  /\ UNCHANGED <<storeVars, silent, active, ended, webVars>>

QueryEnds ==
  /\ cmd.op = "query" /\ cmd.pc = "waits"
  /\ End
  /\ UNCHANGED <<storeVars, listener, silent, active, ended, webVars>>

-----------------------------------------------------------------------------
\* Passwords.

TypePassword(p) ==
  /\ ~ended /\ "password" \in listener
  /\ listener' = listener \ {"password"}
  /\ cmd' = [cmd EXCEPT !.pc = "derives", !.password = p]
  /\ UNCHANGED <<storeVars, silent, active, ended, webVars>>

\* Mutant of Echo: nothing turns the echo on again.
EchoStaysOff == UNCHANGED silent

\* The finally of promptPasswordCreation.
Echo == silent' = FALSE

\* The key is derived.  A login or a link makes its vault the active one:
\* under the name it has at the peer, even if it was linked as another.
LoggedIn ==
  /\ cmd.pc = "derives" /\ cmd.op \in {"login", "link"}
  /\ Echo
  /\ active' = [name |-> cmd.name, password |-> cmd.password]
  /\ End
  /\ UNCHANGED <<storeVars, listener, ended, webVars>>

\* No key can be made of the password.  A login sets the vault active all the
\* same, without a cipher; a link does not; "vault new" throws.
DerivationFails ==
  /\ cmd.pc = "derives"
  /\ Echo
  /\ active' = IF cmd.op = "login"
               THEN [name |-> cmd.name, password |-> None]
               ELSE active
  /\ End
  /\ UNCHANGED <<storeVars, listener, ended, webVars>>

VaultLogin(n) ==
  /\ names[n] # None
  /\ BeginWithPassword([Idle EXCEPT !.op = "login", !.name = n])
  /\ UNCHANGED <<storeVars, active, ended, webVars>>

-----------------------------------------------------------------------------
\* vault new: the password, a key pair, and onCreateVault.

VaultNew(n) ==
  /\ BeginWithPassword([Idle EXCEPT !.op = "new", !.name = n])
  /\ UNCHANGED <<storeVars, active, ended, webVars>>

NewDerived ==
  /\ cmd.pc = "derives" /\ cmd.op = "new"
  /\ Echo
  /\ cmd' = [cmd EXCEPT !.pc = "creates"]
  /\ UNCHANGED <<storeVars, listener, active, ended, webVars>>

NewCreated(i) ==
  /\ cmd.pc = "creates"
  /\ Fresh(i) /\ PasswordOf[i] = cmd.password
  /\ Vaults!Open(cmd.name, i)
  /\ cmd' = [cmd EXCEPT !.pc = "initializes", !.vault = i, !.db = cmd.name]
  /\ UNCHANGED <<leaving, listener, silent, active, ended, webVars>>

\* initialize(): what a database held before, or was brought meanwhile, stays,
\* and the command fails.
NewReads ==
  /\ cmd.pc = "initializes"
  /\ IF cmd.db \in Name /\ disk[cmd.db] \in Doc THEN End
     ELSE cmd' = [cmd EXCEPT !.pc = "fills"]
  /\ UNCHANGED <<storeVars, listener, silent, active, ended, webVars>>

\* setContent(), which fails on a destroyed database, and on a removed document.
Stores(d) ==
  /\ cmd.db \in Name /\ disk[cmd.db] # Removed
  /\ disk' = [disk EXCEPT ![cmd.db] = d]

NewInitialized ==
  /\ cmd.pc = "fills"
  /\ Stores([key |-> cmd.vault, password |-> cmd.password])
  /\ cmd' = [cmd EXCEPT !.pc = "republishes"]
  /\ UNCHANGED <<names, handles, tenants, leaving, listener, silent, active, ended, webVars>>

NewPublished ==
  /\ cmd.pc = "republishes"
  /\ active' = [name |-> cmd.name, password |-> cmd.password]
  /\ End
  /\ UNCHANGED <<storeVars, listener, silent, ended, webVars>>

\* The name is taken, the database cannot be written, or a peer fails.
NewFails ==
  /\ cmd.pc \in {"creates", "fills", "republishes"}
  /\ End
  /\ UNCHANGED <<storeVars, listener, silent, active, ended, webVars>>

-----------------------------------------------------------------------------
\* vault delete.

VaultDelete(n) ==
  /\ names[n] # None
  /\ Begin([Idle EXCEPT !.op = "delete", !.pc = "destroys", !.name = n,
              !.db = handles[names[n]]])
  /\ Vaults!Forget(names[n])
  /\ UNCHANGED <<leaving, silent, active, ended, webVars>>

\* destroy() is done.
Destroys(n) ==
  /\ Vaults!Destroy(n)
  /\ leaving' = leaving \ {n}

Deleted ==
  /\ cmd.pc = "destroys" /\ cmd.db \in Name
  /\ Destroys(cmd.db)
  /\ active' = IF active # None /\ active.name = cmd.name THEN None ELSE active
  /\ End
  /\ UNCHANGED <<listener, silent, ended, webVars>>

\* The disk refuses, or another delete destroyed the database.
DeleteFails ==
  /\ cmd.pc = "destroys"
  /\ End
  /\ UNCHANGED <<storeVars, listener, silent, active, ended, webVars>>

-----------------------------------------------------------------------------
\* vault set: read, decrypt, change, encrypt, write.

VaultSet ==
  /\ active # None /\ names[active.name] # None
  /\ Begin([Idle EXCEPT !.op = "set", !.pc = "reads", !.vault = names[active.name],
              !.db = handles[names[active.name]]])
  /\ UNCHANGED <<storeVars, silent, active, ended, webVars>>

\* Mutant of Decrypts: any password will do.
DecryptsUnchecked(d, i) == d \in Doc /\ d.key = i

\* Content that is there, validates for the vault, and opens with the
\* password of the login.  Content that is not there yet has no key to sign with.
Decrypts(d, i) == d \in Doc /\ d.key = i /\ d.password = active.password

SetRead ==
  /\ cmd.pc = "reads" /\ cmd.db \in Name
  /\ LET d == disk[cmd.db] IN
       /\ Decrypts(d, cmd.vault)
       /\ cmd' = [cmd EXCEPT !.pc = "writes",
                    !.doc = [key |-> d.key, password |-> active.password]]
  /\ UNCHANGED <<storeVars, listener, silent, active, ended, webVars>>

SetWritten ==
  /\ cmd.pc = "writes"
  /\ Stores(cmd.doc)
  /\ End
  /\ UNCHANGED <<names, handles, tenants, leaving, listener, silent, active, ended, webVars>>

\* Mutant of SetFails: content that cannot be read leaves the command waiting.
SetFailsAtWrite ==
  /\ cmd.pc = "writes"
  /\ End
  /\ UNCHANGED <<storeVars, listener, silent, active, ended, webVars>>

\* Nothing to read, nothing that opens; or a write that fails, which the
\* shell reports as done.
SetFails ==
  /\ cmd.pc \in {"reads", "writes"}
  /\ End
  /\ UNCHANGED <<storeVars, listener, silent, active, ended, webVars>>

-----------------------------------------------------------------------------
\* vault link n@host as m: onVaultLink, then the password.

VaultLink(n, m) ==
  /\ Begin([Idle EXCEPT !.op = "link", !.pc = "waits", !.name = n, !.nick = m])
  /\ UNCHANGED <<storeVars, silent, active, ended, webVars>>

\* The peer has a vault i of that name.  One that is held takes the new
\* name; for one that is not, the name must be free.
LinkFound(i) ==
  /\ cmd.op = "link" /\ cmd.pc = "waits"
  /\ Vaults!Link(cmd.nick, i) \/ Vaults!Open(cmd.nick, i)
  /\ cmd' = [cmd EXCEPT !.pc = "pulls", !.vault = i]
  /\ UNCHANGED <<leaving, listener, silent, active, ended, webVars>>

\* The first pull ends, whatever it brought (Arrives), and the password is asked for.
LinkPulled ==
  /\ cmd.pc = "pulls"
  /\ listener' = listener \cup {"password"}
  /\ silent' = TRUE
  /\ cmd' = [cmd EXCEPT !.pc = "password"]
  /\ UNCHANGED <<storeVars, active, ended, webVars>>

LinkFails ==
  /\ cmd.op = "link" /\ cmd.pc = "waits"
  /\ End
  /\ UNCHANGED <<storeVars, listener, silent, active, ended, webVars>>

-----------------------------------------------------------------------------
\* link up, link down.

LinkUp ==
  /\ Begin([Idle EXCEPT !.op = "up", !.pc = "waits"])
  /\ UNCHANGED <<storeVars, silent, active, ended, webVars>>

LinkUpEnds ==
  /\ cmd.op = "up" /\ cmd.pc = "waits"
  /\ (\E p \in Port : Listen(p)) \/ ListenFails
  /\ End
  /\ UNCHANGED <<storeVars, listener, silent, active, ended>>

LinkDown ==
  /\ Begin([Idle EXCEPT !.op = "down", !.pc = "closes"])
  /\ CloseServer
  /\ UNCHANGED <<storeVars, silent, active, ended>>

LinkDownEnds ==
  /\ cmd.pc = "closes"
  /\ Drained
  /\ End
  /\ UNCHANGED <<storeVars, listener, silent, active, ended, webVars>>

-----------------------------------------------------------------------------
\* The end: "quit" unpublishes first; the end of input does not wait for
\* anything, a command under way included.

Quit ==
  /\ Begin([Idle EXCEPT !.op = "quit", !.pc = "waits"])
  /\ UNCHANGED <<storeVars, silent, active, ended, webVars>>

Leave ==
  /\ ~ended
  /\ ended' = TRUE
  /\ listener' = {}
  /\ silent' = FALSE
  /\ active' = None
  /\ cmd' = Idle
  /\ UNCHANGED <<storeVars, webVars>>

QuitEnds == cmd.op = "quit" /\ Leave

Ended == ended /\ UNCHANGED vars

-----------------------------------------------------------------------------
\* The others: gRPC clients, and what replication brings.

\* A client creates a vault, or links one that is not held yet.
ClientOpens(n, i) ==
  /\ ~ended
  /\ Vaults!Open(n, i)
  /\ UNCHANGED <<leaving, sessionVars, webVars>>

ClientLinks(n, i) ==
  /\ ~ended
  /\ Vaults!Link(n, i)
  /\ UNCHANGED <<leaving, sessionVars, webVars>>

\* A client deletes a vault, which takes two steps, and between them the name
\* is free while the database is there.  A destroy() that fails never comes.
ClientDeletes(n) ==
  /\ ~ended
  /\ names[n] # None
  /\ leaving' = leaving \cup ({handles[names[n]]} \cap Name)
  /\ Vaults!Forget(names[n])
  /\ UNCHANGED <<sessionVars, webVars>>

ClientDestroys(n) ==
  /\ ~ended
  /\ n \in leaving
  /\ Destroys(n)
  /\ cmd' = IF cmd.db = n THEN [cmd EXCEPT !.db = Gone] ELSE cmd
  /\ UNCHANGED <<listener, silent, active, ended, webVars>>

\* A database is given content: by a client of the device, or by replication,
\* which goes by names, so it may be that of another vault.
Arrives(n, i) ==
  /\ ~ended
  /\ Vaults!Arrive(n, i)
  /\ UNCHANGED <<leaving, sessionVars, webVars>>

\* A change that is rejected, on this device or on a peer, takes the content away.
Withdrawn(n) ==
  /\ ~ended
  /\ Vaults!Withdraw(n)
  /\ UNCHANGED <<leaving, sessionVars, webVars>>

Peers == \E s \in Server :
  /\ ~ended
  /\ PeerConnects(s) \/ PeerLeaves(s)
  /\ UNCHANGED <<storeVars, sessionVars>>

-----------------------------------------------------------------------------
User ==
  \/ Refuse \/ Query \/ VaultSet \/ LinkUp \/ LinkDown \/ Quit \/ Leave
  \/ \E n \in Used : VaultNew(n) \/ VaultLogin(n) \/ VaultDelete(n)
  \/ \E n, m \in Used : VaultLink(n, m)
  \/ \E p \in Password : TypePassword(p)

Continue ==
  \/ Prompt \/ QueryEnds \/ LoggedIn \/ DerivationFails
  \/ NewDerived \/ NewReads \/ NewInitialized \/ NewPublished \/ NewFails
  \/ Deleted \/ DeleteFails \/ SetRead \/ SetWritten \/ SetFails
  \/ LinkPulled \/ LinkFails \/ LinkUpEnds \/ LinkDownEnds \/ QuitEnds
  \/ \E i \in Id : NewCreated(i) \/ LinkFound(i)

Others ==
  \/ Peers
  \/ \E n \in Name : ClientDestroys(n)
  \/ \E n \in Used : ClientDeletes(n) \/ Withdrawn(n)
  \/ \E n \in Used, i \in Id : ClientOpens(n, i) \/ ClientLinks(n, i) \/ Arrives(n, i)

Next == User \/ Continue \/ Others \/ Ended

Spec == Init /\ [][Next]_vars

\* What a command waits for is answered, one way or the other.
FairSpec == Spec /\ WF_vars(Continue)

-----------------------------------------------------------------------------
TypeOK ==
  /\ WebTypeOK
  /\ names \in [Name -> Id \cup {None}]
  /\ handles \in [Id -> Name \cup {Gone, None}]
  /\ disk \in [Name -> Doc \cup {Empty, Removed}]
  /\ tenants \in [Name -> SUBSET Id]
  /\ leaving \subseteq Name
  /\ listener \subseteq {"command", "password"}
  /\ silent \in BOOLEAN
  /\ active \in Active \cup {None}
  /\ cmd \in Command
  /\ ended \in BOOLEAN

\* A line has one reader.  Commands are read only between commands, so a
\* password is never run as a command, and no two commands share activeVault.
OneReader ==
  /\ listener # {"command", "password"}
  /\ "command" \in listener => cmd = Idle

\* The terminal echoes nothing while a password is typed, and echoes again
\* by the time the next command is.
SecretsAreSilent ==
  /\ "password" \in listener => silent
  /\ "command" \in listener => ~silent

\* What is stored opens with the password of the vault whose key it is signed
\* with, and that vault is a tenant: although databases come to be shared, are
\* given content of other vaults, and are destroyed, between the read and the
\* write of a "vault set".
PasswordStays ==
  \A n \in Name : disk[n] \in Doc =>
    disk[n].key \in tenants[n] /\ disk[n].password = PasswordOf[disk[n].key]

\* Whatever clients and peers do between the awaits of a command, it changes the
\* vaults as VaultStore promises: what it writes has the key and the password
\* of a tenant, and goes to a database that is still there.
KeepsVaults == Vaults!Spec

\* After every command, whatever becomes of it, the shell reads again: unless
\* it waits for the user's password, or for peers that stay connected to the
\* server it closes, or ends.
PromptReturns ==
  cmd # Idle ~>
    \/ "command" \in listener \/ "password" \in listener
    \/ cmd.pc = "closes" /\ ~Drained
    \/ ended
=============================================================================
