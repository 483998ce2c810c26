------------------------------ MODULE ViewModel ------------------------------
(***************************************************************************)
(* The clients of the service: the desktop application, with the view model *)
(* of Model/PasswordCollectionViewModel.cs, and the command line program,   *)
(* both over Contexts/AuthenticatedClientContext.cs; and what the service   *)
(* does for them in onGetContent, onSetContent and the like.                *)
(*                                                                          *)
(* The application has one thread for its window.  A command runs on it up  *)
(* to the request it awaits, and goes on when the answer is there: between  *)
(* the two the user may do anything else, the dialogs can be closed while   *)
(* they wait, and answers come in any order.                                *)
(*                                                                          *)
(* A payload is encrypted with the password of its vault and signed with    *)
(* the private key that it holds itself.  A client gets the key from the    *)
(* payloads it reads.  Here a key is the vault it belongs to, and a name    *)
(* leads to one vault (VaultRegistry has the rest).                         *)
(***************************************************************************)
EXTENDS Naturals

CONSTANTS
  Vault,    \* vaults, and the names of them
  Entry,    \* the keys under which a vault holds its passwords
  Edit,     \* passwords; each is typed once
  Call,     \* commands that may be under way together
  None      \* no value

\* The entries of a vault: None where there is no such entry.
Entries == [Entry -> Edit \cup {None}]
NoEntries == [k \in Entry |-> None]

Payload == [key : Vault, entries : Entries]

ASSUME NoneAssumption == None \notin Vault \cup Edit \cup Payload

VARIABLES
  stored,   \* vault -> the payload the service has for it, None if it is not held
  name,     \* the vault whose title is shown, None if none is open
  key,      \* the private key the next save signs with
  items,    \* the entries that are shown
  message,  \* the line under the entries
  typedFor, \* edit -> the vault it was typed for, None if it was not typed yet
  call      \* the commands under way

vars == <<stored, name, key, items, message, typedFor, call>>

\* A command: what it asked of the service last ("fetch" and "push" are the two
\* halves of the command line's "vault set"), whether that was answered, for
\* which vault, and the payload that was sent or received.
CallState ==
  [op : {"none", "create", "link", "open", "pull", "save", "fetch", "push"},
   pc : {"idle", "sent", "done", "failed"},
   vault : Vault \cup {None},
   payload : Payload \cup {None}]
IdleCall == [op |-> "none", pc |-> "idle", vault |-> None, payload |-> None]

Request(op, v, p) == [op |-> op, pc |-> "sent", vault |-> v, payload |-> p]

\* Some vaults were created or linked before the application was started.
Init ==
  /\ stored \in [Vault -> Payload \cup {None}]
  /\ \A v \in Vault : stored[v] # None => stored[v] = [key |-> v, entries |-> NoEntries]
  /\ name = None
  /\ key = None
  /\ items = NoEntries
  /\ message = "idle"
  /\ typedFor = [e \in Edit |-> None]
  /\ call = [c \in Call |-> IdleCall]

-----------------------------------------------------------------------------
\* The user.  Entries and buttons are shown while a vault is open.

\* PasswordSetCommand: an entry of the same key is replaced.
SetPassword(k, e) ==
  /\ name # None
  /\ typedFor[e] = None
  /\ items' = [items EXCEPT ![k] = e]
  /\ typedFor' = [typedFor EXCEPT ![e] = name]
  /\ UNCHANGED <<stored, name, key, message, call>>

Send(c, request) ==
  /\ call[c].pc = "idle"
  /\ call' = [call EXCEPT ![c] = request]

\* The forms of the menu: New, Open, Link Remote.
SubmitForm(c, v) ==
  /\ \/ Send(c, Request("create", v, [key |-> v, entries |-> NoEntries]))
     \/ Send(c, Request("open", v, None))
     \/ Send(c, Request("link", v, None))
  /\ UNCHANGED <<stored, name, key, items, message, typedFor>>

SaveClient(c) ==
  /\ name # None
  /\ Send(c, Request("save", name, [key |-> key, entries |-> items]))
  /\ message' = "saving"
  /\ UNCHANGED <<stored, name, key, items, typedFor>>

UpdateClient(c) ==
  /\ name # None
  /\ Send(c, Request("pull", name, None))
  /\ message' = "fetching"
  /\ UNCHANGED <<stored, name, key, items, typedFor>>

\* The entries stay in memory; nothing shows them until they are replaced.
CloseClient ==
  /\ name # None
  /\ name' = None
  /\ key' = None
  /\ message' = "idle"
  /\ UNCHANGED <<stored, items, typedFor, call>>

\* "vault set" on the command line begins with a fetch.
VaultSet(c, v) ==
  /\ Send(c, Request("fetch", v, None))
  /\ UNCHANGED <<stored, name, key, items, message, typedFor>>

-----------------------------------------------------------------------------
\* The service.

Answer(c, p) == call' = [call EXCEPT ![c].pc = "done", ![c].payload = p]

Store(v, p) == stored' = [stored EXCEPT ![v] = p]

\* Mutant of Validates: the service takes any payload for any vault.
ValidatesAnything(c) == TRUE

\* What a private key signs, the public key of its own vault validates.
Validates(c) == call[c].payload.key = call[c].vault

GetContent(c) ==
  /\ call[c].pc = "sent"
  /\ call[c].op \in {"open", "pull", "fetch"}
  /\ stored[call[c].vault] # None
  /\ Answer(c, stored[call[c].vault])
  /\ UNCHANGED <<stored, name, key, items, message, typedFor>>

SetContent(c) ==
  /\ call[c].pc = "sent"
  /\ call[c].op \in {"save", "push"}
  /\ stored[call[c].vault] # None
  /\ Validates(c)
  /\ Store(call[c].vault, call[c].payload)
  /\ Answer(c, call[c].payload)
  /\ UNCHANGED <<name, key, items, message, typedFor>>

CreateVault(c) ==
  /\ call[c].pc = "sent"
  /\ call[c].op = "create"
  /\ stored[call[c].vault] = None
  /\ Store(call[c].vault, call[c].payload)
  /\ Answer(c, call[c].payload)
  /\ UNCHANGED <<name, key, items, message, typedFor>>

\* A vault that is linked comes with the content of the peer.
LinkVault(c) ==
  /\ call[c].pc = "sent"
  /\ call[c].op = "link"
  /\ IF stored[call[c].vault] # None
     THEN UNCHANGED stored
     ELSE Store(call[c].vault, [key |-> call[c].vault, entries |-> NoEntries])
  /\ Answer(c, None)
  /\ UNCHANGED <<name, key, items, message, typedFor>>

\* No vault of that name, a name in use, a signature that is not valid, a write that
\* conflicts, or a connection that is lost: before the request was served,
\* or after it, when only the answer is.
RequestFails(c) ==
  /\ call[c].pc \in {"sent", "done"}
  /\ call' = [call EXCEPT ![c].pc = "failed", ![c].payload = None]
  /\ UNCHANGED <<stored, name, key, items, message, typedFor>>

-----------------------------------------------------------------------------
\* What the clients do with the answers.

Arrived(c, ops, pcs) == call[c].op \in ops /\ call[c].pc \in pcs

Return(c) == call' = [call EXCEPT ![c] = IdleCall]

\* Mutant of Opened: the key is left to the first pull.
OpenedWithoutKey(c) ==
  /\ Arrived(c, {"open", "create"}, {"done"})
  /\ items' = call[c].payload.entries
  /\ name' = call[c].vault
  /\ Return(c)
  /\ UNCHANGED <<stored, key, message, typedFor>>

\* The end of OpenClient and of CreateClient: the vault that is shown changes.
Opened(c) ==
  /\ Arrived(c, {"open", "create"}, {"done"})
  /\ items' = call[c].payload.entries
  /\ name' = call[c].vault
  /\ key' = call[c].payload.key
  /\ Return(c)
  /\ UNCHANGED <<stored, message, typedFor>>

\* LinkRemoteClient and ResolveRemoteClient go on to open the vault.
Linked(c) ==
  /\ Arrived(c, {"link"}, {"done"})
  /\ call' = [call EXCEPT ![c] = Request("open", call[c].vault, None)]
  /\ UNCHANGED <<stored, name, key, items, message, typedFor>>

FormFails(c) ==
  /\ Arrived(c, {"open", "create", "link"}, {"failed"})
  /\ Return(c)
  /\ UNCHANGED <<stored, name, key, items, message, typedFor>>

\* The end of UpdateClient: the vault it asked for need not be shown any more.
Pulled(c) ==
  /\ Arrived(c, {"pull"}, {"done"})
  /\ items' = call[c].payload.entries
  /\ key' = call[c].payload.key
  /\ message' = "pulled"
  /\ Return(c)
  /\ UNCHANGED <<stored, name, typedFor>>

\* Mutant of PullFails: the exception is swallowed.
PullFailsSilently(c) ==
  /\ Arrived(c, {"pull"}, {"failed"})
  /\ Return(c)
  /\ UNCHANGED <<stored, name, key, items, message, typedFor>>

PullFails(c) ==
  /\ Arrived(c, {"pull"}, {"failed"})
  /\ message' = "fetch failed"
  /\ Return(c)
  /\ UNCHANGED <<stored, name, key, items, typedFor>>

\* Mutant of SaveEnds: the continuation of a save that failed is never run.
SaveEndsWhenStored(c) ==
  /\ Arrived(c, {"save"}, {"done"})
  /\ message' = "saved"
  /\ Return(c)
  /\ UNCHANGED <<stored, name, key, items, typedFor>>

\* OnCompleted runs whether or not the save failed.
SaveEnds(c) ==
  /\ Arrived(c, {"save"}, {"done", "failed"})
  /\ message' = "saved"
  /\ Return(c)
  /\ UNCHANGED <<stored, name, key, items, typedFor>>

\* "vault set" changes an entry of what it fetched, and pushes the whole.
PushVaultContent(c, k, e) ==
  /\ Arrived(c, {"fetch"}, {"done"})
  /\ typedFor[e] = None
  /\ typedFor' = [typedFor EXCEPT ![e] = call[c].vault]
  /\ call' = [call EXCEPT ![c] =
       Request("push", @.vault, [@.payload EXCEPT !.entries[k] = e])]
  /\ UNCHANGED <<stored, name, key, items, message>>

\* The program ends; "vault get" ends after the fetch.
CommandEnds(c) ==
  /\ Arrived(c, {"fetch", "push"}, {"done", "failed"})
  /\ Return(c)
  /\ UNCHANGED <<stored, name, key, items, message, typedFor>>

-----------------------------------------------------------------------------
Serve(c) ==
  GetContent(c) \/ SetContent(c) \/ CreateVault(c) \/ LinkVault(c) \/ RequestFails(c)

Resume(c) ==
  Opened(c) \/ Linked(c) \/ FormFails(c) \/ Pulled(c) \/ PullFails(c) \/ SaveEnds(c)

User ==
  \/ \E k \in Entry, e \in Edit : SetPassword(k, e)
  \/ \E c \in Call, v \in Vault : SubmitForm(c, v) \/ VaultSet(c, v)
  \/ \E c \in Call : SaveClient(c) \/ UpdateClient(c)
  \/ CloseClient

Next ==
  \/ User
  \/ \E c \in Call :
       \/ Serve(c) \/ Resume(c) \/ CommandEnds(c)
       \/ \E k \in Entry, e \in Edit : PushVaultContent(c, k, e)

Spec == Init /\ [][Next]_vars

\* A request is answered in the end, and the window's thread runs what awaits it.
FairSpec == Spec /\ \A c \in Call : WF_vars(Serve(c)) /\ WF_vars(Resume(c))

-----------------------------------------------------------------------------
\* Every variable has its type; a command that was sent or answered has the payload
\* that goes with it (AuthenticatedClientContext.cs:69-119); and whenever a vault
\* is shown there is a key to sign a save of it with, which SaveClient checks for
\* (PasswordCollectionViewModel.cs:162-168).
CallOK(x) ==
  /\ x \in CallState
  /\ x.op = "none" <=> x.pc = "idle"
  /\ x.pc # "idle" => x.vault \in Vault
  /\ x.op \in {"create", "save", "push"} /\ x.pc = "sent" => x.payload # None
  /\ x.op \in {"create", "open", "pull", "fetch"} /\ x.pc = "done" => x.payload # None

TypeOK ==
  /\ stored \in [Vault -> Payload \cup {None}]
  /\ name \in Vault \cup {None}
  /\ key \in Vault \cup {None}
  /\ items \in Entries
  /\ message \in {"idle", "saving", "saved", "fetching", "pulled", "fetch failed"}
  /\ typedFor \in [Edit -> Vault \cup {None}]
  /\ call \in [Call -> CallState]
  /\ \A c \in Call : CallOK(call[c])
  /\ name # None => key # None

\* A payload of vault v alone: with its key, and passwords that were typed for it.
Own(p, v) ==
  /\ p.key = v
  /\ \A k \in Entry : p.entries[k] # None => typedFor[p.entries[k]] = v

\* What the service holds for a vault has that vault's key, without which no
\* client could ever save to it again, and only passwords that were typed while
\* its title was shown or its name given: although UpdateClient
\* (PasswordCollectionViewModel.cs:175-188) may put the entries of one vault
\* under the title of another, where the user can edit and save them.
ContentStaysHome == \A v \in Vault : stored[v] # None => Own(stored[v], v)

\* "Saving..." and "Fetching..." are shown only while a command is under way that
\* will replace them (PasswordCollectionViewModel.cs:263-301): a late answer, or
\* the end of another command, never leaves one of them behind.
MessageHasCommand ==
  /\ message = "saving" => \E c \in Call : call[c].op = "save"
  /\ message = "fetching" => \E c \in Call : call[c].op = "pull"

\* The user is told of the end of a save or a pull in the end, whatever else is
\* done meanwhile and whether or not it failed
\* (PasswordCollectionViewModel.cs:263-301).
EveryMessageResolves ==
  message \in {"saving", "fetching"} ~> message \notin {"saving", "fetching"}
=============================================================================
