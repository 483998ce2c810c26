----------------------------- MODULE ShellProofs -----------------------------
(***************************************************************************)
(* Proofs about Shell, for any names, vaults, passwords, servers and ports.  *)
(*                                                                          *)
(* The invariant has three parts: the session (who reads a line, and what    *)
(* the terminal shows), the vaults with their databases, and the command.    *)
(* Every step is a step of VaultStore, or leaves the vaults alone; that is   *)
(* enough for the second part, whoever takes the step.                       *)
(***************************************************************************)
EXTENDS Shell, TLAPS

\* A prompt belongs to a command, and only such a command silences the terminal.
PromptOwned ==
  /\ "password" \in listener => cmd.pc = "password"
  /\ silent => cmd.pc \in {"password", "derives"}

\* What the terminal shows and who reads it.
SessionInv ==
  /\ listener \subseteq {"command", "password"} /\ silent \in BOOLEAN
  /\ OneReader /\ SecretsAreSilent /\ PromptOwned

\* Names lead to vaults that are held, and a vault is a tenant of the database
\* it was opened on.
StoreInv ==
  /\ names \in [Name -> Id \cup {None}]
  /\ handles \in [Id -> Name \cup {Gone, None}]
  /\ disk \in [Name -> Doc \cup {Empty, Removed}]
  /\ tenants \in [Name -> SUBSET Id]
  /\ \A n \in Name : names[n] # None => handles[names[n]] # None
  /\ \A i \in Id : handles[i] \in Name => i \in tenants[handles[i]]
  /\ PasswordStays

\* What a command has got together by the time it is at its next await, given
\* the tenants t: what it is about to write is its vault's own, and that vault
\* is a tenant of its database, if the database is still there.
CommandOK(c, t) ==
  /\ c \in Command
  /\ c.pc \in {"password", "derives", "creates", "initializes", "fills", "republishes", "pulls"} =>
       c.name # None
  /\ c.pc \in {"derives", "creates", "initializes", "fills", "republishes"} => c.password # None
  /\ c.pc \in {"initializes", "fills"} => c.vault # None /\ c.password = PasswordOf[c.vault]
  /\ c.op = "link" => c.name # None
  /\ c.op = "link" /\ c.pc = "waits" => c.nick # None
  /\ c.pc \in {"initializes", "fills", "reads", "writes"} /\ c.db \in Name => c.vault \in t[c.db]
  /\ c.pc = "writes" =>
       c.doc \in Doc /\ c.doc.key = c.vault /\ c.doc.password = PasswordOf[c.vault]

\* The rest of the state.
BesideInv ==
  WebTypeOK /\ active \in Active \cup {None} /\ leaving \subseteq Name /\ ended \in BOOLEAN

ShellInv == SessionInv /\ StoreInv /\ CommandOK(cmd, tenants) /\ BesideInv

\* What a step does to the vaults.
StoreStep == [Vaults!Next]_<<names, handles, disk, tenants>>

\* What is to be shown of a step.
StepIsOK == ShellInv' /\ StoreStep

-----------------------------------------------------------------------------
\* The vaults.

\* A vault's own content has its key and its password.
LEMMA OwnFacts ==
  ASSUME NEW i \in Id
  PROVE  /\ NewDoc(i) \in Doc /\ NewDoc(i).key = i /\ NewDoc(i).password = PasswordOf[i]
         /\ NewDoc(i) \in OwnContent[i]
         /\ \A d \in OwnContent[i] : d = NewDoc(i)
         /\ \A d \in Doc : d.key = i /\ d.password = PasswordOf[i] => d = NewDoc(i)
  BY ShellAssumption DEF NewDoc, Doc, OwnContent

\* A step that changes what databases hold, but not whose they are.
LEMMA HeldStays ==
  ASSUME StoreInv, UNCHANGED <<names, handles>>,
         disk' \in [Name -> Doc \cup {Empty, Removed}], tenants' \in [Name -> SUBSET Id],
         \A n \in Name : tenants[n] \subseteq tenants'[n], PasswordStays'
  PROVE  StoreInv'
  BY DEF StoreInv

\* Whatever VaultStore allows leaves the vaults in order.
LEMMA StoreStepOK ==
  ASSUME StoreInv, StoreStep
  PROVE  StoreInv'
  <1> USE ShellAssumption
  <1>1. CASE UNCHANGED <<names, handles, disk, tenants>>
    BY <1>1 DEF StoreInv, PasswordStays
  <1>2. ASSUME NEW n \in Name, NEW i \in Id, Vaults!Open(n, i) PROVE StoreInv'
    <2>1. /\ names' = [names EXCEPT ![n] = i] /\ handles' = [handles EXCEPT ![i] = n]
          /\ tenants' = [tenants EXCEPT ![n] = @ \cup {i}] /\ disk' = disk
      BY <1>2 DEF Vaults!Open
    <2>2. /\ names' \in [Name -> Id \cup {None}] /\ handles' \in [Id -> Name \cup {Gone, None}]
          /\ tenants' \in [Name -> SUBSET Id]
          /\ \A m \in Name : tenants[m] \subseteq tenants'[m]
      BY <2>1 DEF StoreInv
    <2>3. \A m \in Name : names'[m] # None => handles'[names'[m]] # None
      BY <2>1 DEF StoreInv
    <2>4. \A j \in Id : handles'[j] \in Name => j \in tenants'[handles'[j]]
      BY <2>1, <2>2 DEF StoreInv
    <2>5. PasswordStays'
      BY <2>1, <2>2 DEF StoreInv, PasswordStays
    <2> QED BY <2>1, <2>2, <2>3, <2>4, <2>5 DEF StoreInv
  <1>3. ASSUME NEW n \in Name, NEW i \in Id, Vaults!Link(n, i) PROVE StoreInv'
    <2>1. /\ names' = [names EXCEPT ![n] = i] /\ handles[i] # None
          /\ UNCHANGED <<handles, disk, tenants>>
      BY <1>3 DEF Vaults!Link
    <2>2. PasswordStays'
      BY <2>1 DEF StoreInv, PasswordStays
    <2> QED BY <2>1, <2>2 DEF StoreInv
  <1>4. ASSUME NEW n \in Name, NEW i \in Id, Vaults!Write(n, i) PROVE StoreInv'
    <2>0. PICK d \in OwnContent[i] : disk' = [disk EXCEPT ![n] = d]
      BY <1>4 DEF Vaults!Write
    <2>1. i \in tenants[n] /\ disk' = [disk EXCEPT ![n] = NewDoc(i)]
          /\ UNCHANGED <<names, handles, tenants>>
      BY <1>4, <2>0, OwnFacts DEF Vaults!Write
    <2>2. disk' \in [Name -> Doc \cup {Empty, Removed}] /\ PasswordStays'
      BY <2>1, OwnFacts DEF StoreInv, PasswordStays
    <2> QED BY <2>1, <2>2, HeldStays DEF StoreInv
  <1>5. ASSUME NEW n \in Name, NEW i \in Id, Vaults!Arrive(n, i) PROVE StoreInv'
    <2>0. PICK d \in OwnContent[i] : disk' = [disk EXCEPT ![n] = d]
      BY <1>5 DEF Vaults!Arrive
    <2>1. /\ disk' = [disk EXCEPT ![n] = NewDoc(i)]
          /\ tenants' = [tenants EXCEPT ![n] = @ \cup {i}]
          /\ UNCHANGED <<names, handles>>
      BY <1>5, <2>0, OwnFacts DEF Vaults!Arrive
    <2>2. /\ tenants' \in [Name -> SUBSET Id] /\ i \in tenants'[n]
          /\ \A m \in Name : tenants[m] \subseteq tenants'[m]
      BY <2>1 DEF StoreInv
    <2>3. disk' \in [Name -> Doc \cup {Empty, Removed}] /\ PasswordStays'
      BY <2>1, <2>2, OwnFacts DEF StoreInv, PasswordStays
    <2> QED BY <2>1, <2>2, <2>3, HeldStays
  <1>6. ASSUME NEW i \in Id, Vaults!Forget(i) PROVE StoreInv'
    <2>1. /\ names' = [n \in Name |-> IF names[n] = i THEN None ELSE names[n]]
          /\ handles' = [handles EXCEPT ![i] = None] /\ UNCHANGED <<disk, tenants>>
      BY <1>6 DEF Vaults!Forget
    <2>2. PasswordStays'
      BY <2>1 DEF StoreInv, PasswordStays
    <2> QED BY <2>1, <2>2 DEF StoreInv
  <1>7. ASSUME NEW n \in Name, Vaults!Destroy(n) PROVE StoreInv'
    <2>1. /\ disk' = [disk EXCEPT ![n] = Empty] /\ tenants' = [tenants EXCEPT ![n] = {}]
          /\ handles' = [i \in Id |-> IF handles[i] = n THEN Gone ELSE handles[i]]
          /\ names' = names
      BY <1>7 DEF Vaults!Destroy
    <2>2. PasswordStays'
      BY <2>1 DEF StoreInv, PasswordStays
    <2>3. /\ handles' \in [Id -> Name \cup {Gone, None}]
          /\ disk' \in [Name -> Doc \cup {Empty, Removed}] /\ tenants' \in [Name -> SUBSET Id]
      BY <2>1 DEF StoreInv
    <2>4. \A m \in Name : names'[m] # None => handles'[names'[m]] # None
      BY <2>1 DEF StoreInv
    <2>5. \A i \in Id : handles'[i] \in Name => i \in tenants'[handles'[i]]
      BY <2>1 DEF StoreInv
    <2> QED BY <2>1, <2>2, <2>3, <2>4, <2>5 DEF StoreInv
  <1>8. ASSUME NEW n \in Name, Vaults!Withdraw(n) PROVE StoreInv'
    <2>1. disk' = [disk EXCEPT ![n] = Removed] /\ UNCHANGED <<names, handles, tenants>>
      BY <1>8 DEF Vaults!Withdraw
    <2>2. disk' \in [Name -> Doc \cup {Empty, Removed}] /\ PasswordStays'
      BY <2>1 DEF StoreInv, PasswordStays
    <2> QED BY <2>1, <2>2, HeldStays DEF StoreInv
  <1> QED BY <1>1, <1>2, <1>3, <1>4, <1>5, <1>6, <1>7, <1>8 DEF StoreStep, Vaults!Next

\* The vaults a service starts with.
LEMMA InitStore == Init => StoreInv
  <1> SUFFICES ASSUME Init PROVE StoreInv
    OBVIOUS
  <1> USE ShellAssumption
  <1>1. /\ names \in [Name -> Id \cup {None}] /\ handles \in [Id -> Name \cup {None}]
        /\ tenants \in [Name -> SUBSET Id]
        /\ disk \in [Name -> (UNION {OwnContent[i] : i \in Id}) \cup {Empty, Removed}]
        /\ \A i \in Id : handles[i] = None <=> \A n \in Name : names[n] # i
        /\ \A n \in Name :
             /\ names[n] # None => handles[names[n]] = n /\ names[n] \in tenants[n]
             /\ disk[n] \in (UNION {OwnContent[i] : i \in tenants[n]}) \cup {Empty, Removed}
    BY DEF Init, Vaults!Init
  <1>2. ASSUME NEW n \in Name
        PROVE  /\ disk[n] \in Doc \cup {Empty, Removed}
               /\ disk[n] \in Doc => disk[n].key \in tenants[n]
                                     /\ disk[n].password = PasswordOf[disk[n].key]
    <2>1. CASE disk[n] \in {Empty, Removed}
      BY <2>1
    <2>2. CASE disk[n] \notin {Empty, Removed}
      <3>0. disk[n] \in UNION {OwnContent[i] : i \in tenants[n]}
        BY <1>1, <2>2
      <3>1. PICK i \in tenants[n] : disk[n] \in OwnContent[i]
        BY <3>0
      <3>2. i \in Id
        BY <1>1, <3>1
      <3> QED BY <3>1, <3>2, OwnFacts
    <2> QED BY <2>1, <2>2
  <1>3. disk \in [Name -> Doc \cup {Empty, Removed}] /\ PasswordStays
    BY <1>1, <1>2 DEF PasswordStays
  <1>4. ASSUME NEW i \in Id, handles[i] \in Name PROVE i \in tenants[handles[i]]
    BY <1>1, <1>4
  <1> QED BY <1>1, <1>3, <1>4 DEF StoreInv

-----------------------------------------------------------------------------
\* The session.

LEMMA IdleOK ==
  ASSUME NEW t
  PROVE  CommandOK(Idle, t) /\ CommandOK(Done, t) /\ Done.pc = "done" /\ Idle.pc = "idle"
  BY ShellAssumption DEF Idle, Done, CommandOK, Command

\* The initial states.
LEMMA InitOK == Init => ShellInv
  <1> SUFFICES ASSUME Init PROVE ShellInv
    OBVIOUS
  <1>1. SessionInv
    BY IdleOK DEF Init, SessionInv, OneReader, SecretsAreSilent, PromptOwned
  <1>2. BesideInv
    BY DEF Init, BesideInv, WebTypeOK, WebInit
  <1>3. CommandOK(cmd, tenants)
    BY IdleOK DEF Init
  <1> QED BY <1>1, <1>2, <1>3, InitStore DEF ShellInv

\* The session stays in order when a command goes on or ends, but for the prompt.
LEMMA GoesOn ==
  ASSUME ShellInv, cmd.pc \notin {"password", "derives", "idle"},
         UNCHANGED <<listener, silent>>
  PROVE  SessionInv'
  <1>1. "command" \notin listener /\ "password" \notin listener /\ ~silent
    BY DEF ShellInv, SessionInv, OneReader, PromptOwned, Idle
  <1> QED BY <1>1 DEF ShellInv, SessionInv, OneReader, SecretsAreSilent, PromptOwned

\* So does it when the key is derived.
LEMMA Derived ==
  ASSUME ShellInv, cmd.pc = "derives", silent' = FALSE, UNCHANGED listener
  PROVE  SessionInv'
  <1>1. "command" \notin listener /\ "password" \notin listener
    BY DEF ShellInv, SessionInv, OneReader, PromptOwned, Idle
  <1> QED BY <1>1 DEF ShellInv, SessionInv, OneReader, SecretsAreSilent, PromptOwned

\* A line that is read as a command.
LEMMA BeginOK ==
  ASSUME ShellInv, NEW c, Begin(c), UNCHANGED silent
  PROVE  SessionInv' /\ cmd' = c
  <1>1. listener' = {} /\ ~silent
    BY DEF ShellInv, SessionInv, OneReader, SecretsAreSilent, Begin, Reads, TakeLine
  <1> QED BY <1>1 DEF Begin, ShellInv, SessionInv, OneReader, SecretsAreSilent, PromptOwned

LEMMA BeginWithPasswordOK ==
  ASSUME ShellInv, NEW c \in Command, BeginWithPassword(c)
  PROVE  SessionInv' /\ cmd' = [c EXCEPT !.pc = "password"]
  <1>1. listener' = {"password"} /\ silent' = TRUE
    BY DEF ShellInv, SessionInv, OneReader, BeginWithPassword, Reads, TakeLine
  <1>2. cmd'.pc = "password" /\ cmd' = [c EXCEPT !.pc = "password"]
    BY DEF BeginWithPassword, Command
  <1> QED BY <1>1, <1>2 DEF SessionInv, OneReader, SecretsAreSilent, PromptOwned

-----------------------------------------------------------------------------
\* The parts of a step.

LEMMA Together ==
  ASSUME ShellInv, StoreStep, SessionInv', CommandOK(cmd', tenants'), BesideInv'
  PROVE  StepIsOK
  BY StoreStepOK DEF ShellInv, StepIsOK

LEMMA StoreStays ==
  ASSUME UNCHANGED storeVars
  PROVE  StoreStep /\ tenants' = tenants /\ leaving' = leaving
  BY DEF StoreStep, storeVars

\* The web server, whatever a command or a peer does to it.
LEMMA WebOK ==
  ASSUME WebTypeOK,
         \/ \E p \in Port : Listen(p)
         \/ ListenFails \/ CloseServer \/ UNCHANGED webVars
         \/ \E s \in Server : PeerConnects(s) \/ PeerLeaves(s)
  PROVE  WebTypeOK'
  BY DEF WebTypeOK, Listen, ListenFails, CloseServer, PeerConnects, PeerLeaves, webVars

LEMMA BesideStays ==
  ASSUME ShellInv, UNCHANGED <<leaving, active, ended, webVars>>
  PROVE  BesideInv'
  BY WebOK DEF ShellInv, BesideInv

\* What a command has got together stays together while databases get tenants.
LEMMA CommandStays ==
  ASSUME ShellInv, cmd' = cmd, \A n \in Name : tenants[n] \subseteq tenants'[n]
  PROVE  CommandOK(cmd', tenants')
  BY DEF ShellInv, CommandOK

-----------------------------------------------------------------------------
\* Commands begin and end.

\* A command that only waits for something, or is refused.
LEMMA BeginOnlyOK ==
  ASSUME ShellInv, NEW c, CommandOK(c, tenants), Begin(c),
         UNCHANGED <<storeVars, silent, active, ended, webVars>>
  PROVE  StepIsOK
  <1>1. SessionInv' /\ cmd' = c
    BY BeginOK
  <1>2. StoreStep /\ tenants' = tenants /\ BesideInv'
    BY StoreStays, BesideStays
  <1> QED BY <1>1, <1>2, Together

LEMMA WaitersOK ==
  ASSUME ShellInv,
         \/ Refuse \/ Query \/ LinkUp \/ Quit
         \/ \E n, m \in Used : VaultLink(n, m)
  PROVE  StepIsOK
  <1>1. CASE Refuse
    BY <1>1, IdleOK, BeginOnlyOK DEF Refuse
  <1>2. ASSUME NEW o \in {"query", "up", "quit"}
        PROVE  CommandOK([Idle EXCEPT !.op = o, !.pc = "waits"], tenants)
    BY DEF Idle, CommandOK, Command
  <1>3. CASE Query \/ LinkUp \/ Quit
    BY <1>2, <1>3, BeginOnlyOK DEF Query, LinkUp, Quit
  <1>4. ASSUME NEW n \in Used, NEW m \in Used, VaultLink(n, m) PROVE StepIsOK
    <2> DEFINE c == [Idle EXCEPT !.op = "link", !.pc = "waits", !.name = n, !.nick = m]
    <2>1. CommandOK(c, tenants)
      BY ShellAssumption DEF Idle, CommandOK, Command
    <2> HIDE DEF c
    <2>2. Begin(c)
      BY <1>4 DEF VaultLink, c
    <2> QED BY <1>4, <2>1, <2>2, BeginOnlyOK DEF VaultLink
  <1> QED BY <1>1, <1>3, <1>4

\* "vault set" gets a handle of the vault, which is a tenant of its database.
LEMMA VaultSetOK ==
  ASSUME ShellInv, VaultSet
  PROVE  StepIsOK
  <1> DEFINE i == names[active.name]
             c == [Idle EXCEPT !.op = "set", !.pc = "reads", !.vault = i, !.db = handles[i]]
  <1>1. i \in Id /\ handles[i] \in Name \cup {Gone, None}
        /\ (handles[i] \in Name => i \in tenants[handles[i]])
    BY DEF ShellInv, StoreInv, BesideInv, Active, VaultSet
  <1>2. Begin(c) /\ UNCHANGED <<storeVars, silent, active, ended, webVars>>
    BY DEF VaultSet
  <1> HIDE DEF i
  <1>3. CommandOK(c, tenants)
    BY <1>1 DEF Idle, CommandOK, Command
  <1> HIDE DEF c
  <1> QED BY <1>2, <1>3, BeginOnlyOK

\* A command that ends without doing more.
LEMMA EndOnlyOK ==
  ASSUME ShellInv, cmd.pc \notin {"password", "derives", "idle"}, End,
         UNCHANGED <<storeVars, listener, silent, active, ended, webVars>>
  PROVE  StepIsOK
  <1>1. SessionInv'
    BY GoesOn
  <1>2. StoreStep /\ tenants' = tenants /\ BesideInv'
    BY StoreStays, BesideStays
  <1>3. CommandOK(cmd', tenants')
    BY IdleOK DEF End
  <1> QED BY <1>1, <1>2, <1>3, Together

LEMMA EndersOK ==
  ASSUME ShellInv,
         QueryEnds \/ NewFails \/ DeleteFails \/ SetFails \/ LinkFails \/ LinkDownEnds
  PROVE  StepIsOK
  BY EndOnlyOK
  DEF QueryEnds, NewFails, DeleteFails, SetFails, LinkFails, LinkDownEnds

\* The prompt comes back when nothing is under way, and the echo with it.
LEMMA PromptOK ==
  ASSUME ShellInv, Prompt
  PROVE  StepIsOK
  <1>1. "password" \notin listener /\ ~silent
    BY DEF ShellInv, SessionInv, PromptOwned, Prompt
  <1>2. SessionInv'
    BY <1>1 DEF ShellInv, Prompt, SessionInv, OneReader, SecretsAreSilent, PromptOwned
  <1>3. StoreStep /\ tenants' = tenants /\ BesideInv'
    BY StoreStays, BesideStays DEF Prompt
  <1>4. CommandOK(cmd', tenants')
    BY IdleOK DEF Prompt
  <1> QED BY <1>2, <1>3, <1>4, Together

LEMMA LeaveOK ==
  ASSUME ShellInv, Leave
  PROVE  StepIsOK
  <1>1. SessionInv'
    BY DEF Leave, SessionInv, OneReader, SecretsAreSilent, PromptOwned
  <1>2. StoreStep /\ tenants' = tenants /\ leaving' = leaving
    BY StoreStays DEF Leave
  <1>3. BesideInv'
    BY <1>2, WebOK DEF ShellInv, BesideInv, Leave
  <1>4. CommandOK(cmd', tenants')
    BY IdleOK DEF Leave
  <1> QED BY <1>1, <1>2, <1>3, <1>4, Together

-----------------------------------------------------------------------------
\* Passwords.

LEMMA PasswordFirstOK ==
  ASSUME ShellInv, NEW n \in Used, VaultLogin(n) \/ VaultNew(n)
  PROVE  StepIsOK
  <1>1. PICK o \in {"login", "new"} : BeginWithPassword([Idle EXCEPT !.op = o, !.name = n])
    BY DEF VaultLogin, VaultNew
  <1> DEFINE c == [Idle EXCEPT !.op = o, !.name = n]
  <1>2. c \in Command /\ CommandOK([c EXCEPT !.pc = "password"], tenants)
    BY ShellAssumption DEF Idle, CommandOK, Command
  <1> HIDE DEF c
  <1>3. BeginWithPassword(c)
    BY <1>1 DEF c
  <1>4. SessionInv' /\ cmd' = [c EXCEPT !.pc = "password"]
    BY <1>2, <1>3, BeginWithPasswordOK
  <1>5. StoreStep /\ tenants' = tenants /\ BesideInv'
    BY StoreStays, BesideStays DEF VaultLogin, VaultNew
  <1> QED BY <1>2, <1>4, <1>5, Together

LEMMA TypePasswordOK ==
  ASSUME ShellInv, NEW p \in Password, TypePassword(p)
  PROVE  StepIsOK
  <1>1. cmd.pc = "password" /\ silent /\ "command" \notin listener
    BY DEF ShellInv, SessionInv, PromptOwned, SecretsAreSilent, OneReader, Idle, TypePassword
  <1>2. StoreStep /\ tenants' = tenants /\ BesideInv'
    BY StoreStays, BesideStays DEF TypePassword
  <1>3. CommandOK(cmd', tenants) /\ cmd'.pc = "derives"
    BY <1>1, ShellAssumption DEF ShellInv, CommandOK, Command, TypePassword
  <1>4. SessionInv'
    BY <1>1, <1>3 DEF ShellInv, TypePassword, SessionInv, OneReader, SecretsAreSilent, PromptOwned
  <1> QED BY <1>2, <1>3, <1>4, Together

\* The key is derived, or not, and the command ends.
LEMMA LoginEndsOK ==
  ASSUME ShellInv, LoggedIn \/ DerivationFails
  PROVE  StepIsOK
  <1>1. SessionInv'
    BY Derived DEF LoggedIn, DerivationFails, Echo
  <1>2. StoreStep /\ tenants' = tenants /\ leaving' = leaving
    BY StoreStays DEF LoggedIn, DerivationFails
  <1>3. CommandOK(cmd', tenants')
    BY IdleOK DEF LoggedIn, DerivationFails, End
  <1>4. active' \in Active \cup {None}
    BY DEF ShellInv, BesideInv, CommandOK, Command, Active, LoggedIn, DerivationFails
  <1>5. BesideInv'
    BY <1>2, <1>4, WebOK DEF ShellInv, BesideInv, LoggedIn, DerivationFails
  <1> QED BY <1>1, <1>2, <1>3, <1>5, Together

-----------------------------------------------------------------------------
\* vault new.

LEMMA NewDerivedOK ==
  ASSUME ShellInv, NewDerived
  PROVE  StepIsOK
  <1>1. SessionInv'
    BY Derived DEF NewDerived, Echo
  <1>2. StoreStep /\ tenants' = tenants /\ BesideInv'
    BY StoreStays, BesideStays DEF NewDerived
  <1>3. CommandOK(cmd', tenants)
    BY DEF ShellInv, CommandOK, Command, NewDerived
  <1> QED BY <1>1, <1>2, <1>3, Together

\* The vault becomes a tenant of the database whose handle the command gets.
LEMMA NewCreatedOK ==
  ASSUME ShellInv, NEW i \in Id, NewCreated(i)
  PROVE  StepIsOK
  <1>1. SessionInv' /\ BesideInv'
    BY GoesOn, BesideStays DEF NewCreated
  <1>2. cmd \in Command /\ cmd.name \in Name
    BY DEF ShellInv, CommandOK, Command, NewCreated
  <1>3. StoreStep
    BY <1>2 DEF NewCreated, StoreStep, Vaults!Next
  <1>4. i \in tenants'[cmd.name]
    BY <1>2 DEF NewCreated, Vaults!Open, ShellInv, StoreInv
  <1>5. cmd' = [cmd EXCEPT !.pc = "initializes", !.vault = i, !.db = cmd.name]
        /\ PasswordOf[i] = cmd.password
    BY DEF NewCreated
  <1>6. cmd.password # None
    BY DEF ShellInv, CommandOK, NewCreated
  <1>7. CommandOK(cmd', tenants')
    BY <1>2, <1>4, <1>5, <1>6, ShellAssumption DEF ShellInv, CommandOK, Command
  <1> QED BY <1>1, <1>3, <1>7, Together

LEMMA NewReadsOK ==
  ASSUME ShellInv, NewReads
  PROVE  StepIsOK
  <1>1. CASE End
    BY <1>1, EndOnlyOK DEF NewReads
  <1>2. CASE cmd' = [cmd EXCEPT !.pc = "fills"]
    <2>1. SessionInv'
      BY GoesOn DEF NewReads
    <2>2. StoreStep /\ tenants' = tenants /\ BesideInv'
      BY StoreStays, BesideStays DEF NewReads
    <2>3. CommandOK(cmd', tenants)
      BY <1>2 DEF ShellInv, CommandOK, Command, NewReads
    <2> QED BY <2>1, <2>2, <2>3, Together
  <1> QED BY <1>1, <1>2 DEF NewReads

\* What a command writes is a tenant's own.
LEMMA StoresOK ==
  ASSUME ShellInv, NEW d \in Doc, d.key = cmd.vault, d.password = PasswordOf[cmd.vault],
         cmd.pc \in {"fills", "writes"}, Stores(d), UNCHANGED <<names, handles, tenants>>
  PROVE  StoreStep
  <1>1. cmd.db \in Name /\ disk[cmd.db] # Removed /\ disk' = [disk EXCEPT ![cmd.db] = d]
    BY DEF Stores
  <1>2. cmd.vault \in tenants[cmd.db] /\ cmd.vault \in Id
    BY <1>1 DEF ShellInv, CommandOK, StoreInv
  <1>3. d \in OwnContent[cmd.vault]
    BY <1>2, OwnFacts
  <1>4. Vaults!Write(cmd.db, cmd.vault)
    BY <1>1, <1>2, <1>3 DEF Vaults!Write
  <1> QED BY <1>1, <1>2, <1>4 DEF StoreStep, Vaults!Next

LEMMA NewInitializedOK ==
  ASSUME ShellInv, NewInitialized
  PROVE  StepIsOK
  <1> DEFINE d == [key |-> cmd.vault, password |-> cmd.password]
  <1>1. SessionInv' /\ BesideInv'
    BY GoesOn, BesideStays DEF NewInitialized
  <1>2. d \in Doc /\ d.key = cmd.vault /\ d.password = PasswordOf[cmd.vault]
    BY DEF ShellInv, CommandOK, Command, Doc, NewInitialized
  <1>3. Stores(d) /\ UNCHANGED <<names, handles, tenants>> /\ cmd.pc = "fills"
    BY DEF NewInitialized
  <1> HIDE DEF d
  <1>4. StoreStep
    BY <1>2, <1>3, StoresOK
  <1>5. CommandOK(cmd', tenants')
    BY <1>3 DEF ShellInv, CommandOK, Command, NewInitialized
  <1> QED BY <1>1, <1>4, <1>5, Together

LEMMA NewPublishedOK ==
  ASSUME ShellInv, NewPublished
  PROVE  StepIsOK
  <1>1. SessionInv'
    BY GoesOn DEF NewPublished
  <1>2. StoreStep /\ tenants' = tenants /\ leaving' = leaving
    BY StoreStays DEF NewPublished
  <1>3. CommandOK(cmd', tenants')
    BY IdleOK DEF NewPublished, End
  <1>4. active' \in Active
    BY DEF ShellInv, CommandOK, Command, Active, NewPublished
  <1>5. BesideInv'
    BY <1>2, <1>4, WebOK DEF ShellInv, BesideInv, NewPublished
  <1> QED BY <1>1, <1>2, <1>3, <1>5, Together

-----------------------------------------------------------------------------
\* vault delete, by the shell or by a client.

\* The names go first, and the database keeps its tenants.
LEMMA ForgetOK ==
  ASSUME ShellInv, NEW n \in Name, names[n] # None, Vaults!Forget(names[n])
  PROVE  StoreStep /\ tenants' = tenants /\ handles[names[n]] \in Name \cup {Gone, None}
  <1>1. names[n] \in Id
    BY DEF ShellInv, StoreInv
  <1> QED BY <1>1 DEF ShellInv, StoreInv, StoreStep, Vaults!Next, Vaults!Forget

LEMMA VaultDeleteOK ==
  ASSUME ShellInv, NEW n \in Used, VaultDelete(n)
  PROVE  StepIsOK
  <1> DEFINE db == handles[names[n]]
             c == [Idle EXCEPT !.op = "delete", !.pc = "destroys", !.name = n, !.db = db]
  <1>1. StoreStep /\ tenants' = tenants /\ db \in Name \cup {Gone, None}
    BY ForgetOK, ShellAssumption DEF VaultDelete
  <1>2. Begin(c) /\ UNCHANGED silent
    BY DEF VaultDelete
  <1> HIDE DEF db
  <1>3. CommandOK(c, tenants)
    BY <1>1, ShellAssumption DEF Idle, CommandOK, Command
  <1> HIDE DEF c
  <1>4. SessionInv' /\ cmd' = c
    BY <1>2, BeginOK
  <1>5. BesideInv'
    BY BesideStays DEF VaultDelete
  <1> QED BY <1>1, <1>3, <1>4, <1>5, Together

\* Then the database goes: nothing but its own tenants change.
LEMMA DestroysOK ==
  ASSUME ShellInv, NEW n \in Name, Destroys(n)
  PROVE  /\ StoreStep /\ leaving' \subseteq Name
         /\ \A m \in Name \ {n} : tenants'[m] = tenants[m]
  <1>1. tenants' = [tenants EXCEPT ![n] = {}] /\ leaving' = leaving \ {n}
    BY DEF Destroys, Vaults!Destroy
  <1> QED BY <1>1 DEF ShellInv, StoreInv, BesideInv, Destroys, StoreStep, Vaults!Next

LEMMA DeletedOK ==
  ASSUME ShellInv, Deleted
  PROVE  StepIsOK
  <1>1. SessionInv'
    BY GoesOn DEF Deleted
  <1>2. StoreStep /\ leaving' \subseteq Name
    BY DestroysOK DEF Deleted
  <1>3. CommandOK(cmd', tenants')
    BY IdleOK DEF Deleted, End
  <1>4. BesideInv'
    BY <1>2, WebOK DEF ShellInv, BesideInv, Deleted
  <1> QED BY <1>1, <1>2, <1>3, <1>4, Together

LEMMA ClientDeletesOK ==
  ASSUME ShellInv, NEW n \in Used, ClientDeletes(n)
  PROVE  StepIsOK
  <1>1. StoreStep /\ tenants' = tenants
    BY ForgetOK, ShellAssumption DEF ClientDeletes
  <1>2. SessionInv' /\ BesideInv'
    BY WebOK DEF ShellInv, SessionInv, OneReader, SecretsAreSilent, PromptOwned, BesideInv,
       ClientDeletes, sessionVars
  <1>3. CommandOK(cmd', tenants')
    BY <1>1, CommandStays DEF ClientDeletes, sessionVars
  <1> QED BY <1>1, <1>2, <1>3, Together

\* A command that holds the database is left with a handle that is no use.
LEMMA ClientDestroysOK ==
  ASSUME ShellInv, NEW n \in Name, ClientDestroys(n)
  PROVE  StepIsOK
  <1>1. /\ StoreStep /\ leaving' \subseteq Name
        /\ \A m \in Name \ {n} : tenants'[m] = tenants[m]
    BY DestroysOK DEF ClientDestroys
  <1>2. CommandOK(cmd', tenants') /\ cmd'.pc = cmd.pc /\ (cmd = Idle => cmd' = Idle)
    <2>1. CASE cmd.db = n
      <3>1. cmd' = [cmd EXCEPT !.db = Gone]
        BY <2>1 DEF ClientDestroys
      <3>2. cmd # Idle
        BY <2>1, ShellAssumption DEF Idle
      <3> QED BY <3>1, <3>2, ShellAssumption DEF ShellInv, CommandOK, Command
    <2>2. CASE cmd.db # n
      <3>1. cmd' = cmd
        BY <2>2 DEF ClientDestroys
      <3> QED BY <1>1, <2>2, <3>1 DEF ShellInv, CommandOK
    <2> QED BY <2>1, <2>2
  <1>3. SessionInv'
    BY <1>2 DEF ShellInv, SessionInv, OneReader, SecretsAreSilent, PromptOwned, ClientDestroys
  <1>4. BesideInv'
    BY <1>1, WebOK DEF ShellInv, BesideInv, ClientDestroys
  <1> QED BY <1>1, <1>2, <1>3, <1>4, Together

-----------------------------------------------------------------------------
\* vault set.

\* What is read opens with the password of its vault, and so does what is written.
LEMMA SetReadOK ==
  ASSUME ShellInv, SetRead
  PROVE  StepIsOK
  <1> DEFINE d == disk[cmd.db]
             new == [key |-> d.key, password |-> active.password]
  <1>1. d \in Doc /\ d.key = cmd.vault /\ d.password = active.password
    BY DEF SetRead, Decrypts
  <1>2. d.password = PasswordOf[d.key]
    BY <1>1 DEF SetRead, ShellInv, StoreInv, PasswordStays
  <1>3. new \in Doc /\ new.key = cmd.vault /\ new.password = PasswordOf[cmd.vault]
    BY <1>1, <1>2 DEF Doc
  <1>4. cmd' = [cmd EXCEPT !.pc = "writes", !.doc = new] /\ cmd.pc = "reads"
    BY DEF SetRead
  <1> HIDE DEF d, new
  <1>5. CommandOK(cmd', tenants)
    BY <1>3, <1>4 DEF ShellInv, CommandOK, Command
  <1>6. SessionInv' /\ StoreStep /\ tenants' = tenants /\ BesideInv'
    BY GoesOn, StoreStays, BesideStays DEF SetRead
  <1> QED BY <1>5, <1>6, Together

LEMMA SetWrittenOK ==
  ASSUME ShellInv, SetWritten
  PROVE  StepIsOK
  <1>1. SessionInv' /\ BesideInv'
    BY GoesOn, BesideStays DEF SetWritten
  <1>2. StoreStep
    BY StoresOK DEF ShellInv, CommandOK, SetWritten
  <1>3. CommandOK(cmd', tenants')
    BY IdleOK DEF SetWritten, End
  <1> QED BY <1>1, <1>2, <1>3, Together

-----------------------------------------------------------------------------
\* vault link, link up and link down.

\* A vault that takes a name, or comes under one.
LEMMA TakesNameOK ==
  ASSUME ShellInv, NEW n \in Name, NEW i \in Id, Vaults!Link(n, i) \/ Vaults!Open(n, i)
  PROVE  StoreStep /\ \A m \in Name : tenants[m] \subseteq tenants'[m]
  BY DEF ShellInv, StoreInv, StoreStep, Vaults!Next, Vaults!Link, Vaults!Open

LEMMA LinkFoundOK ==
  ASSUME ShellInv, NEW i \in Id, LinkFound(i)
  PROVE  StepIsOK
  <1>1. SessionInv' /\ BesideInv'
    BY GoesOn, BesideStays DEF LinkFound
  <1>2. cmd \in Command /\ cmd.nick \in Name /\ cmd.name # None
    BY DEF ShellInv, CommandOK, Command, LinkFound
  <1>3. StoreStep
    BY <1>2, TakesNameOK DEF LinkFound
  <1>4. cmd' = [cmd EXCEPT !.pc = "pulls", !.vault = i]
    BY DEF LinkFound
  <1>5. CommandOK(cmd', tenants')
    BY <1>2, <1>4 DEF CommandOK, Command
  <1> QED BY <1>1, <1>3, <1>5, Together

LEMMA LinkPulledOK ==
  ASSUME ShellInv, LinkPulled
  PROVE  StepIsOK
  <1>1. "command" \notin listener
    BY DEF ShellInv, SessionInv, OneReader, Idle, LinkPulled
  <1>2. CommandOK(cmd', tenants) /\ cmd'.pc = "password"
    BY DEF ShellInv, CommandOK, Command, LinkPulled
  <1>3. SessionInv'
    BY <1>1, <1>2 DEF ShellInv, LinkPulled, SessionInv, OneReader, SecretsAreSilent, PromptOwned
  <1>4. StoreStep /\ tenants' = tenants /\ BesideInv'
    BY StoreStays, BesideStays DEF LinkPulled
  <1> QED BY <1>2, <1>3, <1>4, Together

LEMMA LinkUpEndsOK ==
  ASSUME ShellInv, LinkUpEnds
  PROVE  StepIsOK
  <1>1. SessionInv'
    BY GoesOn DEF LinkUpEnds
  <1>2. StoreStep /\ tenants' = tenants /\ leaving' = leaving
    BY StoreStays DEF LinkUpEnds
  <1>3. CommandOK(cmd', tenants')
    BY IdleOK DEF LinkUpEnds, End
  <1>4. BesideInv'
    BY <1>2, WebOK DEF ShellInv, BesideInv, LinkUpEnds
  <1> QED BY <1>1, <1>2, <1>3, <1>4, Together

LEMMA LinkDownOK ==
  ASSUME ShellInv, LinkDown
  PROVE  StepIsOK
  <1> DEFINE c == [Idle EXCEPT !.op = "down", !.pc = "closes"]
  <1>1. CommandOK(c, tenants)
    BY DEF Idle, CommandOK, Command
  <1> HIDE DEF c
  <1>2. SessionInv' /\ cmd' = c
    BY BeginOK DEF LinkDown, c
  <1>3. StoreStep /\ tenants' = tenants /\ leaving' = leaving
    BY StoreStays DEF LinkDown
  <1>4. BesideInv'
    BY <1>3, WebOK DEF ShellInv, BesideInv, LinkDown
  <1> QED BY <1>1, <1>2, <1>3, <1>4, Together

-----------------------------------------------------------------------------
\* The others.

\* A step that touches vaults, and leaves the session alone.
LEMMA OtherOK ==
  ASSUME ShellInv, UNCHANGED <<leaving, sessionVars>>, WebTypeOK', StoreStep,
         \A n \in Name : tenants[n] \subseteq tenants'[n]
  PROVE  StepIsOK
  <1>1. SessionInv' /\ BesideInv'
    BY DEF ShellInv, SessionInv, OneReader, SecretsAreSilent, PromptOwned, BesideInv, sessionVars
  <1>2. CommandOK(cmd', tenants')
    BY CommandStays DEF sessionVars
  <1> QED BY <1>1, <1>2, Together

LEMMA OthersOK ==
  ASSUME ShellInv, Others
  PROVE  StepIsOK
  <1>w. WebTypeOK
    BY DEF ShellInv, BesideInv
  <1>1. CASE Peers
    <2>1. UNCHANGED <<storeVars, sessionVars>> /\ WebTypeOK'
      BY <1>w, <1>1, WebOK DEF Peers
    <2> QED BY <2>1, StoreStays, OtherOK
  <1>2. ASSUME NEW n \in Used, NEW i \in Id, ClientOpens(n, i) \/ ClientLinks(n, i)
        PROVE  StepIsOK
    <2>1. StoreStep /\ \A m \in Name : tenants[m] \subseteq tenants'[m]
      BY <1>2, TakesNameOK, ShellAssumption DEF ClientOpens, ClientLinks
    <2> QED BY <1>w, <1>2, <2>1, WebOK, OtherOK DEF ClientOpens, ClientLinks
  <1>3. ASSUME NEW n \in Used, NEW i \in Id, Arrives(n, i) PROVE StepIsOK
    <2>1. Vaults!Arrive(n, i) /\ n \in Name
      BY <1>3, ShellAssumption DEF Arrives
    <2>2. \A m \in Name : tenants[m] \subseteq tenants'[m]
      BY <2>1 DEF Vaults!Arrive, ShellInv, StoreInv
    <2>3. StoreStep
      BY <2>1 DEF StoreStep, Vaults!Next
    <2> QED BY <1>w, <1>3, <2>2, <2>3, WebOK, OtherOK DEF Arrives
  <1>4. ASSUME NEW n \in Used, Withdrawn(n) PROVE StepIsOK
    <2>1. Vaults!Withdraw(n) /\ n \in Name
      BY <1>4, ShellAssumption DEF Withdrawn
    <2>2. StoreStep /\ tenants' = tenants
      BY <2>1 DEF StoreStep, Vaults!Next, Vaults!Withdraw
    <2> QED BY <1>w, <1>4, <2>2, WebOK, OtherOK DEF Withdrawn
  <1> QED BY <1>1, <1>2, <1>3, <1>4, ClientDeletesOK, ClientDestroysOK DEF Others

-----------------------------------------------------------------------------

\* Every step.
LEMMA StepOK == ShellInv /\ [Next]_vars => StepIsOK
  <1> SUFFICES ASSUME ShellInv, [Next]_vars PROVE StepIsOK
    OBVIOUS
  <1>1. CASE User
    BY <1>1, WaitersOK, PasswordFirstOK, VaultDeleteOK, VaultSetOK, LinkDownOK, LeaveOK,
       TypePasswordOK DEF User
  <1>2. CASE Continue
    BY <1>2, PromptOK, EndersOK, LoginEndsOK, NewDerivedOK, NewReadsOK, NewInitializedOK,
       NewPublishedOK, DeletedOK, SetReadOK, SetWrittenOK, LinkPulledOK, LinkUpEndsOK,
       LeaveOK, NewCreatedOK, LinkFoundOK DEF Continue, QuitEnds
  <1>3. CASE Others
    BY <1>3, OthersOK
  <1>4. CASE UNCHANGED vars
    <2>1. UNCHANGED <<storeVars, sessionVars>> /\ WebTypeOK'
      BY <1>4, WebOK DEF vars, ShellInv, BesideInv
    <2> QED BY <2>1, StoreStays, OtherOK
  <1> QED BY <1>1, <1>2, <1>3, <1>4 DEF Next, Ended

\* Whatever is typed, and whatever clients, peers and replication do to the
\* vaults and to their databases meanwhile: a line has one reader, secrets are
\* not echoed, and what a database holds opens with the password of the vault
\* that signed it, which is one the database was opened for or was brought
\* content of (ShellCommandServer.ts:126-193, 421-466, 538-556).
THEOREM ShellInvariant ==
  Spec => [](TypeOK /\ OneReader /\ SecretsAreSilent /\ PasswordStays)
  <1>1. ShellInv => TypeOK /\ OneReader /\ SecretsAreSilent /\ PasswordStays
    BY DEF ShellInv, SessionInv, StoreInv, CommandOK, BesideInv, TypeOK
  <1>2. ShellInv /\ [Next]_vars => ShellInv'
    BY StepOK DEF StepIsOK
  <1> QED BY <1>1, <1>2, InitOK, PTL DEF Spec

\* With deletes that take two steps, vaults that come to share a database, and
\* peers that bring and remove content: a command of the shell changes names as
\* createVault, linkVault and delete promise, and writes nothing but what a
\* tenant has signed, under its password, to a database that is still there
\* (ShellCommandServer.ts:56-193, 244-298).
THEOREM ShellKeepsStore == Spec => KeepsVaults
  <1>1. Init => ShellInv /\ Vaults!Init
    BY InitOK DEF Init
  <1>2. ShellInv /\ [Next]_vars => ShellInv' /\ [Vaults!Next]_(Vaults!vars)
    BY StepOK DEF StepIsOK, StoreStep, Vaults!vars
  <1> QED BY <1>1, <1>2, PTL DEF Spec, KeepsVaults, Vaults!Spec
=============================================================================
