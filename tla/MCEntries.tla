------------------------------ MODULE MCEntries ------------------------------
(* Model checking of Shell: which vault the user means when entries are set. *)
EXTENDS MCShell

VARIABLE meant  \* history: the vault the last login, link or create was about

\* A name that clients have given to another vault since means that vault.
MeantNext ==
  /\ Next
  /\ meant' =
       IF LoggedIn \/ NewPublished
       THEN IF cmd.op = "login" THEN names[cmd.name] ELSE cmd.vault
       ELSE IF active # None /\ cmd.op # "set" /\ names'[active.name] # names[active.name]
       THEN names'[active.name] ELSE meant

MeantSpec == Init /\ meant = None /\ [][MeantNext]_<<vars, meant>>

\* "vault set" writes to the vault the user had logged in to, created or linked
\* (README.md:97-108), whatever it is called here.
EntriesGoHome == cmd.pc = "writes" => cmd.vault = meant
=============================================================================
