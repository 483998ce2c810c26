------------------------------ MODULE WebServer ------------------------------
(***************************************************************************)
(* services/web.ts: the HTTPS servers of the process.  Each listen() makes  *)
(* a server; the service remembers the last one, and close() closes that.   *)
(* A server that was closed gives its port back at once, and reports its    *)
(* end when the last of its connections is gone.                            *)
(***************************************************************************)
EXTENDS Naturals

CONSTANTS
  Server,   \* server objects that are in use together
  Port,     \* ports
  None      \* no value

ASSUME WebAssumption == None \notin Server \cup Port

VARIABLES
  server,     \* the server the service remembers
  port,       \* server -> the port it is bound to, None if it does not listen
  connected   \* the servers that have open connections

webVars == <<server, port, connected>>

WebTypeOK ==
  /\ server \in Server
  /\ port \in [Server -> Port \cup {None}]
  /\ connected \in SUBSET Server

\* The process does not start without its first server (configure.ts).
WebInit ==
  /\ server \in Server
  /\ \E p \in Port : port = [s \in Server |-> IF s = server THEN p ELSE None]
  /\ connected = {}

Bound(p) == \E s \in Server : port[s] = p

\* A server object that is closed and has no connections is like a new one, the
\* one in the field included: it stands for the next one that is made.
Unused(s) == port[s] = None /\ s \notin connected

Listen(p) ==
  /\ ~Bound(p)
  /\ \E s \in Server :
       /\ Unused(s)
       /\ port' = [port EXCEPT ![s] = p]
       /\ server' = s
  /\ UNCHANGED connected

\* EADDRINUSE: by a server of this process or by another program.
ListenFails == UNCHANGED webVars

\* Mutant of CloseServer: the service forgets the server it closes.
CloseServerForgets ==
  /\ port' = [port EXCEPT ![server] = None]
  /\ server' = None
  /\ UNCHANGED connected

CloseServer ==
  /\ port' = [port EXCEPT ![server] = None]
  /\ UNCHANGED <<server, connected>>

\* The callback of close() waits for the connections, whether the server
\* was running (success) or not (ERR_SERVER_NOT_RUNNING).
Drained == server \notin connected

PeerConnects(s) ==
  /\ port[s] # None
  /\ connected' = connected \cup {s}
  /\ UNCHANGED <<server, port>>

PeerLeaves(s) ==
  /\ s \in connected
  /\ connected' = connected \ {s}
  /\ UNCHANGED <<server, port>>
=============================================================================
