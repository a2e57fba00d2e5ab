------------------------------ MODULE Startup ------------------------------
(***************************************************************************)
(* Lazy start: `workplace cli` finds the broker or starts a daemon, and    *)
(* both sides agree on the admin credential through a file                 *)
(* (crates/workplace/src/main.rs and config.rs).  Several clis start at    *)
(* the same time, each daemon is a process of its own, and any process may *)
(* die between two steps.                                                  *)
(***************************************************************************)
EXTENDS Naturals, FiniteSets

CONSTANTS
  Clis,        \* cli processes; the daemon that c starts is c's daemon
  Remote,      \* clis whose endpoint is not local
  As,          \* As[c]: the name c registers, "@manager" by default; agents have others
  Foreign,     \* a listener at the endpoint that is no workplace broker
  MaxFaults,   \* bound: deaths, foreign listeners and waits that run out
  None         \* no listener, no token

ASSUME RemoteAssumption == Remote \subseteq Clis
ASSUME AsAssumption == DOMAIN As = Clis
ASSUME ForeignAssumption == Foreign \notin Clis /\ None \notin Clis \cup {Foreign}
ASSUME FileAssumption == "absent" \notin Clis /\ "empty" \notin Clis
ASSUME FaultsAssumption == MaxFaults \in Nat

VARIABLES
  cli,        \* cli[c]: where run_cli stands
  daemon,     \* daemon[c]: where the daemon started by c stands
  file,       \* the admin-token file: "absent", "empty", or the daemon that wrote it
  token,      \* token[c]: the admin token c's daemon has
  got,        \* got[c]: the admin token cli c has read
  listener,   \* who listens at the endpoint
  server,     \* server[c]: the daemon that c has registered with
  faults      \* faults so far

vars == <<cli, daemon, file, token, got, listener, server, faults>>

Gone == {"none", "dead"}
CliAt == {"off", "connect", "wait", "health", "token", "dial", "up", "quit", "refused", "failed"}
DaemonAt == {"read", "create", "write", "open", "bind", "serve"} \cup Gone

\* Every variable has its type: the steps of the two programs.
TypeOK ==
  /\ cli \in [Clis -> CliAt]
  /\ daemon \in [Clis -> DaemonAt]
  /\ file \in Clis \cup {"absent", "empty"}
  /\ token \in [Clis -> Clis \cup {None}]
  /\ got \in [Clis -> Clis \cup {None}]
  /\ listener \in Clis \cup {Foreign, None}
  /\ server \in [Clis -> Clis \cup {None}]
  /\ faults \in 0 .. MaxFaults

Init ==
  /\ cli \in [Clis -> {"off", "connect"}]
  /\ daemon = [c \in Clis |-> "none"]
  /\ file = "absent"
  /\ token = [c \in Clis |-> None]
  /\ got = [c \in Clis |-> None]
  /\ listener = None
  /\ server = [c \in Clis |-> None]
  /\ faults = 0

Cli(c, to) == cli' = [cli EXCEPT ![c] = to]
Daemon(d, to) == daemon' = [daemon EXCEPT ![d] = to]

-----------------------------------------------------------------------------
(* run_daemon *)

\* Mutant: a file that does not exist aborts the start like an empty one.
DaemonReads_NoCreate(d) ==
  /\ daemon[d] = "read"
  /\ IF file \in Clis THEN Daemon(d, "open") /\ token' = [token EXCEPT ![d] = file]
     ELSE Daemon(d, "dead") /\ UNCHANGED token
  /\ UNCHANGED <<cli, file, got, listener, server, faults>>

\* ensure_admin_token reads the file; an empty one aborts the start.
DaemonReads(d) ==
  /\ daemon[d] = "read"
  /\ CASE file = "absent" -> Daemon(d, "create") /\ UNCHANGED token
       [] file = "empty" -> Daemon(d, "dead") /\ UNCHANGED token
       [] OTHER -> Daemon(d, "open") /\ token' = [token EXCEPT ![d] = file]
  /\ UNCHANGED <<cli, file, got, listener, server, faults>>

\* Mutant: the file is created without create_new, and truncated if it exists.
DaemonCreates_Truncates(d) ==
  /\ daemon[d] = "create"
  /\ file' = "empty"
  /\ Daemon(d, "write")
  /\ UNCHANGED <<cli, token, got, listener, server, faults>>

\* create_new: a file that has appeared since aborts the start.
DaemonCreates(d) ==
  /\ daemon[d] = "create"
  /\ IF file = "absent" THEN file' = "empty" /\ Daemon(d, "write")
     ELSE Daemon(d, "dead") /\ UNCHANGED file
  /\ UNCHANGED <<cli, token, got, listener, server, faults>>

DaemonWrites(d) ==
  /\ daemon[d] = "write"
  /\ file' = d
  /\ token' = [token EXCEPT ![d] = d]
  /\ Daemon(d, "open")
  /\ UNCHANGED <<cli, got, listener, server, faults>>

\* Broker::new opens the store, before the endpoint is known to be free.
DaemonOpens(d) ==
  /\ daemon[d] = "open"
  /\ Daemon(d, "bind")
  /\ UNCHANGED <<cli, file, token, got, listener, server, faults>>

\* server::run binds, or the daemon ends.
DaemonBinds(d) ==
  /\ daemon[d] = "bind"
  /\ IF listener = None THEN listener' = d /\ Daemon(d, "serve")
     ELSE Daemon(d, "dead") /\ UNCHANGED listener
  /\ UNCHANGED <<cli, file, token, got, server, faults>>

\* A signal, a crash or an error ends a daemon at any step.
DaemonDies(d) ==
  /\ daemon[d] \notin Gone
  /\ faults < MaxFaults
  /\ Daemon(d, "dead")
  /\ listener' = IF listener = d THEN None ELSE listener
  /\ faults' = faults + 1
  /\ UNCHANGED <<cli, file, token, got, server>>

-----------------------------------------------------------------------------
(* run_cli *)

\* lazy_start: somebody listens, or a local daemon is spawned.
CliConnects(c) ==
  /\ cli[c] = "connect"
  /\ IF listener # None THEN Cli(c, "health") /\ UNCHANGED daemon
     ELSE IF c \in Remote THEN Cli(c, "failed") /\ UNCHANGED daemon
     ELSE Cli(c, "wait") /\ Daemon(c, "read")
  /\ UNCHANGED <<file, token, got, listener, server, faults>>

\* Mutant: the wait ends with the child process.
CliFinds_ChildExit(c) ==
  /\ cli[c] = "wait"
  /\ listener # None \/ daemon[c] = "dead"
  /\ Cli(c, IF daemon[c] = "dead" THEN "failed" ELSE "health")
  /\ UNCHANGED <<daemon, file, token, got, listener, server, faults>>

\* ... and awaited, 50 times 100 ms.
CliFinds(c) ==
  /\ cli[c] = "wait"
  /\ listener # None
  /\ Cli(c, "health")
  /\ UNCHANGED <<daemon, file, token, got, listener, server, faults>>

\* health_check: a session/hello that only a broker answers.
CliChecks(c) ==
  /\ cli[c] = "health"
  /\ Cli(c, IF listener \in Clis THEN "token" ELSE "failed")
  /\ UNCHANGED <<daemon, file, token, got, listener, server, faults>>

\* read_admin_token, retried 20 times while the file is absent or empty.
CliReads(c) ==
  /\ cli[c] = "token"
  /\ file \in Clis
  /\ got' = [got EXCEPT ![c] = file]
  /\ Cli(c, "dial")
  /\ UNCHANGED <<daemon, file, token, listener, server, faults>>

\* A wait for the daemon or for the file runs out.
CliGivesUp(c) ==
  /\ \/ cli[c] = "wait" /\ listener = None
     \/ cli[c] = "token" /\ file \notin Clis
  /\ faults < MaxFaults
  /\ Cli(c, "failed")
  /\ faults' = faults + 1
  /\ UNCHANGED <<daemon, file, token, got, listener, server>>

\* principal_active: a session of the daemon that listens has the name of c.
Taken(c) == \E x \in Clis : server[x] = listener /\ As[x] = As[c]

\* tui::run connects, and registers as admin with the token; a name that is taken
\* is refused, and run_cli ends with that error.
CliDials(c) ==
  /\ cli[c] = "dial"
  /\ IF listener \notin Clis \/ token[listener] # got[c]
     THEN Cli(c, "failed") /\ UNCHANGED server
     ELSE IF Taken(c)
     THEN Cli(c, "refused") /\ UNCHANGED server
     ELSE Cli(c, "up") /\ server' = [server EXCEPT ![c] = listener]
  /\ UNCHANGED <<daemon, file, token, got, listener, faults>>

\* A session ends, and its daemon, if it is there still, frees the name.
CliQuits(c) ==
  /\ cli[c] = "up"
  /\ Cli(c, "quit")
  /\ server' = [server EXCEPT ![c] = None]
  /\ UNCHANGED <<daemon, file, token, got, listener, faults>>

\* A process that is no broker takes a free endpoint.
ForeignListens ==
  /\ listener = None
  /\ faults < MaxFaults
  /\ listener' = Foreign
  /\ faults' = faults + 1
  /\ UNCHANGED <<cli, daemon, file, token, got, server>>

-----------------------------------------------------------------------------
DaemonStep(d) ==
  DaemonReads(d) \/ DaemonCreates(d) \/ DaemonWrites(d) \/ DaemonOpens(d) \/ DaemonBinds(d)
CliStep(c) == CliConnects(c) \/ CliFinds(c) \/ CliChecks(c) \/ CliReads(c) \/ CliDials(c)

Next ==
  \/ \E c \in Clis : DaemonStep(c) \/ CliStep(c) \/ DaemonDies(c) \/ CliGivesUp(c) \/ CliQuits(c)
  \/ ForeignListens

\* Processes that can run do.
Fairness == \A c \in Clis : WF_vars(DaemonStep(c)) /\ WF_vars(CliStep(c))

Spec == Init /\ [][Next]_vars /\ Fairness

-----------------------------------------------------------------------------
(* Properties *)

\* "Exclusive: never clobber a concurrent writer" (config.rs:219), "the daemon
\* never runs with admin registration open or ambiguous" (main.rs:111-113):
\* whatever daemons race and die, a serving daemon has the token of the file,
\* and so has every cli that has read it.
TokenAgrees ==
  /\ \A d \in Clis : daemon[d] \in {"bind", "serve"} => token[d] = file /\ file \in Clis
  /\ \A c \in Clis : got[c] # None => got[c] = file

\* Racing starts harm nobody: a cli that wants a local broker fails only after a
\* process died, a foreign listener took the endpoint or a wait ran out; and one is
\* refused only because another had the name it wanted at the daemon it found, so
\* of the clis that race under one name one comes up.
RaceHarmless ==
  /\ \A c \in Clis \ Remote : cli[c] = "failed" => faults > 0
  /\ \A c \in Clis : cli[c] = "refused" =>
       \E x \in Clis \ {c} : As[x] = As[c] /\ cli[x] \in {"up", "quit"}

\* Daemons that race for file and endpoint do not all abort: while one is on its
\* way somebody will listen, faults aside.
SomebodyServes == (\E d \in Clis : daemon[d] \notin Gone) ~> (listener # None \/ faults > 0)
=============================================================================
