-------------------------------- MODULE Cli --------------------------------
(***************************************************************************)
(* `workplace cli` from its start to its end: the lazy start of Startup    *)
(* and, once it has connected and registered, the terminal session of Tui  *)
(* with the daemon that serves it.  The death or the shutdown of that      *)
(* daemon cuts the session's connection.                                   *)
(***************************************************************************)
EXTENDS Startup, Sequences

CONSTANTS
  Operator,   \* the cli whose session is modelled
  Names, Named, Spoken, MaxTyped, MaxRenames   \* see Tui

ASSUME OperatorAssumption == Operator \in Clis
ASSUME BoundsAssumption == MaxTyped \in Nat /\ MaxRenames \in Nat
ASSUME NamedAssumption == Named \in Seq(Names) /\ Spoken \subseteq Names
ASSUME NoneAssumption == None \notin Names \cup 1 .. MaxTyped

VARIABLES link, ui, pend, task, pending, wire, back, name, tokens, stopping,
          typed, left, told, gone, renames

Tui == INSTANCE Tui

session == <<link, ui, pend, task, pending, wire, back, name, tokens, stopping,
             typed, left, told, gone, renames>>

\* Bound: commands are entered only where no other cli starts; the two halves
\* share nothing but the serving daemon.
CliInit ==
  /\ Init
  /\ Tui!Init
  /\ left > 0 => \A c \in Clis \ {Operator} : cli[c] = "off"

\* A step of the start; the operator's last one opens the session.
Starts(c) ==
  /\ CliStep(c)
  /\ IF c = Operator /\ cli'[c] = "up" THEN Tui!Opens ELSE UNCHANGED session

Runs(c) == (DaemonStep(c) \/ CliGivesUp(c)) /\ UNCHANGED session

\* The daemon sees the end of the operator's session after its last request.
Quits(c) ==
  /\ CliQuits(c)
  /\ c = Operator => link = "quit" /\ wire = << >>
  /\ UNCHANGED session

\* What the end of a daemon does to the session it serves.
Cuts(d) == IF listener = d THEN Tui!LinkDrops ELSE UNCHANGED session

Dies(d) == DaemonDies(d) /\ Cuts(d)

\* daemon/shutdown: 100 ms after the answer server::run returns, and the process
\* ends under its open sessions.
DaemonStops(d) ==
  /\ stopping
  /\ listener = d
  /\ Daemon(d, "dead")
  /\ listener' = None
  /\ Tui!LinkDrops
  /\ UNCHANGED <<cli, file, token, got, server, faults>>

Session == (Tui!Step \/ Tui!Environment) /\ UNCHANGED vars
Occupies == ForeignListens /\ UNCHANGED session

CliNext ==
  \/ \E c \in Clis : Starts(c) \/ Runs(c) \/ Quits(c) \/ Dies(c) \/ DaemonStops(c)
  \/ Session
  \/ Occupies

allVars == <<vars, session>>

CliSpec == CliInit /\ [][CliNext]_allVars /\ Fairness /\ Tui!Fairness

-----------------------------------------------------------------------------
(* Properties *)

\* See Tui: a channel goes only under a name that the operator entered twice, with
\* /delete and with /confirm (tui.rs 675-709, rpc.rs 664-728).
DeleteIntended == Tui!DeleteIntended

\* See Tui: the pending map holds exactly the calls that wait, and an answer is
\* reported for the call it answers (tui.rs 46-73, 154-166).
CallsExact == Tui!CallsExact

\* See Tui: every call ends for the operator, whether its daemon lives, dies or is
\* shut down (tui.rs 57-72).
EveryCommandAnswered == Tui!EveryCommandAnswered
=============================================================================
