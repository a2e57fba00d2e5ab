------------------------------ MODULE CliProofs ------------------------------
(***************************************************************************)
(* Proofs about `workplace cli`, for any number of clis and daemons that   *)
(* race and die and for any number of commands, channels and renames.      *)
(*                                                                         *)
(* The start: a daemon that may serve, and a cli that has read the         *)
(* credential, agree with the admin-token file.  The session: a channel    *)
(* that goes is paid for by a /delete and a /confirm the operator entered, *)
(* and a deletion reported as done by a channel that is gone.              *)
(***************************************************************************)
EXTENDS Cli, FiniteSetTheorems, TLAPS

-----------------------------------------------------------------------------
(* The start *)

Holding == {"open", "bind", "serve"}

\* The file is written by the one daemon that created it, while nobody else has
\* a token yet; from then on nobody writes it again.
WriterAlone ==
  /\ \A d \in Clis : daemon[d] = "write" => file = "empty"
  /\ \A d, e \in Clis : daemon[d] = "write" /\ daemon[e] = "write" => d = e

HoldersAgree ==
  /\ \A d \in Clis : daemon[d] \in Holding => file \in Clis /\ token[d] = file
  /\ \A c \in Clis : got[c] # None => got[c] = file

Inv == TypeOK /\ WriterAlone /\ HoldersAgree

\* Nothing is started, created or read in the beginning.
LEMMA InitInv == Init => Inv
BY FaultsAssumption DEF Init, Inv, TypeOK, WriterAlone, HoldersAgree, Holding, CliAt, DaemonAt, Gone

\* The steps of a daemon keep the invariant.
LEMMA DaemonInv ==
  ASSUME Inv, NEW d \in Clis, DaemonStep(d)
  PROVE  Inv'
<1> USE ForeignAssumption, FileAssumption, FaultsAssumption DEF Inv
<1>1. CASE DaemonReads(d)
  <2>1. TypeOK'
    BY <1>1 DEF DaemonReads, Daemon, TypeOK, DaemonAt, Gone
  <2>2. WriterAlone' /\ HoldersAgree'
    BY <1>1 DEF DaemonReads, Daemon, TypeOK, WriterAlone, HoldersAgree, Holding
  <2> QED BY <2>1, <2>2
<1>2. CASE DaemonCreates(d)
  <2>1. TypeOK'
    BY <1>2 DEF DaemonCreates, Daemon, TypeOK, DaemonAt, Gone
  <2>2. WriterAlone' /\ HoldersAgree'
    BY <1>2 DEF DaemonCreates, Daemon, TypeOK, WriterAlone, HoldersAgree, Holding
  <2> QED BY <2>1, <2>2
<1>3. CASE DaemonWrites(d)
  <2>1. TypeOK'
    BY <1>3 DEF DaemonWrites, Daemon, TypeOK, DaemonAt, Gone
  <2>2. file = "empty" /\ \A e \in Clis : daemon[e] \notin Holding /\ got[e] = None
    BY <1>3 DEF DaemonWrites, TypeOK, WriterAlone, HoldersAgree
  <2>3. WriterAlone'
    BY <1>3 DEF DaemonWrites, Daemon, TypeOK, WriterAlone
  <2>4. HoldersAgree'
    BY <1>3, <2>2 DEF DaemonWrites, Daemon, TypeOK, HoldersAgree, Holding
  <2> QED BY <2>1, <2>3, <2>4
<1>4. CASE DaemonOpens(d)
  <2>1. TypeOK'
    BY <1>4 DEF DaemonOpens, Daemon, TypeOK, DaemonAt, Gone
  <2>2. WriterAlone' /\ HoldersAgree'
    BY <1>4 DEF DaemonOpens, Daemon, TypeOK, WriterAlone, HoldersAgree, Holding
  <2> QED BY <2>1, <2>2
<1>5. CASE DaemonBinds(d)
  <2>1. TypeOK'
    BY <1>5 DEF DaemonBinds, Daemon, TypeOK, DaemonAt, Gone
  <2>2. WriterAlone' /\ HoldersAgree'
    BY <1>5 DEF DaemonBinds, Daemon, TypeOK, WriterAlone, HoldersAgree, Holding
  <2> QED BY <2>1, <2>2
<1> QED BY <1>1, <1>2, <1>3, <1>4, <1>5 DEF DaemonStep

\* The steps of a cli keep it: the only one that reads the file wants a written one.
LEMMA CliInv ==
  ASSUME Inv, NEW c \in Clis, CliStep(c)
  PROVE  Inv'
<1> USE ForeignAssumption, FileAssumption, FaultsAssumption DEF Inv
<1>1. CASE CliConnects(c)
  <2>1. TypeOK'
    BY <1>1 DEF CliConnects, Cli, Daemon, TypeOK, CliAt, DaemonAt, Gone
  <2>2. WriterAlone' /\ HoldersAgree'
    BY <1>1 DEF CliConnects, Daemon, TypeOK, WriterAlone, HoldersAgree, Holding
  <2> QED BY <2>1, <2>2
<1>2. CASE CliFinds(c) \/ CliChecks(c) \/ CliDials(c)
  <2>1. UNCHANGED <<daemon, file, token, got, listener, faults>>
    BY <1>2 DEF CliFinds, CliChecks, CliDials
  <2>2. cli' \in [Clis -> CliAt]
    BY <1>2 DEF CliFinds, CliChecks, CliDials, Cli, TypeOK, CliAt
  <2>3. server' \in [Clis -> Clis \cup {None}]
    BY <1>2 DEF CliFinds, CliChecks, CliDials, TypeOK
  <2> QED BY <2>1, <2>2, <2>3 DEF TypeOK, WriterAlone, HoldersAgree
<1>3. CASE CliReads(c)
  <2>1. TypeOK'
    BY <1>3 DEF CliReads, Cli, TypeOK, CliAt
  <2>2. WriterAlone' /\ HoldersAgree'
    BY <1>3 DEF CliReads, TypeOK, WriterAlone, HoldersAgree
  <2> QED BY <2>1, <2>2
<1> QED BY <1>1, <1>2, <1>3 DEF CliStep

\* Deaths, waits that run out, foreign listeners and the end of a session keep it:
\* they never touch the file.
LEMMA FaultInv ==
  ASSUME Inv, ForeignListens \/ \E c \in Clis : DaemonDies(c) \/ CliGivesUp(c) \/ CliQuits(c)
  PROVE  Inv'
<1> USE ForeignAssumption, FaultsAssumption DEF Inv
<1>1. CASE ForeignListens
  BY <1>1 DEF ForeignListens, TypeOK, WriterAlone, HoldersAgree
<1>2. ASSUME NEW c \in Clis, DaemonDies(c) PROVE Inv'
  <2>1. TypeOK'
    BY <1>2 DEF DaemonDies, Daemon, TypeOK, DaemonAt, Gone
  <2>2. WriterAlone' /\ HoldersAgree'
    BY <1>2 DEF DaemonDies, Daemon, TypeOK, WriterAlone, HoldersAgree, Holding
  <2> QED BY <2>1, <2>2
<1>3. ASSUME NEW c \in Clis, CliGivesUp(c) PROVE Inv'
  BY <1>3 DEF CliGivesUp, Cli, TypeOK, CliAt, WriterAlone, HoldersAgree
<1>4. ASSUME NEW c \in Clis, CliQuits(c) PROVE Inv'
  BY <1>4 DEF CliQuits, Cli, TypeOK, CliAt, WriterAlone, HoldersAgree
<1> QED BY <1>1, <1>2, <1>3, <1>4

\* Every step keeps the invariant.
LEMMA StepInv == Inv /\ [Next]_vars => Inv'
<1> SUFFICES ASSUME Inv, [Next]_vars PROVE Inv'
  OBVIOUS
<1>1. CASE UNCHANGED vars
  BY <1>1 DEF vars, Inv, TypeOK, WriterAlone, HoldersAgree
<1>2. CASE Next
  BY <1>2, DaemonInv, CliInv, FaultInv DEF Next
<1> QED BY <1>1, <1>2

\* The invariant holds throughout.
LEMMA AlwaysInv == Spec => []Inv
BY InitInv, StepInv, PTL DEF Spec

\* TokenAgrees for every set of clis (ensure_admin_token, read_admin_token): a
\* daemon past its start and every cli that read a credential have the one of the
\* file, whatever daemons race for it and wherever they die.
THEOREM TokensAgree == Spec => []TokenAgrees
<1>1. Inv => TokenAgrees
  BY DEF Inv, HoldersAgree, Holding, TokenAgrees
<1> QED BY <1>1, AlwaysInv, PTL

-----------------------------------------------------------------------------
(* Racing starts *)

Late == {"health", "token", "dial"}

\* While no fault has happened, who listens is a daemon that serves, a cli past
\* its wait has a listener, one that dials has a credential, and only a remote cli
\* has failed.
Unharmed ==
  faults = 0 =>
    /\ listener # None => listener \in Clis /\ daemon[listener] = "serve"
    /\ \A c \in Clis : cli[c] \in Late => listener # None
    /\ \A c \in Clis : cli[c] = "dial" => got[c] # None
    /\ \A c \in Clis : cli[c] = "failed" => c \in Remote

\* Nobody has started in the beginning.
LEMMA InitUnharmed == Init => Unharmed
BY DEF Init, Unharmed, Late

\* The steps of a daemon: a listener stays, and a new one serves.
LEMMA DaemonUnharmed ==
  ASSUME Inv, Unharmed, NEW d \in Clis, DaemonStep(d)
  PROVE  Unharmed'
<1> SUFFICES ASSUME faults = 0
             PROVE  /\ listener' # None => listener' \in Clis /\ daemon'[listener'] = "serve"
                    /\ \A c \in Clis : cli'[c] \in Late => listener' # None
                    /\ \A c \in Clis : cli'[c] = "dial" => got'[c] # None
                    /\ \A c \in Clis : cli'[c] = "failed" => c \in Remote
  BY DEF DaemonStep, DaemonReads, DaemonCreates, DaemonWrites, DaemonOpens, DaemonBinds, Unharmed
<1>1. UNCHANGED <<cli, got>>
  BY DEF DaemonStep, DaemonReads, DaemonCreates, DaemonWrites, DaemonOpens, DaemonBinds
<1>2. CASE DaemonBinds(d)
  BY <1>1, <1>2, ForeignAssumption DEF DaemonBinds, Daemon, Inv, TypeOK, Unharmed
<1>3. CASE UNCHANGED listener /\ daemon[d] # "serve" /\ \E to : Daemon(d, to)
  BY <1>1, <1>3 DEF Daemon, Inv, TypeOK, Unharmed
<1> QED BY <1>2, <1>3 DEF DaemonStep, DaemonReads, DaemonCreates, DaemonWrites, DaemonOpens

\* The steps of a cli: without a fault its checks succeed.
LEMMA CliUnharmed ==
  ASSUME Inv, Unharmed, NEW c \in Clis, CliStep(c)
  PROVE  Unharmed'
<1> SUFFICES ASSUME faults = 0
             PROVE  /\ listener' # None => listener' \in Clis /\ daemon'[listener'] = "serve"
                    /\ \A x \in Clis : cli'[x] \in Late => listener' # None
                    /\ \A x \in Clis : cli'[x] = "dial" => got'[x] # None
                    /\ \A x \in Clis : cli'[x] = "failed" => x \in Remote
  BY DEF CliStep, CliConnects, CliFinds, CliChecks, CliReads, CliDials, Unharmed
<1> USE DEF Inv, TypeOK, Unharmed, Late, Cli
<1>1. CASE CliConnects(c)
  BY <1>1 DEF CliConnects, Daemon
<1>2. CASE CliFinds(c)
  BY <1>2 DEF CliFinds
<1>3. CASE CliChecks(c)
  BY <1>3 DEF CliChecks
<1>4. CASE CliReads(c)
  BY <1>4, ForeignAssumption DEF CliReads
<1>5. CASE CliDials(c)
  <2>1. listener \in Clis /\ token[listener] = file /\ got[c] = file
    BY <1>5 DEF CliDials, HoldersAgree, Holding
  <2> QED BY <1>5, <2>1 DEF CliDials
<1> QED BY <1>1, <1>2, <1>3, <1>4, <1>5 DEF CliStep

\* Every step keeps it.
LEMMA UnharmedStep == Inv /\ Unharmed /\ [Next]_vars => Unharmed'
<1> SUFFICES ASSUME Inv, Unharmed, [Next]_vars PROVE Unharmed'
  OBVIOUS
<1>1. CASE UNCHANGED vars
  BY <1>1 DEF vars, Unharmed
<1>2. CASE ForeignListens \/ \E c \in Clis : DaemonDies(c) \/ CliGivesUp(c)
  BY <1>2 DEF ForeignListens, DaemonDies, CliGivesUp, Unharmed, Inv, TypeOK
<1>3. ASSUME NEW c \in Clis, CliQuits(c) PROVE Unharmed'
  BY <1>3 DEF CliQuits, Cli, Unharmed, Late, Inv, TypeOK
<1> QED BY <1>1, <1>2, <1>3, DaemonUnharmed, CliUnharmed DEF Next

\* Who has a registration is up, and who was refused met one under its name.
Admitted ==
  /\ \A x \in Clis : server[x] # None => cli[x] = "up"
  /\ \A c \in Clis : cli[c] = "refused" =>
       \E x \in Clis \ {c} : As[x] = As[c] /\ cli[x] \in {"up", "quit"}

\* Nobody is registered or refused in the beginning.
LEMMA InitAdmitted == Init => Admitted
BY DEF Init, Admitted

\* Steps that leave registrations alone, and clis that are registered or were.
LEMMA AdmittedSame ==
  ASSUME Inv, Admitted, server' = server,
         \/ cli' = cli
         \/ \E c \in Clis, to \in CliAt : /\ cli[c] \notin {"up", "quit"} /\ to # "refused"
                                         /\ cli' = [cli EXCEPT ![c] = to]
  PROVE  Admitted'
BY DEF Inv, TypeOK, Admitted

\* A registration that is refused met another one, and the end of a session keeps
\* what it was met for.
LEMMA DialsAdmitted ==
  ASSUME Inv, Admitted, NEW c \in Clis, CliDials(c) \/ CliQuits(c)
  PROVE  Admitted'
<1>1. CASE CliDials(c)
  <2>1. cli[c] = "dial" /\ server[c] = None
    BY <1>1 DEF CliDials, Admitted
  <2>2. CASE cli' = [cli EXCEPT ![c] = "failed"] /\ server' = server
    <3>1. "failed" \in CliAt /\ cli[c] \notin {"up", "quit"}
      BY <2>1 DEF CliAt
    <3> QED BY <2>2, <3>1, AdmittedSame
  <2>3. CASE Taken(c) /\ listener \in Clis /\ cli' = [cli EXCEPT ![c] = "refused"] /\ server' = server
    <3>1. PICK x \in Clis : server[x] = listener /\ As[x] = As[c]
      BY <2>3 DEF Taken
    <3>2. x # c /\ cli[x] = "up"
      BY <2>1, <2>3, <3>1, ForeignAssumption DEF Admitted
    <3> QED BY <2>1, <2>3, <3>1, <3>2 DEF Inv, TypeOK, Admitted
  <2>4. CASE /\ cli' = [cli EXCEPT ![c] = "up"]
             /\ server' = [server EXCEPT ![c] = listener]
    BY <2>1, <2>4 DEF Inv, TypeOK, Admitted
  <2> QED BY <1>1, <2>2, <2>3, <2>4 DEF CliDials, Cli
<1>2. CASE CliQuits(c)
  BY <1>2 DEF CliQuits, Cli, Inv, TypeOK, Admitted
<1> QED BY <1>1, <1>2

\* Every step keeps it.
LEMMA AdmittedStep == Inv /\ Admitted /\ [Next]_vars => Admitted'
<1> SUFFICES ASSUME Inv, Admitted, [Next]_vars PROVE Admitted'
  OBVIOUS
<1>1. CASE UNCHANGED vars
  BY <1>1, AdmittedSame DEF vars
<1>2. ASSUME NEW c \in Clis, DaemonStep(c) \/ DaemonDies(c) PROVE Admitted'
  BY <1>2, AdmittedSame DEF DaemonStep, DaemonReads, DaemonCreates, DaemonWrites, DaemonOpens,
                            DaemonBinds, DaemonDies
<1>3. ASSUME NEW c \in Clis,
             CliConnects(c) \/ CliFinds(c) \/ CliChecks(c) \/ CliReads(c) \/ CliGivesUp(c)
      PROVE  Admitted'
  <2>1. /\ server' = server /\ cli[c] \notin {"up", "quit"}
        /\ \E to \in CliAt : to # "refused" /\ cli' = [cli EXCEPT ![c] = to]
    BY <1>3 DEF CliConnects, CliFinds, CliChecks, CliReads, CliGivesUp, Cli, CliAt
  <2> QED BY <2>1, AdmittedSame
<1>4. CASE ForeignListens
  BY <1>4, AdmittedSame DEF ForeignListens
<1> QED BY <1>1, <1>2, <1>3, <1>4, DialsAdmitted DEF Next, CliStep

\* RaceHarmless for every set of clis (lazy_start, run_daemon, register): daemons
\* that race for the file and for the endpoint make no cli fail, and one is refused
\* only for a name that another has.
THEOREM RacesAreHarmless == Spec => []RaceHarmless
<1>1. Inv /\ Unharmed /\ Admitted => RaceHarmless
  BY DEF Inv, TypeOK, Unharmed, Admitted, RaceHarmless
<1> QED BY <1>1, InitUnharmed, UnharmedStep, InitAdmitted, AdmittedStep, AlwaysInv, PTL DEF Spec

-----------------------------------------------------------------------------
(* The session *)

\* What a command, a call and its request may be.
Entering(c) == [kind |-> "enter", command |-> c]
Event ==
  [kind : {"enter"}, command : Tui!Command] \cup [kind : {"line", "lost"}]
    \cup [kind : {"prompt"}, prompt : [chan : Spoken, token : Tui!Calls]]
Verbs == {"none", "delete", "confirm", "call", "shutdown"}
Spawned ==
  {c \in [at : {"none", "spawned", "waiting", "answered", "done"}, cmd : Verbs,
          chan : Spoken \cup {None}, token : Tui!Calls \cup {None}, ok : BOOLEAN] :
     c.cmd \in {"delete", "confirm"} => c.chan \in Spoken}
Wired ==
  {r \in [call : Tui!Calls, cmd : Verbs, chan : Spoken \cup {None}, token : Tui!Calls \cup {None}] :
     r.cmd \in {"delete", "confirm"} => r.chan \in Spoken}
Answers == [call : Tui!Calls, ok : BOOLEAN]

SessionTyped ==
  /\ ui \in Seq(Event) /\ wire \in Seq(Wired) /\ back \in Seq(Answers)
  /\ task \in [Tui!Calls -> Spawned]
  /\ pend \in [chan : Spoken, token : Tui!Calls] \cup {None}
  /\ tokens \subseteq [token : Tui!Calls, id : Tui!Ids, name : Spoken]
  /\ gone \in [Names -> Nat] /\ told \in [Names -> Nat] /\ typed \in [Tui!Deletion -> Nat]

\* Call k is on its way to the broker, is on its way back, or is named by a token.
OnWire(k) == \E i \in DOMAIN wire : wire[i].call = k
OnBack(k) == \E i \in DOMAIN back : back[i].call = k
Granted(k) == \E t \in tokens : t.token = k

\* An id is new when its task starts, a request is on the wire once and before
\* its token exists, and it asks what its task asks.
IdsFresh ==
  /\ \A k \in Tui!Calls : link # "quit" /\ task[k].at \in {"none", "spawned"} =>
       ~OnWire(k) /\ ~OnBack(k) /\ ~Granted(k)
  /\ \A i, j \in DOMAIN wire : i # j => wire[i].call # wire[j].call
  /\ \A i \in DOMAIN wire : ~Granted(wire[i].call)
  /\ \A i \in DOMAIN wire : task[wire[i].call].at = "waiting" =>
       task[wire[i].call].cmd = wire[i].cmd /\ task[wire[i].call].chan = wire[i].chan

\* After the end nothing of the program is left.
QuitEmpty ==
  link = "quit" => ui = <<>> /\ \A k \in Tui!Calls : task[k].at = "none"

PendingExact == pending = {k \in Tui!Calls : task[k].at = "waiting"}

\* The calls that will be, or can still be, reported as a deletion of n.
Reporting(tk, bk, n) ==
  {k \in Tui!Calls :
     /\ tk[k].cmd = "confirm" /\ tk[k].chan = n
     /\ \/ tk[k].at = "answered" /\ tk[k].ok
        \/ /\ tk[k].at = "waiting"
           /\ \E i \in DOMAIN bk : bk[i].call = k /\ bk[i].ok}

\* A report is due for a channel that is gone.
ReportsPaid == \A n \in Names : told[n] + Cardinality(Reporting(task, back, n)) <= gone[n]

\* The places in the Ui channel where c waits to be run.
Waiting(s, c) == {i \in DOMAIN s : s[i] = Entering(c)}

\* The calls that a command of this kind for n has become and that can still
\* make a channel go.
Underway(tk, wr, ts, cmd, n) ==
  {k \in Tui!Calls :
     \/ tk[k].at = "spawned" /\ tk[k].cmd = cmd /\ tk[k].chan = n
     \/ \E i \in DOMAIN wr : wr[i].call = k /\ wr[i].cmd = cmd /\ wr[i].chan = n
     \/ cmd = "delete" /\ \E t \in ts : t.token = k /\ t.name = n}

\* Every command entered is waiting, underway, or used up by at most one channel.
CommandsPaid ==
  \A cmd \in {"delete", "confirm"}, n \in Spoken :
    gone[n] + Cardinality(Underway(task, wire, tokens, cmd, n))
            + Cardinality(Waiting(ui, Tui!Enter(cmd, n))) <= typed[Tui!Enter(cmd, n)]

\* Only a name the operator uses goes.
SpokenOnly == \A n \in Names : n \notin Spoken => gone[n] = 0

SessionInv ==
  /\ SessionTyped /\ IdsFresh /\ QuitEmpty /\ PendingExact
  /\ ReportsPaid /\ CommandsPaid /\ SpokenOnly

\* The calls of a session are finitely many.
LEMMA CallSets ==
  ASSUME NEW S \in SUBSET Tui!Calls
  PROVE  IsFiniteSet(S) /\ Cardinality(S) \in Nat
<1>1. IsFiniteSet(1 .. MaxTyped)
  BY BoundsAssumption, FS_Interval
<1>2. IsFiniteSet(S)
  BY <1>1, FS_Subset DEF Tui!Calls
<1> QED BY <1>2, FS_CardinalityType

\* Fewer calls count less, and strictly less when one is gone.
LEMMA CallsLess ==
  ASSUME NEW S \in SUBSET Tui!Calls, NEW T \in SUBSET S
  PROVE  /\ Cardinality(T) <= Cardinality(S)
         /\ \A k \in S : k \notin T => Cardinality(T) + 1 <= Cardinality(S)
<1>1. IsFiniteSet(S) /\ Cardinality(S) \in Nat /\ Cardinality(T) \in Nat
  BY CallSets
<1>2. Cardinality(T) <= Cardinality(S)
  BY <1>1, FS_Subset
<1>3. ASSUME NEW k \in S, k \notin T PROVE Cardinality(T) + 1 <= Cardinality(S)
  <2>1. IsFiniteSet(S \ {k}) /\ Cardinality(S \ {k}) = Cardinality(S) - 1
    BY <1>1, <1>3, FS_RemoveElement
  <2>2. T \subseteq S \ {k}
    BY <1>3
  <2>3. Cardinality(T) <= Cardinality(S \ {k})
    BY <2>1, <2>2, FS_Subset
  <2> QED BY <1>1, <2>1, <2>3
<1> QED BY <1>2, <1>3

\* One call more counts at most one more.
LEMMA CallsMore ==
  ASSUME NEW S \in SUBSET Tui!Calls, NEW k \in Tui!Calls, NEW T \in SUBSET (S \cup {k})
  PROVE  Cardinality(T) <= Cardinality(S) + 1
<1>1. IsFiniteSet(S) /\ Cardinality(S) \in Nat
  BY CallSets
<1>2. /\ IsFiniteSet(S \cup {k}) /\ Cardinality(S \cup {k}) \in Nat
      /\ Cardinality(S \cup {k}) <= Cardinality(S) + 1
  BY <1>1, FS_AddElement, CallSets
<1>3. Cardinality(T) <= Cardinality(S \cup {k}) /\ Cardinality(T) \in Nat
  BY <1>2, FS_Subset, CallSets
<1> QED BY <1>1, <1>2, <1>3

\* The commands that wait in a queue are finitely many.
LEMMA WaitingSet ==
  ASSUME NEW S, NEW s \in Seq(S), NEW c
  PROVE  IsFiniteSet(Waiting(s, c)) /\ Cardinality(Waiting(s, c)) \in Nat
<1>1. Len(s) \in Nat /\ DOMAIN s = 1 .. Len(s)
  OBVIOUS
<1>2. IsFiniteSet(1 .. Len(s))
  BY <1>1, FS_Interval
<1>3. Waiting(s, c) \subseteq 1 .. Len(s)
  BY <1>1 DEF Waiting
<1>4. IsFiniteSet(Waiting(s, c))
  BY <1>2, <1>3, FS_Subset
<1> QED BY <1>4, FS_CardinalityType

\* A command that joins a queue waits there once more; another event changes
\* nothing for it.
LEMMA WaitingAppend ==
  ASSUME NEW S, NEW s \in Seq(S), NEW e \in S, NEW c
  PROVE  Cardinality(Waiting(Append(s, e), c)) =
           Cardinality(Waiting(s, c)) + (IF e = Entering(c) THEN 1 ELSE 0)
<1>1. /\ Len(s) \in Nat /\ DOMAIN s = 1 .. Len(s)
      /\ DOMAIN Append(s, e) = 1 .. Len(s) + 1
      /\ \A i \in 1 .. Len(s) : Append(s, e)[i] = s[i]
      /\ Append(s, e)[Len(s) + 1] = e
  OBVIOUS
<1>2. IsFiniteSet(Waiting(s, c)) /\ Cardinality(Waiting(s, c)) \in Nat
  BY WaitingSet
<1>3. CASE e = Entering(c)
  <2>1. /\ Waiting(Append(s, e), c) = Waiting(s, c) \cup {Len(s) + 1}
        /\ Len(s) + 1 \notin Waiting(s, c)
    BY <1>1, <1>3 DEF Waiting
  <2> QED BY <1>2, <1>3, <2>1, FS_AddElement
<1>4. CASE e # Entering(c)
  <2>1. Waiting(Append(s, e), c) = Waiting(s, c)
    BY <1>1, <1>4 DEF Waiting
  <2> QED BY <1>2, <1>4, <2>1
<1> QED BY <1>3, <1>4

\* A command that leaves a queue waits there once less; another event changes
\* nothing for it.
LEMMA WaitingTail ==
  ASSUME NEW S, NEW s \in Seq(S), s # <<>>, NEW c
  PROVE  Cardinality(Waiting(Tail(s), c)) + (IF Head(s) = Entering(c) THEN 1 ELSE 0)
           <= Cardinality(Waiting(s, c))
<1> DEFINE W == Waiting(s, c)
           T == Waiting(Tail(s), c)
           f == [i \in T |-> i + 1]
<1>1. /\ Len(s) \in Nat /\ Len(s) > 0 /\ DOMAIN s = 1 .. Len(s) /\ s[1] = Head(s)
      /\ DOMAIN Tail(s) = 1 .. Len(s) - 1
      /\ \A i \in 1 .. Len(s) - 1 : Tail(s)[i] = s[i + 1]
  OBVIOUS
<1>2. Tail(s) \in Seq(S)
  OBVIOUS
<1>3. /\ IsFiniteSet(W) /\ Cardinality(W) \in Nat
      /\ IsFiniteSet(T) /\ Cardinality(T) \in Nat
  BY <1>2, WaitingSet
<1>4. /\ \A i \in T : i \in Nat /\ i + 1 \in W \ {1}
  BY <1>1 DEF Waiting
<1> HIDE DEF W, T
<1>5. f \in Injection(T, W \ {1})
  BY <1>4 DEF Injection, IsInjective
<1>6. IsFiniteSet(W \ {1})
  BY <1>3, FS_RemoveElement
<1>7. Cardinality(T) <= Cardinality(W \ {1})
  BY <1>5, <1>6, FS_Injection
<1>8. Cardinality(W \ {1}) = IF 1 \in W THEN Cardinality(W) - 1 ELSE Cardinality(W)
  BY <1>3, FS_RemoveElement
<1>9. 1 \in W <=> Head(s) = Entering(c)
  BY <1>1 DEF Waiting, W
<1> QED BY <1>3, <1>7, <1>8, <1>9 DEF T, W

\* The operands of the two accounts are numbers.
LEMMA Accounts ==
  ASSUME SessionTyped
  PROVE  /\ \A n \in Names : /\ gone[n] \in Nat /\ told[n] \in Nat
                              /\ Reporting(task, back, n) \in SUBSET Tui!Calls
                              /\ Cardinality(Reporting(task, back, n)) \in Nat
         /\ \A cmd \in {"delete", "confirm"}, n \in Spoken :
              /\ n \in Names /\ Tui!Enter(cmd, n) \in Tui!Deletion
              /\ typed[Tui!Enter(cmd, n)] \in Nat
              /\ Underway(task, wire, tokens, cmd, n) \in SUBSET Tui!Calls
              /\ Cardinality(Underway(task, wire, tokens, cmd, n)) \in Nat
              /\ Cardinality(Waiting(ui, Tui!Enter(cmd, n))) \in Nat
<1>1. ASSUME NEW n \in Names
      PROVE  /\ gone[n] \in Nat /\ told[n] \in Nat
             /\ Reporting(task, back, n) \in SUBSET Tui!Calls
             /\ Cardinality(Reporting(task, back, n)) \in Nat
  <2>1. Reporting(task, back, n) \in SUBSET Tui!Calls
    BY DEF Reporting
  <2> QED BY <2>1, CallSets DEF SessionTyped
<1>2. ASSUME NEW cmd \in {"delete", "confirm"}, NEW n \in Spoken
      PROVE  /\ n \in Names /\ Tui!Enter(cmd, n) \in Tui!Deletion
             /\ typed[Tui!Enter(cmd, n)] \in Nat
             /\ Underway(task, wire, tokens, cmd, n) \in SUBSET Tui!Calls
             /\ Cardinality(Underway(task, wire, tokens, cmd, n)) \in Nat
             /\ Cardinality(Waiting(ui, Tui!Enter(cmd, n))) \in Nat
  <2>1. Underway(task, wire, tokens, cmd, n) \in SUBSET Tui!Calls
    BY DEF Underway
  <2>2. Cardinality(Waiting(ui, Tui!Enter(cmd, n))) \in Nat
    BY WaitingSet DEF SessionTyped
  <2>3. Tui!Enter(cmd, n) \in Tui!Deletion
    BY DEF Tui!Enter, Tui!Deletion
  <2> QED BY <2>1, <2>2, <2>3, CallSets, NamedAssumption DEF SessionTyped
<1> QED BY <1>1, <1>2

\* A step that enters no command and deletes nothing keeps the account of the
\* commands when it adds no call to it.
LEMMA CommandsKept ==
  ASSUME SessionTyped, SessionTyped', CommandsPaid, UNCHANGED <<typed, gone>>,
         \A cmd \in {"delete", "confirm"}, n \in Spoken :
           /\ Underway(task', wire', tokens', cmd, n) \subseteq Underway(task, wire, tokens, cmd, n)
           /\ Cardinality(Waiting(ui', Tui!Enter(cmd, n)))
                <= Cardinality(Waiting(ui, Tui!Enter(cmd, n)))
  PROVE  CommandsPaid'
<1> SUFFICES ASSUME NEW cmd \in {"delete", "confirm"}, NEW n \in Spoken
             PROVE  gone'[n] + Cardinality(Underway(task', wire', tokens', cmd, n))
                      + Cardinality(Waiting(ui', Tui!Enter(cmd, n))) <= typed'[Tui!Enter(cmd, n)]
  BY DEF CommandsPaid, Tui!Enter
<1>1. Cardinality(Underway(task', wire', tokens', cmd, n))
        <= Cardinality(Underway(task, wire, tokens, cmd, n))
  BY Accounts, CallsLess
<1>2. Underway(task', wire', tokens', cmd, n) \in SUBSET Tui!Calls
  BY DEF Underway
<1>3. Cardinality(Underway(task', wire', tokens', cmd, n)) \in Nat
  BY <1>2, CallSets
<1>4. Cardinality(Waiting(ui', Tui!Enter(cmd, n))) \in Nat
  BY WaitingSet DEF SessionTyped
<1> QED BY <1>1, <1>3, <1>4, Accounts DEF CommandsPaid

\* A step that neither deletes nor reports keeps the account of the reports when
\* it adds no call to it.
LEMMA ReportsKept ==
  ASSUME SessionTyped, ReportsPaid, UNCHANGED <<gone, told>>,
         \A n \in Names : Reporting(task', back', n) \subseteq Reporting(task, back, n)
  PROVE  ReportsPaid'
<1> SUFFICES ASSUME NEW n \in Names
             PROVE  told'[n] + Cardinality(Reporting(task', back', n)) <= gone'[n]
  BY DEF ReportsPaid
<1>1. Cardinality(Reporting(task', back', n)) <= Cardinality(Reporting(task, back, n))
  BY Accounts, CallsLess
<1>2. Reporting(task', back', n) \in SUBSET Tui!Calls
  BY DEF Reporting
<1>3. Cardinality(Reporting(task', back', n)) \in Nat
  BY <1>2, CallSets
<1> QED BY <1>1, <1>3, Accounts DEF ReportsPaid

\* Both at once.
LEMMA PaidKept ==
  ASSUME SessionTyped, SessionTyped', CommandsPaid, ReportsPaid, SpokenOnly,
         UNCHANGED <<typed, gone, told>>,
         \A n \in Names : Reporting(task', back', n) \subseteq Reporting(task, back, n),
         \A cmd \in {"delete", "confirm"}, n \in Spoken :
           /\ Underway(task', wire', tokens', cmd, n) \subseteq Underway(task, wire, tokens, cmd, n)
           /\ Cardinality(Waiting(ui', Tui!Enter(cmd, n)))
                <= Cardinality(Waiting(ui, Tui!Enter(cmd, n)))
  PROVE  CommandsPaid' /\ ReportsPaid' /\ SpokenOnly'
<1>1. SpokenOnly'
  BY DEF SpokenOnly
<1> QED BY <1>1, CommandsKept, ReportsKept

\* The session has not begun.
LEMMA InitSession == Tui!Init => SessionInv
<1> SUFFICES ASSUME Tui!Init PROVE SessionInv  OBVIOUS
<1> USE DEF Tui!Init
<1>1. SessionTyped
  <2>1. Tui!Idle \in Spawned
    BY DEF Tui!Idle, Tui!Task, Spawned, Verbs
  <2>2. task \in [Tui!Calls -> Spawned]
    BY <2>1
  <2>3. ui \in Seq(Event) /\ wire \in Seq(Wired) /\ back \in Seq(Answers)
    OBVIOUS
  <2> QED BY <2>2, <2>3 DEF SessionTyped
<1>2. \A k \in Tui!Calls : task[k].at = "none" /\ task[k].cmd = "none"
  BY DEF Tui!Idle, Tui!Task
<1>3. IdsFresh /\ QuitEmpty /\ PendingExact /\ SpokenOnly
  BY <1>2 DEF IdsFresh, OnWire, OnBack, Granted, QuitEmpty, PendingExact, SpokenOnly
<1>4. ReportsPaid
  <2> SUFFICES ASSUME NEW n \in Names
               PROVE  told[n] + Cardinality(Reporting(task, back, n)) <= gone[n]
    BY DEF ReportsPaid
  <2>1. Reporting(task, back, n) = {}
    BY <1>2 DEF Reporting
  <2>2. Cardinality(Reporting(task, back, n)) = 0
    BY <2>1, FS_EmptySet
  <2> QED BY <2>2
<1>5. CommandsPaid
  <2> SUFFICES ASSUME NEW cmd \in {"delete", "confirm"}, NEW n \in Spoken
               PROVE  gone[n] + Cardinality(Underway(task, wire, tokens, cmd, n))
                        + Cardinality(Waiting(ui, Tui!Enter(cmd, n))) <= typed[Tui!Enter(cmd, n)]
    BY DEF CommandsPaid
  <2>1. Underway(task, wire, tokens, cmd, n) = {} /\ Waiting(ui, Tui!Enter(cmd, n)) = {}
    BY <1>2 DEF Underway, Waiting
  <2>2. typed[Tui!Enter(cmd, n)] \in Nat /\ gone[n] = 0
    BY <1>1, Accounts
  <2>3. /\ Cardinality(Underway(task, wire, tokens, cmd, n)) = 0
        /\ Cardinality(Waiting(ui, Tui!Enter(cmd, n))) = 0
    BY <2>1, FS_EmptySet
  <2> QED BY <2>2, <2>3
<1> QED BY <1>1, <1>3, <1>4, <1>5 DEF SessionInv

\* The session opens, the broker goes with its tokens, another admin renames.
LEMMA OutsideSession ==
  ASSUME SessionInv, Tui!Opens \/ Tui!LinkDrops \/ \E i \in Tui!Ids, n \in Names : Tui!OtherRenames(i, n)
  PROVE  SessionInv'
<1> USE DEF SessionInv
<1>1. /\ UNCHANGED <<ui, pend, task, pending, back, gone, typed, told>>
      /\ \/ wire' = wire /\ tokens' = tokens
         \/ wire' = <<>> /\ tokens' = {}
      /\ link' = "quit" <=> link = "quit"
  BY DEF Tui!Opens, Tui!LinkDrops, Tui!OtherRenames, Tui!client, Tui!broker, Tui!entered
<1>2. SessionTyped'
  <2>1. wire' \in Seq(Wired) /\ tokens' \subseteq [token : Tui!Calls, id : Tui!Ids, name : Spoken]
    <3>1. <<>> \in Seq(Wired)
      OBVIOUS
    <3> QED BY <1>1, <3>1 DEF SessionTyped
  <2> QED BY <1>1, <2>1 DEF SessionTyped
<1>3. IdsFresh'
  <2>1. CASE wire' = wire /\ tokens' = tokens
    BY <1>1, <2>1 DEF IdsFresh, OnWire, OnBack, Granted
  <2>2. CASE wire' = <<>> /\ tokens' = {}
    BY <1>1, <2>2 DEF IdsFresh, OnWire, OnBack, Granted
  <2> QED BY <1>1, <2>1, <2>2
<1>4. QuitEmpty' /\ PendingExact'
  BY <1>1 DEF QuitEmpty, PendingExact
<1>5. \A cmd \in {"delete", "confirm"}, n \in Spoken :
        Underway(task', wire', tokens', cmd, n) \subseteq Underway(task, wire, tokens, cmd, n)
  BY <1>1 DEF Underway
<1>6. CommandsPaid' /\ ReportsPaid' /\ SpokenOnly'
  BY <1>1, <1>2, <1>5, Accounts, PaidKept
<1> QED BY <1>2, <1>3, <1>4, <1>6

\* The operator enters a command: it is paid for and waits.
LEMMA TypesSession ==
  ASSUME SessionInv, NEW c \in Tui!Command, Tui!Types(c)
  PROVE  SessionInv'
<1> USE DEF SessionInv
<1>1. /\ UNCHANGED <<link, pend, task, pending, wire, back, tokens, gone, told>>
      /\ ui' = Append(ui, Entering(c))
      /\ typed' = [d \in Tui!Deletion |-> IF d = c THEN typed[d] + 1 ELSE typed[d]]
      /\ link # "quit"
  BY DEF Tui!Types, Tui!Post, Tui!Open, Tui!client, Tui!broker, Entering
<1>2. Entering(c) \in Event
  BY DEF Entering, Event
<1>3. SessionTyped'
  <2>1. ui' \in Seq(Event)
    BY <1>1, <1>2 DEF SessionTyped
  <2>2. typed' \in [Tui!Deletion -> Nat]
    BY <1>1 DEF SessionTyped
  <2> QED BY <1>1, <2>1, <2>2 DEF SessionTyped
<1>4. IdsFresh'
  BY <1>1 DEF IdsFresh, OnWire, OnBack, Granted
<1>5. QuitEmpty' /\ PendingExact' /\ SpokenOnly' /\ ReportsPaid'
  BY <1>1 DEF QuitEmpty, PendingExact, SpokenOnly, ReportsPaid
<1>6. CommandsPaid'
  <2> SUFFICES ASSUME NEW cmd \in {"delete", "confirm"}, NEW n \in Spoken
               PROVE  gone'[n] + Cardinality(Underway(task', wire', tokens', cmd, n))
                        + Cardinality(Waiting(ui', Tui!Enter(cmd, n))) <= typed'[Tui!Enter(cmd, n)]
    BY DEF CommandsPaid, Tui!Enter
  <2> PICK d \in Tui!Deletion : d = Tui!Enter(cmd, n)
    BY Accounts
  <2>1. Entering(c) = Entering(d) => c = d
    BY DEF Entering
  <2>2. Cardinality(Waiting(ui', d)) =
          Cardinality(Waiting(ui, d)) + (IF Entering(c) = Entering(d) THEN 1 ELSE 0)
    BY <1>1, <1>2, WaitingAppend DEF SessionTyped
  <2>3. typed'[d] = typed[d] + (IF c = d THEN 1 ELSE 0)
    BY <1>1, Accounts
  <2>4. /\ gone[n] + Cardinality(Underway(task, wire, tokens, cmd, n)) + Cardinality(Waiting(ui, d))
             <= typed[d]
        /\ gone[n] \in Nat /\ Cardinality(Underway(task, wire, tokens, cmd, n)) \in Nat
        /\ Cardinality(Waiting(ui, d)) \in Nat /\ typed[d] \in Nat
    BY Accounts DEF CommandsPaid
  <2> QED BY <1>1, <2>1, <2>2, <2>3, <2>4
<1> QED BY <1>3, <1>4, <1>5, <1>6

\* The program ends; what the broker has not read stays on the wire.
LEMMA QuitsSession == ASSUME SessionInv, Tui!Quits PROVE SessionInv'
<1> USE DEF SessionInv
<1>1. /\ UNCHANGED <<wire, tokens, gone, typed, told>>
      /\ link' = "quit" /\ ui' = <<>> /\ back' = <<>> /\ pend' = None /\ pending' = {}
      /\ task' = [k \in Tui!Calls |-> Tui!Idle]
  BY DEF Tui!Quits, Tui!broker
<1>2. Tui!Idle \in Spawned /\ Tui!Idle.at = "none" /\ Tui!Idle.cmd = "none"
  BY DEF Tui!Idle, Tui!Task, Spawned, Verbs
<1>3. SessionTyped'
  <2>1. task' \in [Tui!Calls -> Spawned]
    BY <1>1, <1>2
  <2>2. ui' \in Seq(Event) /\ back' \in Seq(Answers)
    BY <1>1
  <2> QED BY <1>1, <2>1, <2>2 DEF SessionTyped
<1>4. \A k \in Tui!Calls : task'[k].at = "none" /\ task'[k].cmd = "none"
  BY <1>1, <1>2
<1>5. IdsFresh'
  <2>1. \A i \in DOMAIN wire : wire[i].call \in Tui!Calls
    BY DEF SessionTyped, Wired
  <2> QED BY <1>1, <1>4, <2>1 DEF IdsFresh, Granted
<1>6. QuitEmpty' /\ PendingExact'
  BY <1>1, <1>4 DEF QuitEmpty, PendingExact
<1>7. /\ \A n \in Names : Reporting(task', back', n) \subseteq Reporting(task, back, n)
      /\ \A cmd \in {"delete", "confirm"}, n \in Spoken :
           Underway(task', wire', tokens', cmd, n) \subseteq Underway(task, wire, tokens, cmd, n)
  BY <1>1, <1>4 DEF Reporting, Underway
<1>8. \A cmd \in {"delete", "confirm"}, n \in Spoken :
        Cardinality(Waiting(ui', Tui!Enter(cmd, n))) <= Cardinality(Waiting(ui, Tui!Enter(cmd, n)))
  <2> SUFFICES ASSUME NEW cmd \in {"delete", "confirm"}, NEW n \in Spoken
               PROVE  Cardinality(Waiting(ui', Tui!Enter(cmd, n)))
                        <= Cardinality(Waiting(ui, Tui!Enter(cmd, n)))
    OBVIOUS
  <2>1. Waiting(ui', Tui!Enter(cmd, n)) = {}
    BY <1>1 DEF Waiting
  <2>2. Cardinality(Waiting(ui', Tui!Enter(cmd, n))) = 0
    BY <2>1, FS_EmptySet
  <2> QED BY <2>2, Accounts
<1>9. CommandsPaid' /\ ReportsPaid' /\ SpokenOnly'
  BY <1>1, <1>3, <1>7, <1>8, PaidKept
<1> QED BY <1>3, <1>5, <1>6, <1>9

\* A call enters the pending map and is sent, unless the link is down.
LEMMA TaskStartsSession ==
  ASSUME SessionInv, NEW k \in Tui!Calls, Tui!TaskStarts(k)
  PROVE  SessionInv'
<1> USE DEF SessionInv
<1>1. PICK c \in Spawned : c = task[k]
  BY DEF SessionTyped
<1>2. PICK new : new = Tui!Task("waiting", c.cmd, c.chan, c.token, FALSE)
  OBVIOUS
<1>3. PICK r : r = [call |-> k, cmd |-> c.cmd, chan |-> c.chan, token |-> c.token]
  OBVIOUS
<1>4. /\ UNCHANGED <<link, ui, pend, back, tokens, gone, typed, told>>
      /\ link # "quit" /\ c.at = "spawned"
      /\ task' = [task EXCEPT ![k] = new]
      /\ pending' = pending \cup {k}
      /\ wire' = wire \/ wire' = Append(wire, r)
  BY <1>1, <1>2, <1>3 DEF Tui!TaskStarts, Tui!Request, Tui!Open, Tui!broker, Tui!entered
<1>5. new \in Spawned /\ new.at = "waiting" /\ new.cmd = c.cmd /\ new.chan = c.chan
  BY <1>2 DEF Tui!Task, Spawned
<1>6. r \in Wired /\ r.call = k /\ r.cmd = c.cmd /\ r.chan = c.chan
  BY <1>3 DEF Spawned, Wired
<1>7. /\ task' \in [Tui!Calls -> Spawned] /\ task'[k] = new
      /\ \A j \in Tui!Calls : j # k => task'[j] = task[j]
  BY <1>4, <1>5 DEF SessionTyped
<1>8. ~OnWire(k) /\ ~OnBack(k) /\ ~Granted(k)
  BY <1>1, <1>4 DEF IdsFresh
<1>9. /\ wire' \in Seq(Wired)
      /\ \A i \in DOMAIN wire' : \/ i \in DOMAIN wire /\ wire'[i] = wire[i] /\ wire[i].call # k
                                 \/ i \notin DOMAIN wire /\ i = Len(wire) + 1 /\ wire'[i] = r
  <2>1. wire \in Seq(Wired)
    BY DEF SessionTyped
  <2>2. CASE wire' = wire
    BY <1>8, <2>1, <2>2 DEF OnWire
  <2>3. CASE wire' = Append(wire, r)
    <3>1. /\ wire' \in Seq(Wired) /\ Len(wire) \in Nat /\ DOMAIN wire = 1 .. Len(wire)
          /\ DOMAIN wire' = 1 .. Len(wire) + 1
          /\ \A i \in DOMAIN wire : wire'[i] = wire[i]
          /\ wire'[Len(wire) + 1] = r
      BY <1>6, <2>1, <2>3
    <3> QED BY <1>8, <3>1 DEF OnWire
  <2> QED BY <1>4, <2>2, <2>3
<1>10. SessionTyped'
  BY <1>4, <1>7, <1>9 DEF SessionTyped
<1>11. IdsFresh'
  <2>1. ASSUME NEW j \in Tui!Calls, task'[j].at \in {"none", "spawned"}
        PROVE  ~OnWire(j)' /\ ~OnBack(j)' /\ ~Granted(j)'
    <3>1. j # k /\ task[j].at \in {"none", "spawned"}
      BY <1>5, <1>7, <2>1
    <3>2. ~OnWire(j) /\ ~OnBack(j) /\ ~Granted(j)
      BY <1>4, <3>1 DEF IdsFresh
    <3> QED BY <1>4, <1>6, <1>9, <3>1, <3>2 DEF OnWire, OnBack, Granted
  <2>2. \A i, j \in DOMAIN wire' : i # j => wire'[i].call # wire'[j].call
    BY <1>6, <1>9 DEF IdsFresh
  <2>3. \A i \in DOMAIN wire' : ~Granted(wire'[i].call)
    BY <1>6, <1>8, <1>9 DEF IdsFresh
  <2>4. \A i \in DOMAIN wire : wire[i].call \in Tui!Calls
    BY DEF SessionTyped, Wired
  <2>5. ASSUME NEW i \in DOMAIN wire', task'[wire'[i].call].at = "waiting"
        PROVE  task'[wire'[i].call].cmd = wire'[i].cmd /\ task'[wire'[i].call].chan = wire'[i].chan
    <3>1. CASE i \in DOMAIN wire
      BY <1>7, <1>9, <2>4, <2>5, <3>1 DEF IdsFresh
    <3>2. CASE i \notin DOMAIN wire
      BY <1>5, <1>6, <1>7, <1>9, <3>2
    <3> QED BY <3>1, <3>2
  <2> QED BY <1>4, <2>1, <2>2, <2>3, <2>5 DEF IdsFresh, Granted, OnWire, OnBack
<1>12. QuitEmpty' /\ PendingExact'
  BY <1>4, <1>5, <1>7 DEF QuitEmpty, PendingExact
<1>13. ASSUME NEW n \in Names PROVE Reporting(task', back', n) \subseteq Reporting(task, back, n)
  <2>1. k \notin Reporting(task', back', n)
    BY <1>4, <1>5, <1>7, <1>8 DEF Reporting, OnBack
  <2> QED BY <1>4, <1>7, <2>1 DEF Reporting
<1>14. ASSUME NEW cmd \in {"delete", "confirm"}, NEW n \in Spoken
       PROVE  Underway(task', wire', tokens', cmd, n) \subseteq Underway(task, wire, tokens, cmd, n)
  <2> SUFFICES ASSUME NEW j \in Tui!Calls, j \in Underway(task', wire', tokens', cmd, n)
               PROVE  j \in Underway(task, wire, tokens, cmd, n)
    BY DEF Underway
  <2>1. CASE j # k
    BY <1>4, <1>6, <1>7, <1>9, <2>1 DEF Underway
  <2>2. CASE j = k
    BY <1>1, <1>4, <1>5, <1>6, <1>7, <1>8, <1>9, <2>2 DEF Underway, Granted
  <2> QED BY <2>1, <2>2
<1>15. \A cmd \in {"delete", "confirm"}, n \in Spoken :
         Cardinality(Waiting(ui', Tui!Enter(cmd, n))) <= Cardinality(Waiting(ui, Tui!Enter(cmd, n)))
  BY <1>4, Accounts
<1>16. CommandsPaid' /\ ReportsPaid' /\ SpokenOnly'
  BY <1>4, <1>10, <1>13, <1>14, <1>15, PaidKept
<1> QED BY <1>10, <1>11, <1>12, <1>16

\* A line or a prompt that joins the Ui channel is no command.
LEMMA PostKeeps ==
  ASSUME SessionTyped, NEW e \in Event, e.kind # "enter", ui' = Append(ui, e)
  PROVE  /\ ui' \in Seq(Event)
         /\ \A cmd \in {"delete", "confirm"}, n \in Spoken :
              Cardinality(Waiting(ui', Tui!Enter(cmd, n))) <= Cardinality(Waiting(ui, Tui!Enter(cmd, n)))
<1>1. ui \in Seq(Event)
  BY DEF SessionTyped
<1>2. ui' \in Seq(Event)
  BY <1>1
<1>3. ASSUME NEW cmd \in {"delete", "confirm"}, NEW n \in Spoken
      PROVE  Cardinality(Waiting(ui', Tui!Enter(cmd, n))) <= Cardinality(Waiting(ui, Tui!Enter(cmd, n)))
  <2>1. e # Entering(Tui!Enter(cmd, n))
    BY DEF Entering
  <2>2. Cardinality(Waiting(ui', Tui!Enter(cmd, n))) = Cardinality(Waiting(ui, Tui!Enter(cmd, n))) + 0
    BY <1>1, <2>1, WaitingAppend
  <2> QED BY <2>2, Accounts
<1> QED BY <1>2, <1>3

\* A call whose task is over, or gone from the pending map, is in the way of
\* nothing: its id stays used.
LEMMA TaskOverSession ==
  ASSUME SessionInv, NEW k \in Tui!Calls, NEW e \in Event, e.kind # "enter",
         ui' = Append(ui, e), link' = link, link # "quit",
         task' = [task EXCEPT ![k] = Tui!Done], pending' = pending \ {k},
         task[k].at \in {"waiting", "answered"},
         UNCHANGED <<pend, wire, back, tokens, gone, typed>>
  PROVE  /\ IdsFresh' /\ QuitEmpty' /\ PendingExact'
         /\ told' \in [Names -> Nat] => SessionTyped'
         /\ \A n \in Names : Reporting(task', back', n) = Reporting(task, back, n) \ {k}
         /\ \A cmd \in {"delete", "confirm"}, n \in Spoken :
              /\ Underway(task', wire', tokens', cmd, n) \subseteq Underway(task, wire, tokens, cmd, n)
              /\ Cardinality(Waiting(ui', Tui!Enter(cmd, n)))
                   <= Cardinality(Waiting(ui, Tui!Enter(cmd, n)))
<1> USE DEF SessionInv
<1>1. Tui!Done \in Spawned /\ Tui!Done.at = "done" /\ Tui!Done.cmd = "none"
  BY DEF Tui!Done, Tui!Task, Spawned, Verbs
<1>2. /\ task' \in [Tui!Calls -> Spawned] /\ task'[k].at = "done" /\ task'[k].cmd = "none"
      /\ \A j \in Tui!Calls : j # k => task'[j] = task[j]
  BY <1>1 DEF SessionTyped
<1>3. told' \in [Names -> Nat] => SessionTyped'
  BY <1>2, PostKeeps DEF SessionTyped
<1>4. \A i \in DOMAIN wire : wire[i].call \in Tui!Calls
  BY DEF SessionTyped, Wired
<1>5. IdsFresh'
  BY <1>2, <1>4 DEF IdsFresh, OnWire, OnBack, Granted
<1>6. QuitEmpty' /\ PendingExact'
  BY <1>2 DEF QuitEmpty, PendingExact
<1>7. \A n \in Names : Reporting(task', back', n) = Reporting(task, back, n) \ {k}
  BY <1>2 DEF Reporting
<1>8. \A cmd \in {"delete", "confirm"}, n \in Spoken :
        Underway(task', wire', tokens', cmd, n) \subseteq Underway(task, wire, tokens, cmd, n)
  BY <1>2 DEF Underway
<1> QED BY <1>3, <1>5, <1>6, <1>7, <1>8, PostKeeps

\* A call that times out reports nothing.
LEMMA TimesOutSession ==
  ASSUME SessionInv, NEW k \in Tui!Calls, Tui!TaskTimesOut(k)
  PROVE  SessionInv'
<1> USE DEF SessionInv
<1>1. Tui!Line \in Event /\ Tui!Line.kind # "enter"
  BY DEF Tui!Line, Event
<1>2. /\ ui' = Append(ui, Tui!Line) /\ link # "quit" /\ task' = [task EXCEPT ![k] = Tui!Done]
      /\ task[k].at = "waiting" /\ pending' = pending \ {k}
      /\ UNCHANGED <<link, pend, wire, back, tokens, gone, typed, told>>
  BY DEF Tui!TaskTimesOut, Tui!Post, Tui!Open, Tui!broker, Tui!entered
<1>3. /\ IdsFresh' /\ QuitEmpty' /\ PendingExact' /\ SessionTyped'
      /\ \A n \in Names : Reporting(task', back', n) \subseteq Reporting(task, back, n)
      /\ \A cmd \in {"delete", "confirm"}, n \in Spoken :
           /\ Underway(task', wire', tokens', cmd, n) \subseteq Underway(task, wire, tokens, cmd, n)
           /\ Cardinality(Waiting(ui', Tui!Enter(cmd, n)))
                <= Cardinality(Waiting(ui, Tui!Enter(cmd, n)))
  <2>1. told' \in [Names -> Nat]
    BY <1>2 DEF SessionTyped
  <2> QED BY <1>1, <1>2, <2>1, TaskOverSession
<1>4. CommandsPaid' /\ ReportsPaid' /\ SpokenOnly'
  BY <1>2, <1>3, PaidKept
<1> QED BY <1>3, <1>4

\* The task of an answered call ends: a report is one that was due.
LEMMA TaskEndsSession ==
  ASSUME SessionInv, NEW k \in Tui!Calls, Tui!TaskEnds(k)
  PROVE  SessionInv'
<1> USE DEF SessionInv
<1>1. PICK c \in Spawned : c = task[k]
  BY DEF SessionTyped
<1>2. PICK e : e = IF c.cmd = "delete" /\ c.ok
                   THEN [kind |-> "prompt", prompt |-> [chan |-> c.chan, token |-> k]]
                   ELSE Tui!Line
  OBVIOUS
<1>3. /\ ui' = Append(ui, e) /\ link # "quit" /\ task' = [task EXCEPT ![k] = Tui!Done]
      /\ c.at = "answered"
      /\ told' = IF c.cmd = "confirm" /\ c.ok THEN [told EXCEPT ![c.chan] = @ + 1] ELSE told
      /\ UNCHANGED <<link, pend, pending, wire, back, tokens, gone, typed>>
  BY <1>1, <1>2 DEF Tui!TaskEnds, Tui!Post, Tui!Open, Tui!broker
<1>4. e \in Event /\ e.kind # "enter"
  BY <1>2 DEF Tui!Line, Event, Spawned
<1>5. c.cmd = "confirm" => c.chan \in Names
  BY NamedAssumption DEF Spawned
<1>6. told' \in [Names -> Nat]
  BY <1>3, <1>5 DEF SessionTyped
<1>7. pending' = pending \ {k}
  BY <1>1, <1>3 DEF PendingExact
<1>8. /\ IdsFresh' /\ QuitEmpty' /\ PendingExact' /\ SessionTyped'
      /\ \A n \in Names : Reporting(task', back', n) = Reporting(task, back, n) \ {k}
      /\ \A cmd \in {"delete", "confirm"}, n \in Spoken :
           /\ Underway(task', wire', tokens', cmd, n) \subseteq Underway(task, wire, tokens, cmd, n)
           /\ Cardinality(Waiting(ui', Tui!Enter(cmd, n)))
                <= Cardinality(Waiting(ui, Tui!Enter(cmd, n)))
  BY <1>1, <1>3, <1>4, <1>6, <1>7, TaskOverSession
<1>9. CASE ~(c.cmd = "confirm" /\ c.ok)
  <2>1. told' = told
    BY <1>3, <1>9
  <2> QED BY <1>3, <1>8, <2>1, PaidKept
<1>10. CASE c.cmd = "confirm" /\ c.ok
  <2>1. CommandsPaid' /\ SpokenOnly'
    <3>1. CommandsPaid'
      BY <1>3, <1>8, CommandsKept
    <3> QED BY <1>3, <3>1 DEF SpokenOnly
  <2>2. ReportsPaid'
    <3> SUFFICES ASSUME NEW n \in Names
                 PROVE  told'[n] + Cardinality(Reporting(task', back', n)) <= gone'[n]
      BY DEF ReportsPaid
    <3>1. CASE n = c.chan
      <4>1. k \in Reporting(task, back, n)
        BY <1>1, <1>3, <1>10, <3>1 DEF Reporting
      <4>2. Cardinality(Reporting(task', back', n)) + 1 <= Cardinality(Reporting(task, back, n))
        BY <1>8, <4>1, Accounts, CallsLess
      <4>3. Cardinality(Reporting(task', back', n)) \in Nat
        BY <1>8, Accounts, CallSets
      <4>4. told'[n] = told[n] + 1
        BY <1>3, <1>10, <3>1 DEF SessionTyped
      <4> QED BY <1>3, <4>2, <4>3, <4>4, Accounts DEF ReportsPaid
    <3>2. CASE n # c.chan
      <4>1. Cardinality(Reporting(task', back', n)) <= Cardinality(Reporting(task, back, n))
        BY <1>8, Accounts, CallsLess
      <4>2. Cardinality(Reporting(task', back', n)) \in Nat
        BY <1>8, Accounts, CallSets
      <4>3. told'[n] = told[n]
        BY <1>3, <1>10, <3>2 DEF SessionTyped
      <4> QED BY <1>3, <4>1, <4>2, <4>3, Accounts DEF ReportsPaid
    <3> QED BY <3>1, <3>2
  <2> QED BY <1>8, <2>1, <2>2
<1> QED BY <1>8, <1>9, <1>10

\* The reader hands an answer to the call it names, if that call still waits.
LEMMA RespondsSession == ASSUME SessionInv, Tui!ReaderResponds PROVE SessionInv'
<1> USE DEF SessionInv
<1>1. PICK r \in Answers : r = Head(back)
  <2>1. back # <<>> /\ back \in Seq(Answers)
    BY DEF Tui!ReaderResponds, SessionTyped
  <2> QED BY <2>1
<1>2. PICK k \in Tui!Calls : k = r.call /\ r.ok \in BOOLEAN
  BY DEF Answers
<1>3. PICK new : new = Tui!Task("answered", task[k].cmd, task[k].chan, task[k].token, r.ok)
  OBVIOUS
<1>4. /\ UNCHANGED <<link, ui, pend, wire, tokens, gone, typed, told>>
      /\ link # "quit" /\ back # <<>> /\ back' = Tail(back)
      /\ task' = [j \in Tui!Calls |-> IF j \in pending \cap {k} THEN new ELSE task[j]]
      /\ pending' = pending \ {k}
  <2>1. task' = [j \in Tui!Calls |->
                   IF j \in pending \cap {k}
                   THEN Tui!Task("answered", task[j].cmd, task[j].chan, task[j].token, r.ok)
                   ELSE task[j]]
    BY <1>1, <1>2 DEF Tui!ReaderResponds, Tui!Addressee
  <2>2. task' = [j \in Tui!Calls |-> IF j \in pending \cap {k} THEN new ELSE task[j]]
    BY <1>3, <2>1
  <2> QED BY <1>1, <1>2, <2>2
          DEF Tui!ReaderResponds, Tui!Addressee, Tui!Open, Tui!broker, Tui!entered
<1>5. /\ new \in Spawned /\ new.at = "answered" /\ new.cmd = task[k].cmd
      /\ new.chan = task[k].chan /\ new.ok = r.ok
  <2>1. task[k] \in Spawned
    BY DEF SessionTyped
  <2> QED BY <1>2, <1>3, <2>1 DEF Tui!Task, Spawned
<1>6. /\ task' \in [Tui!Calls -> Spawned]
      /\ \A j \in Tui!Calls : j # k => task'[j] = task[j]
      /\ task[k].at = "waiting" => task'[k] = new
      /\ task[k].at # "waiting" => task'[k] = task[k]
  BY <1>4, <1>5 DEF SessionTyped, PendingExact
<1>7. /\ back' \in Seq(Answers)
      /\ \A i \in DOMAIN back' : i + 1 \in DOMAIN back /\ back'[i] = back[i + 1]
      /\ 1 \in DOMAIN back /\ back[1] = r
  BY <1>1, <1>4 DEF SessionTyped
<1>8. SessionTyped'
  BY <1>4, <1>6, <1>7 DEF SessionTyped
<1>9. IdsFresh'
  <2>1. \A i \in DOMAIN wire : wire[i].call \in Tui!Calls
    BY DEF SessionTyped, Wired
  <2>2. \A j \in Tui!Calls : task'[j] = task[j] \/ task'[j].at = "answered"
    BY <1>5, <1>6
  <2>3. \A j \in Tui!Calls : OnBack(j)' => OnBack(j)
    BY <1>7 DEF OnBack
  <2> QED BY <1>4, <2>1, <2>2, <2>3 DEF IdsFresh, OnWire, Granted
<1>10. QuitEmpty' /\ PendingExact'
  BY <1>4, <1>5, <1>6 DEF QuitEmpty, PendingExact
<1>11. ASSUME NEW n \in Names PROVE Reporting(task', back', n) \subseteq Reporting(task, back, n)
  <2> SUFFICES ASSUME NEW j \in Tui!Calls, j \in Reporting(task', back', n)
               PROVE  j \in Reporting(task, back, n)
    BY DEF Reporting
  <2>1. CASE task'[j] = task[j]
    BY <1>7, <2>1 DEF Reporting
  <2>2. CASE task'[j] # task[j]
    <3>1. j = k /\ task[k].at = "waiting" /\ task'[k] = new
      BY <1>6, <2>2
    <3>2. new.cmd = "confirm" /\ new.chan = n /\ new.ok
      BY <1>5, <3>1 DEF Reporting
    <3> QED BY <1>2, <1>5, <1>7, <3>1, <3>2 DEF Reporting
  <2> QED BY <2>1, <2>2
<1>12. \A cmd \in {"delete", "confirm"}, n \in Spoken :
         /\ Underway(task', wire', tokens', cmd, n) \subseteq Underway(task, wire, tokens, cmd, n)
         /\ Cardinality(Waiting(ui', Tui!Enter(cmd, n))) <= Cardinality(Waiting(ui, Tui!Enter(cmd, n)))
  <2>1. \A j \in Tui!Calls : task'[j] = task[j] \/ task'[j].at = "answered"
    BY <1>5, <1>6
  <2>2. \A cmd \in {"delete", "confirm"}, n \in Spoken :
          Underway(task', wire', tokens', cmd, n) \subseteq Underway(task, wire, tokens, cmd, n)
    BY <1>4, <2>1 DEF Underway
  <2> QED BY <1>4, <2>2, Accounts
<1>13. CommandsPaid' /\ ReportsPaid' /\ SpokenOnly'
  BY <1>4, <1>8, <1>11, <1>12, PaidKept
<1> QED BY <1>8, <1>9, <1>10, <1>13

\* The reader ends with the answers it has not read.
LEMMA ReaderEndsSession == ASSUME SessionInv, Tui!ReaderEnds PROVE SessionInv'
<1> USE DEF SessionInv
<1>1. PICK e \in Event : e = [kind |-> "lost"]
  BY DEF Event
<1>2. /\ UNCHANGED <<pend, task, pending, wire, tokens, gone, typed, told>>
      /\ link # "quit" /\ link' # "quit" /\ back' = <<>> /\ ui' = Append(ui, e)
  BY <1>1 DEF Tui!ReaderEnds, Tui!Post, Tui!client, Tui!broker, Tui!entered
<1>3. /\ ui' \in Seq(Event)
      /\ \A cmd \in {"delete", "confirm"}, n \in Spoken :
           Cardinality(Waiting(ui', Tui!Enter(cmd, n))) <= Cardinality(Waiting(ui, Tui!Enter(cmd, n)))
  BY <1>1, <1>2, PostKeeps
<1>4. SessionTyped'
  <2>1. back' \in Seq(Answers)
    BY <1>2
  <2> QED BY <1>2, <1>3, <2>1 DEF SessionTyped
<1>5. IdsFresh'
  BY <1>2 DEF IdsFresh, OnWire, OnBack, Granted
<1>6. QuitEmpty' /\ PendingExact'
  BY <1>2 DEF QuitEmpty, PendingExact
<1>7. /\ \A n \in Names : Reporting(task', back', n) \subseteq Reporting(task, back, n)
      /\ \A cmd \in {"delete", "confirm"}, n \in Spoken :
           Underway(task', wire', tokens', cmd, n) \subseteq Underway(task, wire, tokens, cmd, n)
  BY <1>2 DEF Reporting, Underway
<1>8. CommandsPaid' /\ ReportsPaid' /\ SpokenOnly'
  BY <1>2, <1>3, <1>4, <1>7, PaidKept
<1> QED BY <1>4, <1>5, <1>6, <1>8

\* What is left of the Ui channel when its first event has been taken.
LEMMA UiTail ==
  ASSUME SessionTyped, ui # <<>>, ui' = Tail(ui)
  PROVE  /\ ui' \in Seq(Event)
         /\ \A cmd \in {"delete", "confirm"}, n \in Spoken :
              /\ Cardinality(Waiting(ui', Tui!Enter(cmd, n)))
                   <= Cardinality(Waiting(ui, Tui!Enter(cmd, n)))
              /\ Head(ui) = Entering(Tui!Enter(cmd, n)) =>
                   Cardinality(Waiting(ui', Tui!Enter(cmd, n))) + 1
                     <= Cardinality(Waiting(ui, Tui!Enter(cmd, n)))
<1>1. ui \in Seq(Event)
  BY DEF SessionTyped
<1>2. ui' \in Seq(Event)
  BY <1>1
<1>3. ASSUME NEW cmd \in {"delete", "confirm"}, NEW n \in Spoken
      PROVE  /\ Cardinality(Waiting(ui', Tui!Enter(cmd, n)))
                  <= Cardinality(Waiting(ui, Tui!Enter(cmd, n)))
             /\ Head(ui) = Entering(Tui!Enter(cmd, n)) =>
                  Cardinality(Waiting(ui', Tui!Enter(cmd, n))) + 1
                    <= Cardinality(Waiting(ui, Tui!Enter(cmd, n)))
  <2>1. Cardinality(Waiting(ui', Tui!Enter(cmd, n)))
          + (IF Head(ui) = Entering(Tui!Enter(cmd, n)) THEN 1 ELSE 0)
          <= Cardinality(Waiting(ui, Tui!Enter(cmd, n)))
    BY <1>1, WaitingTail
  <2>2. Cardinality(Waiting(ui', Tui!Enter(cmd, n))) \in Nat
    BY <1>2, WaitingSet
  <2> QED BY <2>1, <2>2, Accounts
<1> QED BY <1>2, <1>3

\* A command becomes a call: what it pays for moves from the Ui channel to the
\* new task.
LEMMA SpawnSession ==
  ASSUME SessionInv, ui # <<>>, ui' = Tail(ui), link # "quit",
         NEW c \in Tui!Command, Head(ui) = Entering(c), c.cmd \in Verbs,
         NEW tok \in Tui!Calls \cup {None}, Tui!Spawn(c.cmd, c.chan, tok),
         pend' \in [chan : Spoken, token : Tui!Calls] \cup {None},
         UNCHANGED <<link, pending, wire, back, tokens, gone, typed, told>>
  PROVE  SessionInv'
<1> USE DEF SessionInv
<1>1. PICK new : new = Tui!Task("spawned", c.cmd, c.chan, tok, FALSE)
  OBVIOUS
<1>2. PICK k \in Tui!Calls : task[k].at = "none" /\ task' = [task EXCEPT ![k] = new]
  BY <1>1 DEF Tui!Spawn, Tui!Unspawned
<1>3. new \in Spawned /\ new.at = "spawned" /\ new.cmd = c.cmd /\ new.chan = c.chan
  <2>1. c.chan \in Spoken \cup {None} /\ (c.cmd \in {"delete", "confirm"} => c.chan \in Spoken)
    BY DEF Tui!Command, Tui!Deletion
  <2> QED BY <1>1, <2>1 DEF Tui!Task, Spawned
<1>4. /\ task' \in [Tui!Calls -> Spawned] /\ task'[k] = new
      /\ \A j \in Tui!Calls : j # k => task'[j] = task[j]
  BY <1>2, <1>3 DEF SessionTyped
<1>5. SessionTyped'
  BY <1>4, UiTail DEF SessionTyped
<1>6. IdsFresh'
  <2>1. ~OnWire(k) /\ ~OnBack(k) /\ ~Granted(k)
    BY <1>2 DEF IdsFresh
  <2>2. \A i \in DOMAIN wire : wire[i].call \in Tui!Calls /\ wire[i].call # k
    BY <2>1 DEF SessionTyped, Wired, OnWire
  <2>3. ASSUME NEW j \in Tui!Calls, task'[j].at \in {"none", "spawned"}
        PROVE  ~OnWire(j)' /\ ~OnBack(j)' /\ ~Granted(j)'
    <3>1. ~OnWire(j) /\ ~OnBack(j) /\ ~Granted(j)
      BY <1>4, <2>1, <2>3 DEF IdsFresh
    <3> QED BY <3>1 DEF OnWire, OnBack, Granted
  <2> QED BY <1>4, <2>2, <2>3 DEF IdsFresh, Granted
<1>7. QuitEmpty' /\ PendingExact'
  BY <1>2, <1>3, <1>4 DEF QuitEmpty, PendingExact
<1>8. ReportsPaid' /\ SpokenOnly'
  <2>1. \A n \in Names : Reporting(task', back', n) \subseteq Reporting(task, back, n)
    BY <1>3, <1>4 DEF Reporting
  <2> QED BY <2>1, ReportsKept DEF SpokenOnly
<1>9. CommandsPaid'
  <2> SUFFICES ASSUME NEW cmd \in {"delete", "confirm"}, NEW n \in Spoken
               PROVE  gone'[n] + Cardinality(Underway(task', wire', tokens', cmd, n))
                        + Cardinality(Waiting(ui', Tui!Enter(cmd, n))) <= typed'[Tui!Enter(cmd, n)]
    BY DEF CommandsPaid, Tui!Enter
  <2>1. /\ Cardinality(Underway(task', wire', tokens', cmd, n)) \in Nat
        /\ Cardinality(Waiting(ui', Tui!Enter(cmd, n))) \in Nat
    <3>1. Underway(task', wire', tokens', cmd, n) \in SUBSET Tui!Calls
      BY DEF Underway
    <3> QED BY <1>5, <3>1, CallSets, WaitingSet DEF SessionTyped
  <2>2. /\ gone[n] + Cardinality(Underway(task, wire, tokens, cmd, n))
             + Cardinality(Waiting(ui, Tui!Enter(cmd, n))) <= typed[Tui!Enter(cmd, n)]
        /\ gone[n] \in Nat /\ typed[Tui!Enter(cmd, n)] \in Nat
        /\ Cardinality(Underway(task, wire, tokens, cmd, n)) \in Nat
        /\ Cardinality(Waiting(ui, Tui!Enter(cmd, n))) \in Nat
    BY Accounts DEF CommandsPaid
  <2>3. CASE c = Tui!Enter(cmd, n)
    <3>1. Underway(task', wire', tokens', cmd, n) \subseteq Underway(task, wire, tokens, cmd, n) \cup {k}
      BY <1>4 DEF Underway
    <3>2. Cardinality(Underway(task', wire', tokens', cmd, n))
            <= Cardinality(Underway(task, wire, tokens, cmd, n)) + 1
      BY <3>1, Accounts, CallsMore
    <3>3. Cardinality(Waiting(ui', Tui!Enter(cmd, n))) + 1 <= Cardinality(Waiting(ui, Tui!Enter(cmd, n)))
      BY <2>3, UiTail
    <3> QED BY <2>1, <2>2, <3>2, <3>3
  <2>4. CASE c # Tui!Enter(cmd, n)
    <3>1. ~(c.cmd = cmd /\ c.chan = n)
      BY <2>4 DEF Tui!Command, Tui!Deletion, Tui!Enter
    <3>2. Underway(task', wire', tokens', cmd, n) \subseteq Underway(task, wire, tokens, cmd, n)
      BY <1>3, <1>4, <3>1 DEF Underway
    <3>3. Cardinality(Underway(task', wire', tokens', cmd, n))
            <= Cardinality(Underway(task, wire, tokens, cmd, n))
      BY <3>2, Accounts, CallsLess
    <3>4. Cardinality(Waiting(ui', Tui!Enter(cmd, n))) <= Cardinality(Waiting(ui, Tui!Enter(cmd, n)))
      BY UiTail
    <3> QED BY <2>1, <2>2, <3>3, <3>4
  <2> QED BY <2>3, <2>4
<1> QED BY <1>5, <1>6, <1>7, <1>8, <1>9

\* The UI loop takes an event: a command is run, a prompt is kept.
LEMMA UiStepSession == ASSUME SessionInv, Tui!UiStep PROVE SessionInv'
<1> USE DEF SessionInv
<1>1. /\ ui # <<>> /\ ui' = Tail(ui) /\ link # "quit"
      /\ UNCHANGED <<link, pending, wire, back, tokens, gone, typed, told>>
      /\ Head(ui) # Entering(Tui!Enter("quit", None))
  BY DEF Tui!UiStep, Tui!Open, Tui!broker, Tui!entered, Entering
<1>2. PICK e \in Event : e = Head(ui)
  <2>1. ui \in Seq(Event)
    BY DEF SessionTyped
  <2> QED BY <1>1, <2>1
<1>3. CASE task' = task /\ pend' \in [chan : Spoken, token : Tui!Calls] \cup {None}
  <2>1. SessionTyped'
    BY <1>1, <1>3, UiTail DEF SessionTyped
  <2>2. IdsFresh' /\ QuitEmpty' /\ PendingExact'
    BY <1>1, <1>3 DEF IdsFresh, OnWire, OnBack, Granted, QuitEmpty, PendingExact
  <2>3. CommandsPaid' /\ ReportsPaid' /\ SpokenOnly'
    BY <1>1, <1>3, <2>1, UiTail, PaidKept
  <2> QED BY <2>1, <2>2, <2>3
<1>4. CASE e.kind = "enter"
  <2>1. PICK c \in Tui!Command : c = e.command /\ e = Entering(c)
    BY <1>4 DEF Event, Entering
  <2>2. Tui!RunCommand(c)
    BY <1>2, <1>4, <2>1 DEF Tui!UiStep
  <2>3. pend \in [chan : Spoken, token : Tui!Calls] \cup {None}
    BY DEF SessionTyped
  <2>4. CASE c.cmd = "local"
    BY <1>3, <2>2, <2>3, <2>4 DEF Tui!RunCommand
  <2>5. CASE c.cmd = "confirm"
    <3>1. Tui!Confirm(c.chan)
      BY <2>2, <2>5 DEF Tui!RunCommand
    <3>2. CASE pend # None /\ pend.chan = c.chan
      <4>1. Tui!Spawn(c.cmd, c.chan, pend.token) /\ pend' = None /\ pend.token \in Tui!Calls
        BY <2>3, <2>5, <3>1, <3>2 DEF Tui!Confirm
      <4> QED BY <1>1, <1>2, <2>1, <2>5, <4>1, SpawnSession DEF Verbs
    <3>3. CASE ~(pend # None /\ pend.chan = c.chan)
      BY <1>3, <3>1, <3>3 DEF Tui!Confirm
    <3> QED BY <3>2, <3>3
  <2>6. CASE c.cmd \notin {"local", "confirm"}
    <3>1. Tui!Spawn(c.cmd, c.chan, None) /\ pend' = pend
      BY <2>2, <2>6 DEF Tui!RunCommand
    <3>2. c.cmd \in Verbs
      BY <1>1, <1>2, <2>1, <2>6 DEF Tui!Command, Tui!Deletion, Tui!Enter, Verbs
    <3> QED BY <1>1, <1>2, <2>1, <2>3, <3>1, <3>2, SpawnSession
  <2> QED BY <2>4, <2>5, <2>6
<1>5. CASE e.kind # "enter"
  <2>1. CASE e.kind = "prompt"
    <3>1. task' = task /\ pend' = e.prompt
      BY <1>2, <2>1 DEF Tui!UiStep
    <3>2. e.prompt \in [chan : Spoken, token : Tui!Calls]
      BY <2>1 DEF Event
    <3> QED BY <1>3, <3>1, <3>2
  <2>2. CASE e.kind # "prompt"
    <3>1. task' = task /\ pend' = pend
      BY <1>2, <1>5, <2>2 DEF Tui!UiStep
    <3> QED BY <1>3, <3>1 DEF SessionTyped
  <2> QED BY <2>1, <2>2
<1> QED BY <1>4, <1>5

\* Whatever the broker answers, a request leaves the wire for good, and only its
\* own call hears of it.
LEMMA HandledSession ==
  ASSUME SessionInv, link \in {"up", "quit"}, wire # <<>>, wire' = Tail(wire),
         NEW r \in Wired, r = Head(wire), NEW ok \in BOOLEAN,
         back' = IF link = "up" THEN Append(back, [call |-> r.call, ok |-> ok]) ELSE back,
         tokens' \subseteq [token : Tui!Calls, id : Tui!Ids, name : Spoken],
         \A t \in tokens' : t \in tokens \/ (r.cmd = "delete" /\ t.token = r.call /\ t.name = r.chan),
         gone' \in [Names -> Nat],
         UNCHANGED <<link, ui, pend, task, pending, typed, told>>
  PROVE  /\ SessionTyped' /\ IdsFresh' /\ QuitEmpty' /\ PendingExact'
         /\ r.call \in Tui!Calls /\ ~OnWire(r.call)' /\ task[r.call].at # "spawned"
         /\ \A n \in Names :
              Reporting(task', back', n) \subseteq
                Reporting(task, back, n)
                  \cup (IF ok /\ r.cmd = "confirm" /\ r.chan = n THEN {r.call} ELSE {})
         /\ \A cmd \in {"delete", "confirm"}, n \in Spoken :
              Underway(task', wire', tokens', cmd, n) \subseteq Underway(task, wire, tokens, cmd, n)
<1> USE DEF SessionInv
<1>1. PICK k \in Tui!Calls : k = r.call
  BY DEF Wired
<1>2. PICK a \in Answers : a = [call |-> k, ok |-> ok]
  BY DEF Answers
<1>3. /\ wire' \in Seq(Wired) /\ 1 \in DOMAIN wire /\ wire[1] = r
      /\ \A i \in DOMAIN wire' : /\ i + 1 \in DOMAIN wire /\ i + 1 # 1
                                 /\ wire'[i] = wire[i + 1]
  <2>1. wire \in Seq(Wired)
    BY DEF SessionTyped
  <2> QED BY <2>1
<1>4. /\ back' \in Seq(Answers)
      /\ \A i \in DOMAIN back' : \/ i \in DOMAIN back /\ back'[i] = back[i]
                                 \/ link = "up" /\ back'[i] = a
  <2>1. back \in Seq(Answers)
    BY DEF SessionTyped
  <2>2. CASE link = "up"
    <3>1. back' = Append(back, a)
      BY <1>1, <1>2, <2>2
    <3> QED BY <2>1, <2>2, <3>1
  <2>3. CASE link # "up"
    BY <2>1, <2>3
  <2> QED BY <2>2, <2>3
<1>5. a.call = k /\ a.ok = ok
  BY <1>2
<1>6. SessionTyped'
  BY <1>3, <1>4 DEF SessionTyped
<1>7. link = "quit" \/ task[k].at \notin {"none", "spawned"}
  BY <1>1, <1>3 DEF IdsFresh, OnWire
<1>8. task[k].at # "spawned"
  BY <1>7 DEF QuitEmpty
<1>9. ~OnWire(k)'
  BY <1>1, <1>3 DEF OnWire, IdsFresh
<1>10. IdsFresh'
  <2>1. ASSUME NEW j \in Tui!Calls, link # "quit", task[j].at \in {"none", "spawned"}
        PROVE  ~OnWire(j)' /\ ~OnBack(j)' /\ ~Granted(j)'
    <3>1. j # k /\ ~OnWire(j) /\ ~OnBack(j) /\ ~Granted(j)
      BY <1>7, <2>1 DEF IdsFresh
    <3>2. ~OnWire(j)'
      BY <1>3, <3>1 DEF OnWire
    <3>3. ~OnBack(j)'
      BY <1>4, <1>5, <3>1 DEF OnBack
    <3>4. ~Granted(j)'
      BY <1>1, <3>1 DEF Granted
    <3> QED BY <3>2, <3>3, <3>4
  <2>2. \A i, j \in DOMAIN wire' : i # j => wire'[i].call # wire'[j].call
    <3>1. DOMAIN wire' = 1 .. Len(wire') /\ Len(wire') \in Nat
      BY <1>3
    <3>2. \A i, j \in DOMAIN wire' : i # j => i + 1 # j + 1
      BY <3>1
    <3> QED BY <1>3, <3>2 DEF IdsFresh
  <2>3. \A i \in DOMAIN wire' : \A t \in tokens' : t.token # wire'[i].call
    <3> SUFFICES ASSUME NEW i \in DOMAIN wire', NEW t \in tokens' PROVE t.token # wire'[i].call
      OBVIOUS
    <3>1. CASE t \in tokens
      BY <1>3, <3>1 DEF IdsFresh, Granted
    <3>2. CASE t.token = k
      BY <1>9, <3>2 DEF OnWire
    <3> QED BY <1>1, <3>1, <3>2
  <2>4. \A i \in DOMAIN wire' : task[wire'[i].call].at = "waiting" =>
          task[wire'[i].call].cmd = wire'[i].cmd /\ task[wire'[i].call].chan = wire'[i].chan
    BY <1>3 DEF IdsFresh
  <2> QED BY <2>1, <2>2, <2>3, <2>4 DEF IdsFresh, Granted
<1>11. QuitEmpty' /\ PendingExact'
  BY DEF QuitEmpty, PendingExact
<1>12. ASSUME NEW n \in Names
       PROVE  Reporting(task', back', n) \subseteq
                Reporting(task, back, n)
                  \cup (IF ok /\ r.cmd = "confirm" /\ r.chan = n THEN {r.call} ELSE {})
  <2> SUFFICES ASSUME NEW j \in Reporting(task', back', n), j \notin Reporting(task, back, n)
               PROVE  j = r.call /\ ok /\ r.cmd = "confirm" /\ r.chan = n
    OBVIOUS
  <2>1. j \in Tui!Calls /\ task[j].cmd = "confirm" /\ task[j].chan = n /\ task[j].at = "waiting"
    BY DEF Reporting
  <2>2. j = k /\ ok
    BY <1>4, <1>5 DEF Reporting
  <2>3. r.cmd = task[k].cmd /\ r.chan = task[k].chan
    BY <1>1, <1>3, <2>1, <2>2 DEF IdsFresh
  <2> QED BY <1>1, <2>1, <2>2, <2>3
<1>13. ASSUME NEW cmd \in {"delete", "confirm"}, NEW n \in Spoken
       PROVE  Underway(task', wire', tokens', cmd, n) \subseteq Underway(task, wire, tokens, cmd, n)
  <2> SUFFICES ASSUME NEW j \in Tui!Calls, j \in Underway(task', wire', tokens', cmd, n)
               PROVE  j \in Underway(task, wire, tokens, cmd, n)
    BY DEF Underway
  <2>1. CASE task'[j].at = "spawned" /\ task'[j].cmd = cmd /\ task'[j].chan = n
    BY <2>1 DEF Underway
  <2>2. CASE \E i \in DOMAIN wire' : wire'[i].call = j /\ wire'[i].cmd = cmd /\ wire'[i].chan = n
    BY <1>3, <2>2 DEF Underway
  <2>3. CASE cmd = "delete" /\ \E t \in tokens' : t.token = j /\ t.name = n
    BY <1>1, <1>3, <2>3 DEF Underway
  <2> QED BY <2>1, <2>2, <2>3 DEF Underway
<1> QED BY <1>1, <1>6, <1>8, <1>9, <1>10, <1>11, <1>12, <1>13

\* A deletion uses up the confirmation on the wire and the /delete behind its token.
LEMMA DeletedSession ==
  ASSUME SessionInv, link \in {"up", "quit"}, wire # <<>>, wire' = Tail(wire),
         NEW r \in Wired, r = Head(wire), r.cmd = "confirm",
         back' = IF link = "up" THEN Append(back, [call |-> r.call, ok |-> TRUE]) ELSE back,
         tokens' = {x \in tokens : x.token # r.token},
         NEW t \in tokens, t.token = r.token, t.name = r.chan,
         gone' = [gone EXCEPT ![t.name] = @ + 1],
         UNCHANGED <<link, ui, pend, task, pending, typed, told>>
  PROVE  SessionInv'
<1> USE DEF SessionInv
<1>1. PICK n \in Spoken : n = r.chan /\ n \in Names /\ t.token \in Tui!Calls
  BY NamedAssumption DEF Wired, SessionTyped
<1>2. /\ gone' \in [Names -> Nat] /\ gone'[n] = gone[n] + 1
      /\ \A m \in Names : m # n => gone'[m] = gone[m]
  BY <1>1 DEF SessionTyped
<1>3. tokens' \subseteq [token : Tui!Calls, id : Tui!Ids, name : Spoken]
  BY DEF SessionTyped
<1>4. /\ SessionTyped' /\ IdsFresh' /\ QuitEmpty' /\ PendingExact'
      /\ r.call \in Tui!Calls /\ ~OnWire(r.call)' /\ task[r.call].at # "spawned"
      /\ \A m \in Names :
           Reporting(task', back', m) \subseteq
             Reporting(task, back, m)
               \cup (IF TRUE /\ r.cmd = "confirm" /\ r.chan = m THEN {r.call} ELSE {})
      /\ \A cmd \in {"delete", "confirm"}, m \in Spoken :
           Underway(task', wire', tokens', cmd, m) \subseteq Underway(task, wire, tokens, cmd, m)
  BY <1>2, <1>3, HandledSession
<1>5. ReportsPaid'
  <2> SUFFICES ASSUME NEW m \in Names
               PROVE  told'[m] + Cardinality(Reporting(task', back', m)) <= gone'[m]
    BY DEF ReportsPaid
  <2>1. Cardinality(Reporting(task', back', m)) \in Nat
    <3>1. Reporting(task', back', m) \in SUBSET Tui!Calls
      BY DEF Reporting
    <3> QED BY <3>1, CallSets
  <2>2. /\ told[m] + Cardinality(Reporting(task, back, m)) <= gone[m]
        /\ told[m] \in Nat /\ gone[m] \in Nat /\ Cardinality(Reporting(task, back, m)) \in Nat
    BY Accounts DEF ReportsPaid
  <2>3. CASE m = n
    <3>1. Cardinality(Reporting(task', back', m)) <= Cardinality(Reporting(task, back, m)) + 1
      BY <1>4, Accounts, CallsMore
    <3> QED BY <1>2, <2>1, <2>2, <2>3, <3>1
  <2>4. CASE m # n
    <3>1. Reporting(task', back', m) \subseteq Reporting(task, back, m)
      BY <1>1, <1>4, <2>4
    <3>2. Cardinality(Reporting(task', back', m)) <= Cardinality(Reporting(task, back, m))
      BY <3>1, Accounts, CallsLess
    <3> QED BY <1>2, <2>1, <2>2, <2>4, <3>2
  <2> QED BY <2>3, <2>4
<1>6. CommandsPaid'
  <2> SUFFICES ASSUME NEW cmd \in {"delete", "confirm"}, NEW m \in Spoken
               PROVE  gone'[m] + Cardinality(Underway(task', wire', tokens', cmd, m))
                        + Cardinality(Waiting(ui', Tui!Enter(cmd, m))) <= typed'[Tui!Enter(cmd, m)]
    BY DEF CommandsPaid, Tui!Enter
  <2>1. Cardinality(Underway(task', wire', tokens', cmd, m)) \in Nat
    <3>1. Underway(task', wire', tokens', cmd, m) \in SUBSET Tui!Calls
      BY DEF Underway
    <3> QED BY <3>1, CallSets
  <2>2. /\ gone[m] + Cardinality(Underway(task, wire, tokens, cmd, m))
             + Cardinality(Waiting(ui, Tui!Enter(cmd, m))) <= typed[Tui!Enter(cmd, m)]
        /\ gone[m] \in Nat /\ typed[Tui!Enter(cmd, m)] \in Nat /\ m \in Names
        /\ Cardinality(Underway(task, wire, tokens, cmd, m)) \in Nat
        /\ Cardinality(Waiting(ui, Tui!Enter(cmd, m))) \in Nat
    BY Accounts DEF CommandsPaid
  <2>3. CASE m # n
    <3>1. Cardinality(Underway(task', wire', tokens', cmd, m))
            <= Cardinality(Underway(task, wire, tokens, cmd, m))
      BY <1>4, Accounts, CallsLess
    <3> QED BY <1>2, <2>1, <2>2, <2>3, <3>1
  <2>4. CASE m = n
    <3>1. PICK k : /\ k \in Underway(task, wire, tokens, cmd, n)
                   /\ k \notin Underway(task', wire', tokens', cmd, n)
      <4>1. 1 \in DOMAIN wire /\ wire[1] = r
        <5>1. wire \in Seq(Wired)
          BY DEF SessionTyped
        <5> QED BY <5>1
      <4>2. CASE cmd = "confirm"
        <5>1. r.call \in Underway(task, wire, tokens, cmd, n)
          BY <1>1, <1>4, <4>1, <4>2 DEF Underway
        <5>2. r.call \notin Underway(task', wire', tokens', cmd, n)
          BY <1>4, <4>2 DEF Underway, OnWire
        <5> QED BY <5>1, <5>2
      <4>3. CASE cmd = "delete"
        <5>1. t.token \in Underway(task, wire, tokens, cmd, n)
          BY <1>1, <4>3 DEF Underway
        <5>2. ~OnWire(t.token)
          BY DEF OnWire, IdsFresh, Granted
        <5>3. ~OnWire(t.token)'
          <6>1. \A i \in DOMAIN wire' : i + 1 \in DOMAIN wire /\ wire'[i] = wire[i + 1]
            BY <4>1 DEF SessionTyped
          <6> QED BY <5>2, <6>1 DEF OnWire
        <5>4. task[t.token].at # "spawned"
          BY <1>1 DEF IdsFresh, Granted, QuitEmpty
        <5>5. t.token \notin Underway(task', wire', tokens', cmd, n)
          BY <5>3, <5>4 DEF Underway, OnWire
        <5> QED BY <5>1, <5>5
      <4> QED BY <4>2, <4>3
    <3>2. Cardinality(Underway(task', wire', tokens', cmd, m)) + 1
            <= Cardinality(Underway(task, wire, tokens, cmd, m))
      BY <1>4, <2>4, <3>1, Accounts, CallsLess
    <3> QED BY <1>2, <2>1, <2>2, <2>4, <3>2
  <2> QED BY <2>3, <2>4
<1>7. SpokenOnly'
  BY <1>1, <1>2 DEF SpokenOnly
<1> QED BY <1>4, <1>5, <1>6, <1>7

\* The broker takes the next request of the session.
LEMMA HandlesSession == ASSUME SessionInv, Tui!BrokerHandles PROVE SessionInv'
<1> USE DEF SessionInv
<1>1. /\ link \in {"up", "quit"} /\ wire # <<>> /\ wire' = Tail(wire)
      /\ UNCHANGED <<link, ui, pend, task, pending, typed, told>>
  BY DEF Tui!BrokerHandles, Tui!client, Tui!entered
<1>2. PICK r \in Wired : r = Head(wire)
  <2>1. wire \in Seq(Wired)
    BY DEF SessionTyped
  <2> QED BY <1>1, <2>1
<1>3. ASSUME NEW ok \in BOOLEAN, Tui!Answer(r, ok), gone' = gone,
             tokens' \subseteq [token : Tui!Calls, id : Tui!Ids, name : Spoken],
             \A t \in tokens' : t \in tokens \/ (r.cmd = "delete" /\ t.token = r.call /\ t.name = r.chan),
             ok => r.cmd # "confirm"
      PROVE  SessionInv'
  <2>1. gone' \in [Names -> Nat]
    BY <1>3 DEF SessionTyped
  <2>2. /\ SessionTyped' /\ IdsFresh' /\ QuitEmpty' /\ PendingExact'
        /\ \A n \in Names :
             Reporting(task', back', n) \subseteq
               Reporting(task, back, n)
                 \cup (IF ok /\ r.cmd = "confirm" /\ r.chan = n THEN {r.call} ELSE {})
        /\ \A cmd \in {"delete", "confirm"}, n \in Spoken :
             Underway(task', wire', tokens', cmd, n) \subseteq Underway(task, wire, tokens, cmd, n)
    BY <1>1, <1>2, <1>3, <2>1, HandledSession DEF Tui!Answer
  <2>3. \A n \in Names : Reporting(task', back', n) \subseteq Reporting(task, back, n)
    BY <1>3, <2>2
  <2>4. \A cmd \in {"delete", "confirm"}, n \in Spoken :
          Cardinality(Waiting(ui', Tui!Enter(cmd, n))) <= Cardinality(Waiting(ui, Tui!Enter(cmd, n)))
    BY <1>1, Accounts
  <2>5. CommandsPaid' /\ ReportsPaid' /\ SpokenOnly'
    BY <1>1, <1>3, <2>2, <2>3, <2>4, PaidKept
  <2> QED BY <2>2, <2>5
<1>4. tokens \subseteq [token : Tui!Calls, id : Tui!Ids, name : Spoken]
  BY DEF SessionTyped
<1>5. CASE Tui!delete_request(r) /\ r.cmd = "delete"
  <2>1. r.call \in Tui!Calls /\ r.chan \in Spoken
    BY <1>5 DEF Wired
  <2>2. /\ tokens' \subseteq [token : Tui!Calls, id : Tui!Ids, name : Spoken]
        /\ \A t \in tokens' : t \in tokens \/ (t.token = r.call /\ t.name = r.chan)
    BY <1>4, <1>5, <2>1 DEF Tui!delete_request, Tui!Bears
  <2>3. PICK ok \in BOOLEAN : Tui!Answer(r, ok)
    BY <1>5 DEF Tui!delete_request
  <2> QED BY <1>3, <1>5, <2>2, <2>3 DEF Tui!delete_request
<1>6. CASE Tui!delete_confirm(r) /\ r.cmd = "confirm"
  <2>1. tokens' = {t \in tokens : t.token # r.token}
    BY <1>6 DEF Tui!delete_confirm
  <2>2. CASE Tui!Answer(r, FALSE) /\ gone' = gone
    BY <1>3, <1>4, <2>1, <2>2
  <2>3. CASE \E t \in Tui!Confirmed(r) : gone' = [gone EXCEPT ![t.name] = @ + 1] /\ Tui!Answer(r, TRUE)
    <3>1. PICK t \in tokens : /\ t.token = r.token /\ t.name = r.chan
                              /\ gone' = [gone EXCEPT ![t.name] = @ + 1]
                              /\ Tui!Answer(r, TRUE)
      BY <2>3 DEF Tui!Confirmed
    <3> QED BY <1>1, <1>2, <1>6, <2>1, <3>1, DeletedSession DEF Tui!Answer
  <2> QED BY <1>6, <2>2, <2>3 DEF Tui!delete_confirm
<1>7. CASE r.cmd \notin {"delete", "confirm"} /\ Tui!Answer(r, TRUE) /\ UNCHANGED <<tokens, gone>>
  BY <1>3, <1>4, <1>7
<1>8. CASE Tui!Answer(r, FALSE) /\ UNCHANGED <<tokens, gone>>
  BY <1>3, <1>4, <1>8
<1>9. Tui!Serves(r) \/ (Tui!Answer(r, FALSE) /\ UNCHANGED <<tokens, gone>>)
  BY <1>2 DEF Tui!BrokerHandles, Tui!broker
<1>10. CASE Tui!Serves(r)
  BY <1>5, <1>6, <1>7, <1>10 DEF Tui!Serves
<1> QED BY <1>8, <1>9, <1>10

\* Every step of the session keeps its invariant.
LEMMA SessionStep == SessionInv /\ [Tui!Next]_(Tui!vars) => SessionInv'
<1> SUFFICES ASSUME SessionInv, [Tui!Next]_(Tui!vars) PROVE SessionInv'  OBVIOUS
<1>1. CASE Tui!Opens \/ Tui!LinkDrops \/ \E i \in Tui!Ids, n \in Names : Tui!OtherRenames(i, n)
  BY <1>1, OutsideSession
<1>2. CASE Tui!UiStep
  BY <1>2, UiStepSession
<1>3. CASE Tui!Quits
  BY <1>3, QuitsSession
<1>4. CASE Tui!ReaderResponds
  BY <1>4, RespondsSession
<1>5. CASE Tui!ReaderEnds
  BY <1>5, ReaderEndsSession
<1>6. CASE Tui!BrokerHandles
  BY <1>6, HandlesSession
<1>7. ASSUME NEW k \in Tui!Calls, Tui!TaskStarts(k) \/ Tui!TaskEnds(k) \/ Tui!TaskTimesOut(k)
      PROVE  SessionInv'
  BY <1>7, TaskStartsSession, TaskEndsSession, TimesOutSession
<1>8. ASSUME NEW c \in Tui!Command, Tui!Types(c) PROVE SessionInv'
  BY <1>8, TypesSession
<1>9. CASE UNCHANGED Tui!vars
  <2>1. UNCHANGED <<link, ui, pend, task, pending, wire, back, tokens, gone, typed, told>>
    BY <1>9 DEF Tui!vars
  <2>2. SessionTyped' /\ IdsFresh' /\ QuitEmpty' /\ PendingExact'
    BY <2>1 DEF SessionInv, SessionTyped, IdsFresh, OnWire, OnBack, Granted, QuitEmpty, PendingExact
  <2>3. CommandsPaid' /\ ReportsPaid' /\ SpokenOnly'
    BY <2>1 DEF SessionInv, CommandsPaid, ReportsPaid, SpokenOnly, Tui!Enter
  <2> QED BY <2>2, <2>3 DEF SessionInv
<1> QED BY <1>1, <1>2, <1>3, <1>4, <1>5, <1>6, <1>7, <1>8, <1>9
        DEF Tui!Next, Tui!Step, Tui!Environment

\* What the program does to its session is a step of the session.
LEMMA SessionSteps == [CliNext]_allVars => [Tui!Next]_(Tui!vars)
<1> SUFFICES ASSUME [CliNext]_allVars PROVE [Tui!Next]_(Tui!vars)  OBVIOUS
<1>1. UNCHANGED session => UNCHANGED Tui!vars
  BY DEF session, Tui!vars
<1>2. ASSUME NEW c \in Clis, Starts(c) PROVE [Tui!Next]_(Tui!vars)
  BY <1>1, <1>2 DEF Starts, Tui!Next
<1>3. ASSUME NEW c \in Clis, Runs(c) \/ Quits(c) PROVE [Tui!Next]_(Tui!vars)
  BY <1>1, <1>3 DEF Runs, Quits
<1>4. ASSUME NEW c \in Clis, Dies(c) PROVE [Tui!Next]_(Tui!vars)
  BY <1>1, <1>4 DEF Dies, Cuts, Tui!Next
<1>5. ASSUME NEW c \in Clis, DaemonStops(c) PROVE [Tui!Next]_(Tui!vars)
  BY <1>5 DEF DaemonStops, Tui!Next
<1>6. CASE Session
  BY <1>6 DEF Session, Tui!Next
<1>7. CASE Occupies \/ UNCHANGED allVars
  BY <1>1, <1>7 DEF Occupies, allVars
<1> QED BY <1>2, <1>3, <1>4, <1>5, <1>6, <1>7 DEF CliNext

\* The terminal session inside `workplace cli` behaves as Tui says, whatever the
\* daemons around it do.
THEOREM CliHostsSession == CliSpec => Tui!Init /\ [][Tui!Next]_(Tui!vars)
<1>1. CliInit => Tui!Init
  BY DEF CliInit
<1> QED BY <1>1, SessionSteps, PTL DEF CliSpec

\* The strengthened invariant of the session holds always.
THEOREM SessionInvariant == CliSpec => []SessionInv
BY InitSession, SessionStep, CliHostsSession, PTL

\* CallsExact for every number of commands and channels (tui.rs 46-73, 154-166):
\* the pending map holds the calls that wait and no other, and no deletion is
\* reported that did not happen.
THEOREM SessionCallsExact == CliSpec => []CallsExact
<1>1. SessionInv => CallsExact
  <2> SUFFICES ASSUME SessionInv PROVE CallsExact  OBVIOUS
  <2>1. \A n \in Names : told[n] <= gone[n]
    BY Accounts DEF SessionInv, ReportsPaid
  <2> QED BY <2>1 DEF SessionInv, PendingExact, CallsExact, Tui!CallsExact
<1> QED BY <1>1, SessionInvariant, PTL

\* DeleteIntended for every number of commands, channels and renames (tui.rs
\* 675-709, rpc.rs 664-728): as many channels of a name go as the operator has
\* entered /delete and /confirm for it, at most, and none under a name that the
\* operator does not use.
THEOREM SessionDeleteIntended == CliSpec => []DeleteIntended
<1>1. SessionInv => DeleteIntended
  <2> SUFFICES ASSUME SessionInv, NEW n \in Names, gone[n] > 0
               PROVE  /\ n \in Spoken
                      /\ \A cmd \in {"delete", "confirm"} : gone[n] <= typed[Tui!Enter(cmd, n)]
    BY DEF DeleteIntended, Tui!DeleteIntended
  <2>1. n \in Spoken
    BY DEF SessionInv, SpokenOnly
  <2> QED BY <2>1, Accounts DEF SessionInv, CommandsPaid
<1> QED BY <1>1, SessionInvariant, PTL

-----------------------------------------------------------------------------
(* The start around the session: the operator may shut the daemon down *)

\* A daemon that is shut down leaves the file as it is.
LEMMA StopsInv ==
  ASSUME Inv, NEW d \in Clis, DaemonStops(d)
  PROVE  Inv'
<1>1. TypeOK'
  BY DEF DaemonStops, Daemon, Inv, TypeOK, DaemonAt, Gone
<1>2. WriterAlone' /\ HoldersAgree'
  BY DEF DaemonStops, Daemon, Inv, TypeOK, WriterAlone, HoldersAgree, Holding
<1> QED BY <1>1, <1>2 DEF Inv

\* What the program does to its start is a step of Startup, but for a shutdown.
LEMMA StartSteps == [CliNext]_allVars => [Next]_vars \/ \E d \in Clis : DaemonStops(d)
<1> SUFFICES ASSUME [CliNext]_allVars PROVE [Next]_vars \/ \E d \in Clis : DaemonStops(d)
  OBVIOUS
<1>1. ASSUME NEW c \in Clis, Starts(c) \/ Runs(c) \/ Quits(c) \/ Dies(c) PROVE Next
  BY <1>1 DEF Starts, Runs, Quits, Dies, Next
<1>2. CASE Session
  BY <1>2 DEF Session
<1>3. CASE Occupies
  BY <1>3 DEF Occupies, Next
<1>4. CASE UNCHANGED allVars
  BY <1>4 DEF allVars
<1> QED BY <1>1, <1>2, <1>3, <1>4 DEF CliNext

\* TokenAgrees also where the operator's session shuts daemons down.
THEOREM CliTokensAgree == CliSpec => []TokenAgrees
<1>1. CliInit => Inv
  BY InitInv DEF CliInit
<1>2. Inv /\ [CliNext]_allVars => Inv'
  BY StartSteps, StepInv, StopsInv
<1>3. Inv => TokenAgrees
  BY DEF Inv, HoldersAgree, Holding, TokenAgrees
<1> QED BY <1>1, <1>2, <1>3, PTL DEF CliSpec

\* Commands are entered only where no other cli starts, and a session is open
\* only when its cli is up.
Alone == \A c \in Clis \ {Operator} : cli[c] = "off"
Silent ==
  /\ left = 0 /\ ~stopping /\ wire = <<>>
  /\ \A i \in DOMAIN ui : ui[i].kind # "enter"
  /\ \A k \in Tui!Calls : task[k].at = "none"
Apart ==
  /\ Alone \/ Silent
  /\ link = "closed" => ~stopping /\ wire = <<>>
  /\ link # "closed" => cli[Operator] \in {"up", "quit"}

\* A session in which nothing can be entered stays silent.
LEMMA SilentStep ==
  ASSUME SessionInv, Silent, [Tui!Next]_(Tui!vars)
  PROVE  Silent'
<1> USE DEF Silent
<1>1. pending = {}
  BY DEF SessionInv, PendingExact
<1>2. \A c \in Tui!Command : ~Tui!Types(c)
  BY DEF Tui!Types, Tui!Weight
<1>3. ui \in Seq(Event)
  BY DEF SessionInv, SessionTyped
<1>4. CASE Tui!UiStep
  <2>1. ui # <<>> /\ ui' = Tail(ui) /\ UNCHANGED <<left, stopping, wire>>
    BY <1>4 DEF Tui!UiStep, Tui!broker, Tui!entered
  <2>2. Head(ui).kind # "enter" /\ \A i \in DOMAIN ui' : i + 1 \in DOMAIN ui /\ ui'[i] = ui[i + 1]
    BY <1>3, <2>1
  <2>3. task' = task
    BY <1>4, <2>2 DEF Tui!UiStep
  <2> QED BY <2>1, <2>2, <2>3
<1>5. ~Tui!Quits
  <2>1. ui # <<>> => Head(ui).kind # "enter"
    BY <1>3
  <2> QED BY <2>1 DEF Tui!Quits
<1>6. CASE Tui!ReaderResponds
  <2>1. task' = [k \in Tui!Calls |-> task[k]]
    BY <1>1, <1>6 DEF Tui!ReaderResponds, Tui!Addressee
  <2> QED BY <1>6, <2>1 DEF Tui!ReaderResponds, Tui!broker, Tui!entered
<1>7. CASE Tui!ReaderEnds
  <2>1. PICK e : e \in Event /\ e = [kind |-> "lost"] /\ e.kind # "enter"
    <3>1. [kind |-> "lost"] \in Event /\ [kind |-> "lost"].kind # "enter"
      BY DEF Event
    <3> QED BY <3>1
  <2>2. ui' = Append(ui, e) /\ UNCHANGED <<left, stopping, wire, task>>
    BY <1>7, <2>1 DEF Tui!ReaderEnds, Tui!Post, Tui!client, Tui!broker, Tui!entered
  <2>3. \A i \in DOMAIN ui' : (i \in DOMAIN ui /\ ui'[i] = ui[i]) \/ ui'[i] = e
    BY <1>3, <2>2
  <2> QED BY <2>1, <2>2, <2>3
<1>8. ~Tui!BrokerHandles
  BY DEF Tui!BrokerHandles
<1>9. \A k \in Tui!Calls : ~Tui!TaskStarts(k) /\ ~Tui!TaskEnds(k) /\ ~Tui!TaskTimesOut(k)
  BY DEF Tui!TaskStarts, Tui!TaskEnds, Tui!TaskTimesOut
<1>10. CASE Tui!Opens \/ Tui!LinkDrops \/ \E i \in Tui!Ids, n \in Names : Tui!OtherRenames(i, n)
  BY <1>10 DEF Tui!Opens, Tui!LinkDrops, Tui!OtherRenames, Tui!client, Tui!broker, Tui!entered
<1>11. CASE UNCHANGED Tui!vars
  BY <1>11 DEF Tui!vars
<1> QED BY <1>2, <1>4, <1>5, <1>6, <1>7, <1>8, <1>9, <1>10, <1>11
        DEF Tui!Next, Tui!Step, Tui!Environment

\* Before it opens, a session does nothing.
LEMMA ClosedStep ==
  ASSUME link = "closed", ~stopping, wire = <<>>, [Tui!Next]_(Tui!vars)
  PROVE  /\ link' = "closed" => ~stopping' /\ wire' = <<>>
         /\ link' = "closed" \/ Tui!Opens
<1>1. ~Tui!Open
  BY DEF Tui!Open
<1>2. ~Tui!Step
  BY <1>1 DEF Tui!Step, Tui!UiStep, Tui!Quits, Tui!ReaderResponds, Tui!ReaderEnds,
              Tui!BrokerHandles, Tui!TaskStarts, Tui!TaskEnds, Tui!TaskTimesOut
<1>3. ~Tui!Environment
  BY <1>1 DEF Tui!Environment, Tui!Types, Tui!OtherRenames
<1>4. CASE Tui!Opens
  BY <1>4 DEF Tui!Opens
<1>5. CASE Tui!LinkDrops
  BY <1>5 DEF Tui!LinkDrops
<1>6. CASE UNCHANGED Tui!vars
  BY <1>6 DEF Tui!vars
<1> QED BY <1>2, <1>3, <1>4, <1>5, <1>6 DEF Tui!Next

\* A cli that has not begun does not begin, and one that is up stays up or quits.
LEMMA CliStays ==
  ASSUME Inv, [CliNext]_allVars, NEW c \in Clis
  PROVE  /\ cli[c] = "off" => cli'[c] = "off"
         /\ cli[c] \in {"up", "quit"} => cli'[c] \in {"up", "quit"}
<1> USE DEF Inv, TypeOK
<1>1. ASSUME NEW d \in Clis, CliStep(d)
      PROVE  cli[d] \notin {"off", "up", "quit"} /\ \E to : cli' = [cli EXCEPT ![d] = to]
  BY <1>1 DEF CliStep, CliConnects, CliFinds, CliChecks, CliReads, CliDials, Cli
<1>2. ASSUME NEW d \in Clis, CliGivesUp(d)
      PROVE  cli[d] \notin {"off", "up", "quit"} /\ \E to : cli' = [cli EXCEPT ![d] = to]
  BY <1>2 DEF CliGivesUp, Cli
<1>3. ASSUME NEW d \in Clis, DaemonStep(d) \/ DaemonDies(d) \/ DaemonStops(d)
      PROVE  cli' = cli
  BY <1>3 DEF DaemonStep, DaemonReads, DaemonCreates, DaemonWrites, DaemonOpens, DaemonBinds,
              DaemonDies, DaemonStops
<1>4. CASE ForeignListens \/ UNCHANGED vars
  BY <1>4 DEF ForeignListens, vars
<1>5. \/ \E d \in Clis : \/ CliStep(d) \/ CliGivesUp(d) \/ CliQuits(d)
                         \/ DaemonStep(d) \/ DaemonDies(d) \/ DaemonStops(d)
      \/ ForeignListens \/ UNCHANGED vars
  BY StartSteps DEF Next
<1>6. ASSUME NEW d \in Clis, CliQuits(d)
      PROVE  cli[d] = "up" /\ cli' = [cli EXCEPT ![d] = "quit"]
  BY <1>6 DEF CliQuits, Cli
<1> QED BY <1>1, <1>2, <1>3, <1>4, <1>5, <1>6

\* The session opens with the last step of the operator's start.
LEMMA OpensUp ==
  ASSUME [CliNext]_allVars, Tui!Opens
  PROVE  cli'[Operator] = "up"
<1>1. link = "closed" /\ link' = "up"
  BY DEF Tui!Opens
<1>2. ~Tui!LinkDrops /\ ~UNCHANGED session
  BY <1>1 DEF Tui!LinkDrops, session
<1>3. ~((Tui!Step \/ Tui!Environment) /\ UNCHANGED vars)
  BY <1>1 DEF Tui!Step, Tui!Environment, Tui!UiStep, Tui!Quits, Tui!ReaderResponds, Tui!ReaderEnds,
              Tui!BrokerHandles, Tui!TaskStarts, Tui!TaskEnds, Tui!TaskTimesOut, Tui!Types,
              Tui!OtherRenames, Tui!Open
<1> QED BY <1>2, <1>3 DEF CliNext, Starts, Runs, Quits, Dies, Cuts, DaemonStops, Session, Occupies, allVars

\* The bound on who enters commands holds throughout.
LEMMA ApartStep == Inv /\ SessionInv /\ Apart /\ [CliNext]_allVars => Apart'
<1> SUFFICES ASSUME Inv, SessionInv, Apart, [CliNext]_allVars PROVE Apart'
  OBVIOUS
<1>1. [Tui!Next]_(Tui!vars)
  BY SessionSteps
<1>2. Alone' \/ Silent'
  <2>1. Alone => Alone'
    BY CliStays DEF Alone
  <2> QED BY <1>1, <2>1, SilentStep DEF Apart
<1>3. link' = "closed" => link = "closed"
  BY <1>1 DEF Tui!Next, Tui!Step, Tui!Environment, Tui!UiStep, Tui!Quits, Tui!ReaderResponds,
              Tui!ReaderEnds, Tui!BrokerHandles, Tui!TaskStarts, Tui!TaskEnds, Tui!TaskTimesOut,
              Tui!Types, Tui!OtherRenames, Tui!Open, Tui!LinkDrops, Tui!Opens, Tui!vars
<1>4. link' = "closed" => ~stopping' /\ wire' = <<>>
  BY <1>1, <1>3, ClosedStep DEF Apart
<1>5. link' # "closed" => cli'[Operator] \in {"up", "quit"}
  <2>1. CASE link = "closed"
    BY <1>1, <2>1, ClosedStep, OpensUp DEF Apart
  <2>2. CASE link # "closed"
    BY <2>2, CliStays, OperatorAssumption DEF Apart
  <2> QED BY <2>1, <2>2
<1> QED BY <1>2, <1>4, <1>5 DEF Apart

\* RaceHarmless also where the operator shuts the daemon down: no cli that
\* starts meets a daemon that stops.
THEOREM CliRacesAreHarmless == CliSpec => []RaceHarmless
<1>1. CliInit => Inv /\ SessionInv /\ Apart /\ Unharmed /\ Admitted
  <2> SUFFICES ASSUME CliInit PROVE Inv /\ SessionInv /\ Apart /\ Unharmed /\ Admitted  OBVIOUS
  <2>1. left = 0 \/ left > 0
    BY BoundsAssumption DEF CliInit, Tui!Init
  <2>2. \A k \in Tui!Calls : task[k].at = "none"
    BY DEF CliInit, Tui!Init, Tui!Idle, Tui!Task
  <2>3. Apart
    BY <2>1, <2>2 DEF CliInit, Tui!Init, Apart, Alone, Silent
  <2> QED BY <2>3, InitInv, InitSession, InitUnharmed, InitAdmitted DEF CliInit
<1>2. Inv /\ [CliNext]_allVars => Inv'
  BY StartSteps, StepInv, StopsInv
<1>3. SessionInv /\ [CliNext]_allVars => SessionInv'
  BY SessionSteps, SessionStep
<1>4. Inv /\ Apart /\ Unharmed /\ [CliNext]_allVars => Unharmed'
  <2> SUFFICES ASSUME Inv, Apart, Unharmed, [CliNext]_allVars PROVE Unharmed'  OBVIOUS
  <2>1. CASE [Next]_vars
    BY <2>1, UnharmedStep
  <2>2. ASSUME NEW d \in Clis, DaemonStops(d) PROVE Unharmed'
    <3>1. cli[Operator] \in {"up", "quit"} /\ \A c \in Clis \ {Operator} : cli[c] = "off"
      BY <2>2 DEF DaemonStops, Apart, Silent, Alone
    <3>2. listener' = None /\ cli' = cli
      BY <2>2 DEF DaemonStops
    <3> QED BY <3>1, <3>2 DEF Unharmed, Late
  <2> QED BY <2>1, <2>2, StartSteps
<1>5. Inv /\ Admitted /\ [CliNext]_allVars => Admitted'
  <2> SUFFICES ASSUME Inv, Admitted, [CliNext]_allVars PROVE Admitted'  OBVIOUS
  <2>1. ASSUME NEW d \in Clis, DaemonStops(d) PROVE Admitted'
    BY <2>1, AdmittedSame DEF DaemonStops
  <2> QED BY <2>1, AdmittedStep, StartSteps
<1>6. Inv /\ Unharmed /\ Admitted => RaceHarmless
  BY DEF Inv, TypeOK, Unharmed, Admitted, RaceHarmless
<1> QED BY <1>1, <1>2, <1>3, <1>4, <1>5, <1>6, ApartStep, PTL DEF CliSpec
=============================================================================
