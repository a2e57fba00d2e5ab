-------------------------- MODULE SupervisorProofs --------------------------
(***************************************************************************)
(* Safety of the supervision loop for every Debounce, every backoff range  *)
(* and any number of restarts and failed waits.  The properties follow     *)
(* from an invariant that ties what the loop believes to what it has done: *)
(* the processes alive are the child it remembers and those it has let go  *)
(* of, and the absent probes it counts are all recent.                     *)
(***************************************************************************)
EXTENDS Supervisor, TLAPS

\* Besides the child the loop remembers only processes it has let go of are
\* alive, and the loop is about to start one only if it remembers none.
ChildInv ==
  /\ Alive => live >= 1 /\ live =< letgo + 1
  /\ ~Alive => live =< letgo
  /\ pc = "spawn" => child = "none"

\* Every absent probe counted is one since the last sign of life or attempt.
CountInv ==
  /\ absent =< quiet
  /\ pc = "spawn" => absent >= Debounce

\* The flags the loop keeps about the endpoint are Booleans.
FlagsOK ==
  /\ verified \in BOOLEAN /\ healthy \in BOOLEAN
  /\ stable \in BOOLEAN /\ due \in BOOLEAN /\ cut \in BOOLEAN

\* Types of everything but the flags.
PlainOK ==
  /\ pc \in {"probe", "verify", "recheck", "spawn", "poll", "backoff"}
  /\ child \in {"none", "starting", "serving", "exited"}
  /\ server \in {"nobody", "child", "orphan"} \cup Others
  /\ absent \in 0..Debounce
  /\ level \in 0..MaxLevel
  /\ live \in Nat
  /\ letgo \in Nat
  /\ quiet \in 0..Debounce
  /\ faults \in 0..MaxFaults

\* The inductive invariant of the supervision loop.
SupervisorInv == FlagsOK /\ PlainOK /\ ChildInv /\ CountInv

\* Counting up to a top stays below the top, and does not change the order.
LEMMA UpBounded ==
  ASSUME NEW top \in Nat, NEW n \in 0..top
  PROVE  Up(n, top) \in 0..top /\ Up(n, top) >= n
BY DEF Up

\* Up keeps the order of two counters with the same top.
LEMMA UpMonotone ==
  ASSUME NEW top \in Nat, NEW n \in 0..top, NEW m \in 0..top, n =< m
  PROVE  Up(n, top) =< Up(m, top)
BY DEF Up

\* A loop that has just been started has the invariant.
LEMMA SupervisorInit == Init => SupervisorInv
<1> SUFFICES ASSUME Init PROVE SupervisorInv
    OBVIOUS
<1>1. FlagsOK
      BY Zenon DEF Init, FlagsOK
<1>2. PlainOK /\ ChildInv /\ CountInv
      BY BoundsAssumption DEF Init, PlainOK, ChildInv, CountInv, Alive
<1> QED BY <1>1, <1>2 DEF SupervisorInv

\* The flags stay Booleans: every step keeps them or sets them to a constant.
LEMMA FlagsStep == FlagsOK /\ [Next]_vars => FlagsOK'
<1> SUFFICES ASSUME FlagsOK, [Next]_vars PROVE FlagsOK'
    OBVIOUS
<1> USE DEF FlagsOK
<1>1. CASE ProbeReady
      BY <1>1, Zenon DEF ProbeReady, world, belief
<1>2. CASE ProbeOccupied
      BY <1>2, Zenon DEF ProbeOccupied, world, Lost, Unhealthy
<1>3. CASE ProbeAbsent
      BY <1>3, Zenon DEF ProbeAbsent, world, Lost, Unhealthy
<1>4. CASE SpawnOk
      BY <1>4, Zenon DEF SpawnOk, belief
<1>5. CASE SpawnFails
      BY <1>5, Zenon DEF SpawnFails, world, belief
<1>6. CASE PollTimer
      BY <1>6, Zenon DEF PollTimer, world, belief
<1>7. CASE ChildSeen
      BY <1>7, Zenon DEF ChildSeen, ChildOver, Unhealthy
<1>8. CASE BackoffEnds
      BY <1>8, Zenon DEF BackoffEnds, world, belief
<1>9. CASE VerifyAuth
      BY <1>9, Zenon DEF VerifyAuth, world, belief
<1>10. CASE VerifyOk
      BY <1>10, Zenon DEF VerifyOk, world
<1>11. CASE VerifyFails
      BY <1>11, Zenon DEF VerifyFails, world, Unhealthy
<1>12. CASE WaitFails
      BY <1>12, Zenon DEF WaitFails, ChildOver, LetGo, Unhealthy
<1>13. CASE VerifyDue
      BY <1>13, Zenon DEF VerifyDue, world
<1>14. CASE StableUptime
      BY <1>14, Zenon DEF StableUptime, world
<1>15. CASE ChildListens
      BY <1>15, Zenon DEF ChildListens, belief
<1>16. CASE ChildExits
      BY <1>16, Zenon DEF ChildExits, belief, Vacate
<1>17. CASE OrphanListens
      BY <1>17, Zenon DEF OrphanListens, belief
<1>18. CASE OrphanExits
      BY <1>18, Zenon DEF OrphanExits, belief, Vacate
<1>19. CASE OtherListens
      BY <1>19, Zenon DEF OtherListens, belief
<1>20. CASE OtherLeaves
      BY <1>20, Zenon DEF OtherLeaves, belief, Vacate
<1>21. CASE DaemonRestarts
      BY <1>21, Zenon DEF DaemonRestarts, LetGo
<1>22. CASE UNCHANGED vars
      BY <1>22, Zenon DEF vars, world, belief
<1> QED
    BY <1>1, <1>2, <1>3, <1>4, <1>5, <1>6, <1>7, <1>8, <1>9, <1>10, <1>11, <1>12, <1>13, <1>14, <1>15, <1>16, <1>17, <1>18, <1>19, <1>20, <1>21, <1>22
    DEF Next, Unblocked, Probe, Verify, Timers, Endpoint

\* Every probe, connection, spawn and timer, and everything that happens at the
\* endpoint, keeps the invariant.
LEMMA SupervisorStep == SupervisorInv /\ [Next]_vars => SupervisorInv'
<1> SUFFICES ASSUME SupervisorInv, [Next]_vars PROVE SupervisorInv'
    OBVIOUS
<1>a. FlagsOK'
      BY FlagsStep DEF SupervisorInv
<1>b. SUFFICES PlainOK' /\ ChildInv' /\ CountInv'
      BY <1>a DEF SupervisorInv
<1> USE BoundsAssumption
    DEF SupervisorInv, PlainOK, ChildInv, CountInv, Alive
<1>1. CASE ProbeReady
      BY <1>1 DEF ProbeReady, belief
<1>2. CASE ProbeOccupied
      BY <1>2 DEF ProbeOccupied, world
<1>3. CASE ProbeAbsent
  <2>1. /\ absent' = Up(absent, Debounce) /\ quiet' = Up(quiet, Debounce)
        /\ absent' \in 0..Debounce /\ quiet' \in 0..Debounce
        /\ absent' =< quiet'
        BY <1>3, UpBounded, UpMonotone DEF ProbeAbsent
  <2> QED BY <1>3, <2>1 DEF ProbeAbsent, world
<1>4. CASE SpawnOk
      BY <1>4 DEF SpawnOk
<1>5. CASE SpawnFails
  <2>1. level' \in 0..MaxLevel
        BY <1>5, UpBounded DEF SpawnFails
  <2> QED BY <1>5, <2>1 DEF SpawnFails, world
<1>6. CASE PollTimer
      BY <1>6 DEF PollTimer, world, counts
<1>7. CASE ChildSeen
  <2>1. level' \in 0..MaxLevel
        BY <1>7, UpBounded DEF ChildSeen, ChildOver
  <2> QED BY <1>7, <2>1 DEF ChildSeen, ChildOver
<1>8. CASE BackoffEnds
      BY <1>8 DEF BackoffEnds, world, counts
<1>9. CASE VerifyAuth
      BY <1>9 DEF VerifyAuth, world, counts
<1>10. CASE VerifyOk
      BY <1>10 DEF VerifyOk, world, counts
<1>11. CASE VerifyFails
      BY <1>11 DEF VerifyFails, world, counts
<1>12. CASE WaitFails
  <2>1. level' \in 0..MaxLevel
        BY <1>12, UpBounded DEF WaitFails, ChildOver
  <2> QED BY <1>12, <2>1 DEF WaitFails, ChildOver, LetGo
<1>13. CASE VerifyDue
      BY <1>13 DEF VerifyDue, world, counts
<1>14. CASE StableUptime
      BY <1>14 DEF StableUptime, world, counts
<1>15. CASE ChildListens
      BY <1>15 DEF ChildListens, counts
<1>16. CASE ChildExits
      BY <1>16 DEF ChildExits, counts, Vacate
<1>17. CASE OrphanListens
      BY <1>17 DEF OrphanListens, counts, Orphans
<1>18. CASE OrphanExits
      BY <1>18 DEF OrphanExits, counts, Vacate, Orphans
<1>19. CASE OtherListens
      BY <1>19 DEF OtherListens, counts, Others
<1>20. CASE OtherLeaves
      BY <1>20 DEF OtherLeaves, counts, Vacate, Others
<1>21. CASE DaemonRestarts
      BY <1>21 DEF DaemonRestarts, LetGo
<1>22. CASE UNCHANGED vars
      BY <1>22 DEF vars, world, counts
<1> QED
    BY <1>1, <1>2, <1>3, <1>4, <1>5, <1>6, <1>7, <1>8, <1>9, <1>10, <1>11, <1>12, <1>13, <1>14, <1>15, <1>16, <1>17, <1>18, <1>19, <1>20, <1>21, <1>22
    DEF Next, Unblocked, Probe, Verify, Timers, Endpoint

\* The supervision loop of codex_supervisor.rs always has the invariant.
THEOREM SupervisorCorrect == Spec => []SupervisorInv
BY SupervisorInit, SupervisorStep, PTL DEF Spec

\* The backoff stays below backoff_max and every variable keeps its type.
THEOREM SupervisorTypes == Spec => []TypeOK
<1>1. SupervisorInv => TypeOK
      BY DEF SupervisorInv, FlagsOK, PlainOK, TypeOK
<1> QED BY <1>1, SupervisorCorrect, PTL

\* supervise_with starts no process while it has one: of the processes alive at
\* most one has not been let go of by a restart of the daemon or a failed wait,
\* however slow a child is to listen and whatever the probes find.
THEOREM NeverTwoChildren == Spec => []OneChild
<1>1. SupervisorInv => OneChild
      BY DEF SupervisorInv, ChildInv, PlainOK, OneChild
<1> QED BY <1>1, SupervisorCorrect, PTL

\* A process is started only after absent_debounce absent probes in a row.
THEOREM SpawnIsDebounced == Spec => []DebouncedSpawn
<1>1. SupervisorInv => DebouncedSpawn
      BY BoundsAssumption DEF SupervisorInv, CountInv, PlainOK, DebouncedSpawn
<1> QED BY <1>1, SupervisorCorrect, PTL
=============================================================================
