----------------------------- MODULE Supervisor -----------------------------
(***************************************************************************)
(* Supervision of the shared Codex app-server                              *)
(* (crates/workplace/src/codex_supervisor.rs): probe the endpoint, adopt a *)
(* server after verifying it, start one when the endpoint stays absent,    *)
(* notice that a started one exits, back off; against processes that come  *)
(* and go at the endpoint, restarts of the daemon and waits that fail, both *)
(* of which leave a started process running on its own.                    *)
(*                                                                         *)
(* A step is one probe, one connection, one spawn or one timer.            *)
(***************************************************************************)
EXTENDS Naturals

CONSTANTS
  Debounce,      \* Timings.absent_debounce
  MaxLevel,      \* doublings of the backoff before backoff_max
  MaxFaults      \* bound: restarts of the daemon and failed waits

ASSUME BoundsAssumption ==
  Debounce \in Nat \ {0} /\ MaxLevel \in Nat /\ MaxFaults \in Nat

VARIABLES
  pc,         \* "probe", "verify", "recheck", "spawn", "poll" or "backoff"
  child,      \* the child: "none", "starting", "serving" or "exited" (unseen)
  server,     \* what listens at the endpoint: "nobody", "child", "orphan" (a
              \* child let go of), "good", "foreign" (ready, but refuses the
              \* token), "open" (takes anybody) or "sick" (not ready)
  cut,        \* the server a verification talks to has gone
  verified,   \* the endpoint has been verified and not been lost since
  healthy,    \* healthy_since is set ...
  stable,     \* ... and stable_uptime has passed since
  due,        \* next_verify is not set or has passed
  absent,     \* absent_reads
  level,      \* backoff, in doublings
  live,       \* processes started by a daemon and still alive
  letgo,      \* children let go of while they were alive
  quiet,      \* absent probes since something else was last seen or done
  faults      \* restarts and failed waits so far

belief == <<verified, healthy, stable, due>>
counts == <<absent, level, quiet>>
world  == <<server, cut, live, letgo, faults>>
vars   == <<pc, child, world, belief, counts>>

Others == {"good", "foreign", "open", "sick"}
Compatible == {"good", "child", "orphan"}

\* Every variable has its type: the state of the supervision loop.
TypeOK ==
  /\ pc \in {"probe", "verify", "recheck", "spawn", "poll", "backoff"}
  /\ child \in {"none", "starting", "serving", "exited"}
  /\ server \in {"nobody", "child", "orphan"} \cup Others
  /\ cut \in BOOLEAN
  /\ verified \in BOOLEAN /\ healthy \in BOOLEAN
  /\ stable \in BOOLEAN /\ due \in BOOLEAN
  /\ absent \in 0..Debounce
  /\ level \in 0..MaxLevel
  /\ live \in Nat
  /\ letgo \in Nat
  /\ quiet \in 0..Debounce
  /\ faults \in 0..MaxFaults

Init ==
  /\ pc = "probe"
  /\ child = "none"
  /\ server \in {"nobody"} \cup Others
  /\ cut = FALSE
  /\ verified = FALSE /\ healthy = FALSE /\ stable = FALSE /\ due = TRUE
  /\ absent = 0
  /\ level = 0
  /\ live = 0
  /\ letgo = 0
  /\ quiet = 0
  /\ faults = 0

\* Mutant: nothing caps the backoff.
Up_NoCap(n, top) == n + 1

Up(n, top) == IF n < top THEN n + 1 ELSE n
Unhealthy == healthy' = FALSE /\ stable' = FALSE
Lost == verified' = FALSE /\ Unhealthy /\ due' = TRUE
Alive == child \in {"starting", "serving"}
Orphans == live - (IF Alive THEN 1 ELSE 0)

-----------------------------------------------------------------------------
(* The loop *)

\* readyz answers 200: verify if that is due, else see whether the backoff may
\* be reset.
ProbeReady ==
  /\ pc = "probe"
  /\ server \notin {"nobody", "sick"}
  /\ absent' = 0 /\ quiet' = 0
  /\ IF ~verified /\ due
     THEN pc' = "verify" /\ cut' = FALSE /\ UNCHANGED level
     ELSE pc' = "poll" /\ level' = (IF healthy /\ stable THEN 0 ELSE level) /\ UNCHANGED cut
  /\ UNCHANGED <<child, server, live, letgo, faults, belief>>

\* deep_verify, its first connection: the endpoint accepts the token.
VerifyAuth ==
  /\ pc = "verify"
  /\ ~cut /\ server \in Compatible \cup {"open"}
  /\ pc' = "recheck"
  /\ UNCHANGED <<child, world, belief, counts>>

\* Its second connection, without the token, fails for whatever reason: the
\* endpoint is adopted.
VerifyOk ==
  /\ pc = "recheck"
  /\ verified' = TRUE /\ healthy' = TRUE /\ stable' = FALSE /\ due' = TRUE
  /\ pc' = "poll"
  /\ UNCHANGED <<child, world, counts>>

\* The first connection fails or the second succeeds; the verification is tried
\* again after its own backoff.
VerifyFails ==
  /\ pc = "verify" \/ (pc = "recheck" /\ server = "open")
  /\ Unhealthy /\ due' = FALSE /\ UNCHANGED verified
  /\ pc' = "poll"
  /\ UNCHANGED <<child, world, counts>>

\* Mutant: every ready probe sets the deadline anew, so it passes only while the
\* loop does not probe.
VerifyDue_FromProbe ==
  /\ ~due /\ pc = "backoff"
  /\ due' = TRUE
  /\ UNCHANGED <<pc, child, world, verified, healthy, stable, counts>>

VerifyDue ==
  /\ ~due
  /\ due' = TRUE
  /\ UNCHANGED <<pc, child, world, verified, healthy, stable, counts>>

StableUptime ==
  /\ healthy /\ ~stable
  /\ stable' = TRUE
  /\ UNCHANGED <<pc, child, world, verified, healthy, due, counts>>

\* Mutant: the count of absent probes survives an occupied one.
ProbeOccupied_KeepsCount ==
  /\ pc = "probe"
  /\ server # "nobody"
  /\ quiet' = 0
  /\ Lost
  /\ pc' = "poll"
  /\ UNCHANGED <<child, world, absent, level>>

\* Somebody accepts the connection but is not ready.
ProbeOccupied ==
  /\ pc = "probe"
  /\ server # "nobody"
  /\ absent' = 0 /\ quiet' = 0
  /\ Lost
  /\ pc' = "poll"
  /\ UNCHANGED <<child, world, level>>

\* Mutant: a child that is still there is not taken into account.
ProbeAbsent_IgnoresChild ==
  /\ pc = "probe"
  /\ Lost
  /\ absent' = Up(absent, Debounce) /\ quiet' = Up(quiet, Debounce)
  /\ pc' = IF absent' >= Debounce THEN "spawn" ELSE "poll"
  /\ UNCHANGED <<child, world, level>>

\* Mutant: the count starts over with every probe.
ProbeAbsent_NeverEnough ==
  /\ pc = "probe"
  /\ Lost
  /\ absent' = 0 /\ quiet' = Up(quiet, Debounce)
  /\ pc' = "poll"
  /\ UNCHANGED <<child, world, level>>

\* The connection is refused, or times out although somebody listens; after
\* enough of these in a row a child is started, unless there is one.
ProbeAbsent ==
  /\ pc = "probe"
  /\ Lost
  /\ absent' = Up(absent, Debounce) /\ quiet' = Up(quiet, Debounce)
  /\ pc' = IF absent' >= Debounce /\ child = "none" THEN "spawn" ELSE "poll"
  /\ UNCHANGED <<child, world, level>>

SpawnOk ==
  /\ pc = "spawn"
  /\ child' = "starting"
  /\ live' = live + 1
  /\ absent' = 0 /\ quiet' = 0
  /\ pc' = "poll"
  /\ UNCHANGED <<server, cut, letgo, faults, belief, level>>

SpawnFails ==
  /\ pc = "spawn"
  /\ absent' = 0 /\ quiet' = 0
  /\ level' = Up(level, MaxLevel)
  /\ pc' = "backoff"
  /\ UNCHANGED <<child, world, belief>>

PollTimer ==
  /\ pc = "poll"
  /\ pc' = "probe"
  /\ UNCHANGED <<child, world, belief, counts>>

\* What the loop does once the wait for the child has returned.
ChildOver ==
  /\ pc = "poll"
  /\ child' = "none"
  /\ verified' = FALSE /\ Unhealthy /\ UNCHANGED due
  /\ level' = Up(level, MaxLevel)
  /\ pc' = "backoff"
  /\ UNCHANGED <<cut, live, absent, quiet>>

\* The wait for the child returns its exit before the poll timer ...
ChildSeen ==
  /\ child = "exited"
  /\ ChildOver
  /\ UNCHANGED <<server, letgo, faults>>

\* A child that is let go of goes on on its own.
LetGo ==
  /\ letgo' = letgo + (IF Alive THEN 1 ELSE 0)
  /\ server' = IF server = "child" THEN "orphan" ELSE server

\* ... or an error, and the child is dropped, alive or not (kill_on_drop is off).
WaitFails ==
  /\ child # "none"
  /\ faults < MaxFaults
  /\ faults' = faults + 1
  /\ ChildOver
  /\ LetGo

BackoffEnds ==
  /\ pc = "backoff"
  /\ pc' = "probe"
  /\ UNCHANGED <<child, world, belief, counts>>

-----------------------------------------------------------------------------
(* The endpoint and the daemon *)

\* The server goes, and with it the connection of a verification.
Vacate == server' = "nobody" /\ cut' = TRUE

ChildListens ==
  /\ child = "starting"
  /\ server = "nobody"
  /\ child' = "serving" /\ server' = "child"
  /\ UNCHANGED <<pc, cut, live, letgo, faults, belief, counts>>

ChildExits ==
  /\ Alive
  /\ child' = "exited"
  /\ IF child = "serving" THEN Vacate ELSE UNCHANGED <<server, cut>>
  /\ live' = live - 1
  /\ UNCHANGED <<pc, letgo, faults, belief, counts>>

OrphanListens ==
  /\ Orphans > 0
  /\ server = "nobody"
  /\ server' = "orphan"
  /\ UNCHANGED <<pc, child, cut, live, letgo, faults, belief, counts>>

OrphanExits ==
  /\ Orphans > 0
  /\ \/ server = "orphan" /\ Vacate
     \/ (server = "orphan" => Orphans > 1) /\ UNCHANGED <<server, cut>>
  /\ live' = live - 1
  /\ UNCHANGED <<pc, child, letgo, faults, belief, counts>>

OtherListens ==
  /\ server = "nobody"
  /\ server' \in Others
  /\ UNCHANGED <<pc, child, cut, live, letgo, faults, belief, counts>>

OtherLeaves ==
  /\ server \in Others
  /\ Vacate
  /\ UNCHANGED <<pc, child, live, letgo, faults, belief, counts>>

\* The daemon stops and starts; a child it has started goes on without it.
DaemonRestarts ==
  /\ faults < MaxFaults
  /\ faults' = faults + 1
  /\ pc' = "probe" /\ child' = "none"
  /\ LetGo
  /\ verified' = FALSE /\ healthy' = FALSE /\ stable' = FALSE /\ due' = TRUE
  /\ absent' = 0 /\ quiet' = 0 /\ level' = 0
  /\ UNCHANGED <<cut, live>>

-----------------------------------------------------------------------------
Probe == ProbeReady \/ ProbeOccupied \/ ProbeAbsent
Verify == VerifyAuth \/ VerifyOk \/ VerifyFails
Unblocked == Probe \/ SpawnOk \/ SpawnFails \/ PollTimer \/ ChildSeen \/ BackoffEnds
Timers == VerifyDue \/ StableUptime
Endpoint == ChildListens \/ ChildExits \/ OrphanListens \/ OrphanExits
            \/ OtherListens \/ OtherLeaves

Next == Unblocked \/ Verify \/ WaitFails \/ Timers \/ Endpoint \/ DaemonRestarts

Spec == Init /\ [][Next]_vars

\* Probes, spawns and sleeps of the loop are bounded in time.  A verification is
\* not (attach.rs:91-92 has no timeout): it ends if its server goes, and at a
\* compatible server, which answers.  Nothing is assumed of another server that
\* accepts the connection.  What may fail again and again does not fail for ever:
\* the start of a process, the probe of a compatible server and the connection to
\* it; and an exited child is seen in the end, for each poll waits for it.
FairSpec ==
  /\ Spec
  /\ WF_vars(Unblocked) /\ WF_vars(VerifyDue)
  /\ WF_vars(Verify /\ (cut \/ server \in Compatible))
  /\ SF_vars(SpawnOk) /\ SF_vars(ChildSeen)
  /\ SF_vars(ProbeReady /\ server \in Compatible)
  /\ SF_vars(VerifyAuth /\ server \in Compatible)

-----------------------------------------------------------------------------
(* Properties *)

\* "launches one when the endpoint is absent" (docs/architecture/daemon.md:87),
\* one: no process is started while the loop has one, also while that one is
\* slow to listen and probes find the endpoint absent.  So of the processes alive
\* at most one is not of those that a restart or a failed wait has let go of.
OneChild == live =< 1 + letgo

\* Debounce (codex_supervisor.rs:212): a process is started only after Debounce
\* absent probes in a row, without a sign of life or another attempt between
\* them.
DebouncedSpawn == pc = "spawn" => quiet >= Debounce

\* "launches one when the endpoint is absent" (docs/architecture/daemon.md:87):
\* an absent endpoint does not stay unattended.
AbsentIsServed ==
  (server = "nobody" /\ child = "none") ~> (server # "nobody" \/ child # "none")

\* "adopts a compatible server already listening at the endpoint", also a child
\* of the previous daemon (docs/architecture/daemon.md:87, 91): a compatible
\* server is adopted if one stays, and again after each loss, whatever was at the
\* endpoint before, however often it was verified in vain, and also if a child was
\* started beside it.
CompatibleIsAdopted == <>[](server \in Compatible) => []<>verified
=============================================================================
