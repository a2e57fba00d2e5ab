------------------------------ MODULE Delivery ------------------------------
(***************************************************************************)
(* Message delivery in the broker (crates/broker/src/core.rs, core/rpc.rs  *)
(* and the acks part of store.rs): sessions claim principal names, a send  *)
(* stores a message with one acknowledgment row per recipient, one task    *)
(* per recipient hands the message over, and held rows are drained on      *)
(* registration, swept on disconnect and swept after a restart.            *)
(*                                                                         *)
(* One step is one critical section of the code: a lock of the session     *)
(* registry or of a session's state, one store transaction, one tokio      *)
(* spawn.  A connection handles its requests one at a time                 *)
(* (server.rs:213-217), so each session has one program counter.           *)
(***************************************************************************)
EXTENDS Naturals, FiniteSets

CONSTANTS
  Sessions,       \* connections of one broker life (each id is used once)
  Principals,     \* principal names
  Msgs,           \* message record ids
  Tasks,          \* slots for spawned delivery tasks (bound)
  Registrations,  \* parameters of register: [name, admin, codex]
  Audiences,      \* audiences a send may resolve to (bound: the inputs explored)
  Leavers,        \* whose sessions deregister or disconnect (bound; None: unbound ones)
  MaxClaims,      \* bound: MaxClaims[r] registrations of the name r
  FaultyOps,      \* which store operations may fail (bound)
  MaxFaults,      \* bound: how many of them fail
  MaxCrashes,     \* bound: restarts of the daemon
  None            \* no principal, no session, no message

ASSUME RegistrationsAssumption ==
  Registrations \subseteq [name : Principals, admin : BOOLEAN, codex : BOOLEAN]

\* Session ids are u64 (core.rs:44), and a process runs finitely many tasks.
ASSUME FiniteAssumption == IsFiniteSet(Sessions) /\ IsFiniteSet(Tasks)

ASSUME AudiencesAssumption == Audiences \subseteq SUBSET Principals

ASSUME NoneAssumption ==
  None \notin Principals /\ None \notin Sessions /\ None \notin Msgs

ASSUME BoundsAssumption ==
  MaxClaims \in [Principals -> Nat] /\ MaxFaults \in Nat /\ MaxCrashes \in Nat

VARIABLES
  conn,       \* conn[s]: "new", "open" (in Inner.sessions) or "gone"
  bound,      \* bound[s]: SessionState as last written: principal, admin, codex
  claimLock,  \* holder of Inner.claim_lock
  h,          \* h[s]: where the handler running for session s stands
  task,       \* task[t]: a spawned spawn_deliver future
  known,      \* principals table (durable)
  sent,       \* message records (durable)
  ack,        \* acks table (durable): ack[m][r], "none" if no row
  grace,      \* grace-window task: "wait", or "done" once held_all is read
  graceTodo,  \* pairs its held_all read returned and it has not visited
  graceHit,   \* the pairs (at most one) it found absent and is about to fail
  handed,     \* handed[m][r]: how often the agent behind r was given m
  claims,     \* claims[r]: registrations of r so far
  faults,     \* store failures so far
  crashes     \* restarts so far

registry == <<conn, bound, claimLock>>
sweeper  == <<grace, graceTodo, graceHit>>
durable  == <<known, sent, ack>>
history  == <<handed, claims, faults, crashes>>
vars     == <<registry, h, task, sweeper, durable, history>>

AckState == {"none", "held", "relayed", "processed", "failed"}
Ops == {"idle", "bind", "persist", "drain", "draining", "partition",
        "spawn", "tapping", "sweep", "sweeping"}
Phases == {"free", "start", "found",                        \* before the hand-over
           "sent", "received", "expired", "late",           \* message/deliver
           "loop", "inject", "turn",                        \* Codex attach engine
           "relayed", "failed", "completed", "processed"}   \* result known, ack due

Unbound == [principal |-> None, admin |-> FALSE, codex |-> FALSE]
Idle    == [op |-> "idle", name |-> None, admin |-> FALSE, codex |-> FALSE,
            todo |-> {}, held |-> {}, audience |-> {}, recs |-> {}, msg |-> None]
Free    == [phase |-> "free", msg |-> None, rcpt |-> None, sess |-> None,
            tracked |-> FALSE]

Handler == [op : Ops, name : Principals \cup {None}, admin : BOOLEAN,
            codex : BOOLEAN, todo : SUBSET Principals, held : SUBSET Principals,
            audience : SUBSET Principals, recs : SUBSET Msgs,
            msg : Msgs \cup {None}]
Task == [phase : Phases, msg : Msgs \cup {None}, rcpt : Principals \cup {None},
         sess : Sessions \cup {None}, tracked : BOOLEAN]

\* Every variable has its type: the shape of the broker's tables and tasks.
TypeOK ==
  /\ conn \in [Sessions -> {"new", "open", "gone"}]
  /\ bound \in [Sessions -> [principal : Principals \cup {None},
                             admin : BOOLEAN, codex : BOOLEAN]]
  /\ claimLock \in Sessions \cup {None}
  /\ h \in [Sessions -> Handler]
  /\ task \in [Tasks -> Task]
  /\ known \subseteq Principals
  /\ sent \subseteq Msgs
  /\ ack \in [Msgs -> [Principals -> AckState]]
  /\ grace \in {"wait", "done"}
  /\ graceTodo \subseteq (Msgs \X Principals)
  /\ graceHit \subseteq (Msgs \X Principals)
  /\ handed \in [Msgs -> [Principals -> Nat]]
  /\ claims \in [Principals -> Nat]
  /\ faults \in Nat
  /\ crashes \in Nat

Init ==
  /\ conn = [s \in Sessions |-> "new"]
  /\ bound = [s \in Sessions |-> Unbound]
  /\ claimLock = None
  /\ h = [s \in Sessions |-> Idle]
  /\ task = [t \in Tasks |-> Free]
  /\ known = {}
  /\ sent = {}
  /\ ack = [m \in Msgs |-> [r \in Principals |-> "none"]]
  /\ grace = "wait"
  /\ graceTodo = {}
  /\ graceHit = {}
  /\ handed = [m \in Msgs |-> [r \in Principals |-> 0]]
  /\ claims = [r \in Principals |-> 0]
  /\ faults = 0
  /\ crashes = 0

-----------------------------------------------------------------------------
(* Lookups and the acks table *)

\* session_of: the attached sessions bound to r (at most one: UniqueClaim).
SessionsOf(r) == {s \in Sessions : conn[s] = "open" /\ bound[s].principal = r}

principal_active(r) == SessionsOf(r) # {}

held_for(r) == {m \in Msgs : ack[m][r] = "held"}
held_all    == {p \in Msgs \X Principals : ack[p[1]][p[2]] = "held"}

\* Mutant: the terminal states do not tie, a late failure replaces processed.
ack_rank_NoTie(st) == CASE st = "held" -> 0
                        [] st = "relayed" -> 1
                        [] st = "processed" -> 2
                        [] OTHER -> 3

ack_rank(st) == CASE st = "held" -> 0
                  [] st = "relayed" -> 1
                  [] st \in {"processed", "failed"} -> 2
                  [] OTHER -> 3

\* The acks table after ack_set: a row only advances in rank, a missing row
\* stays missing.
ack_set(m, r, st) ==
  IF ack[m][r] # "none" /\ ack_rank(st) > ack_rank(ack[m][r])
  THEN [ack EXCEPT ![m][r] = st]
  ELSE ack

\* tokio::spawn of one delivery into a free slot.
spawn_deliver(t, r, m, tracked) ==
  /\ task[t].phase = "free"
  /\ task' = [task EXCEPT ![t] = [phase |-> "start", msg |-> m, rcpt |-> r,
                                  sess |-> None, tracked |-> tracked]]

\* The store operation op fails.
StoreFault(op) == op \in FaultyOps /\ faults < MaxFaults /\ faults' = faults + 1

\* A handler at op with records, or names, left to visit; done when none is left.
WithRecs(op, recs) == IF recs = {} THEN Idle ELSE [Idle EXCEPT !.op = op, !.recs = recs]
WithTodo(hs, todo) == IF todo = {} THEN Idle ELSE [hs EXCEPT !.todo = todo]

At(s, op) == conn[s] = "open" /\ h[s].op = op

-----------------------------------------------------------------------------
(* Session registry *)

attach(s) ==
  /\ conn[s] = "new"
  /\ conn' = [conn EXCEPT ![s] = "open"]
  /\ UNCHANGED <<bound, claimLock, h, task, sweeper, durable, history>>

\* Mutant: the check is made without claim_lock.
RegisterClaim_NoLock(s, reg) ==
  /\ At(s, "idle")
  /\ bound[s].principal = None
  /\ claims[reg.name] < MaxClaims[reg.name]
  /\ ~principal_active(reg.name)
  /\ claimLock' = s
  /\ h' = [h EXCEPT ![s] = [Idle EXCEPT !.op = "bind", !.name = reg.name,
                                        !.admin = reg.admin, !.codex = reg.codex]]
  /\ UNCHANGED <<conn, bound, task, sweeper, durable, history>>

\* register, first critical section: take claim_lock and find the name free.
RegisterClaim(s, reg) ==
  /\ At(s, "idle")
  /\ bound[s].principal = None
  /\ claims[reg.name] < MaxClaims[reg.name]
  /\ claimLock = None
  /\ ~principal_active(reg.name)
  /\ claimLock' = s
  /\ h' = [h EXCEPT ![s] = [Idle EXCEPT !.op = "bind", !.name = reg.name,
                                        !.admin = reg.admin, !.codex = reg.codex]]
  /\ UNCHANGED <<conn, bound, task, sweeper, durable, history>>

\* register, still under claim_lock: bind the session and release the lock.
RegisterBind(s) ==
  /\ At(s, "bind")
  /\ bound' = [bound EXCEPT ![s] = [principal |-> h[s].name, admin |-> h[s].admin,
                                    codex |-> h[s].codex]]
  /\ claimLock' = None
  /\ h' = [h EXCEPT ![s] = [Idle EXCEPT !.op = "persist"]]
  /\ claims' = [claims EXCEPT ![h[s].name] = @ + 1]
  /\ UNCHANGED <<conn, task, sweeper, durable, handed, faults, crashes>>

\* register_principal commits the principals row.
RegisterPersist(s) ==
  /\ At(s, "persist")
  /\ known' = known \cup {bound[s].principal}
  /\ h' = [h EXCEPT ![s] = [Idle EXCEPT !.op = "drain"]]
  /\ UNCHANGED <<registry, task, sweeper, sent, ack, history>>

\* Mutant: the binding survives the failed transaction.
RegisterPersistFails_KeepsBinding(s) ==
  /\ At(s, "persist")
  /\ StoreFault("register_principal")
  /\ h' = [h EXCEPT ![s] = Idle]
  /\ UNCHANGED <<registry, task, sweeper, durable, handed, claims, crashes>>

\* register_principal fails: the binding is undone and nothing is drained.
RegisterPersistFails(s) ==
  /\ At(s, "persist")
  /\ StoreFault("register_principal")
  /\ bound' = [bound EXCEPT ![s] = Unbound]
  /\ h' = [h EXCEPT ![s] = Idle]
  /\ UNCHANGED <<conn, claimLock, task, sweeper, durable, handed, claims, crashes>>

\* drain_held: the read of held_for ...
DrainRead(s) ==
  /\ At(s, "drain")
  /\ h' = [h EXCEPT ![s] = WithRecs("draining", held_for(bound[s].principal))]
  /\ UNCHANGED <<registry, task, sweeper, durable, history>>

\* ... which yields no record when the store fails ...
DrainReadFails(s) ==
  /\ At(s, "drain")
  /\ StoreFault("held_for")
  /\ h' = [h EXCEPT ![s] = Idle]
  /\ UNCHANGED <<registry, task, sweeper, durable, handed, claims, crashes>>

\* ... then one spawn per record; after the last, register returns.
DrainSpawn(s, t, m) ==
  /\ At(s, "draining")
  /\ m \in h[s].recs
  /\ spawn_deliver(t, bound[s].principal, m, TRUE)
  /\ h' = [h EXCEPT ![s] = WithRecs("draining", h[s].recs \ {m})]
  /\ UNCHANGED <<registry, sweeper, durable, history>>

\* ... unless its envelope cannot be read: then the record is passed over.
DrainSkips(s, m) ==
  /\ At(s, "draining")
  /\ m \in h[s].recs
  /\ StoreFault("envelope_of")
  /\ h' = [h EXCEPT ![s] = WithRecs("draining", h[s].recs \ {m})]
  /\ UNCHANGED <<registry, task, sweeper, durable, handed, claims, crashes>>

\* deregister: the record is appended first (a failure there leaves the binding
\* intact), then principal, admin and codex are cleared.  Held rows stay held.
deregister(s) ==
  /\ At(s, "idle")
  /\ bound[s].principal \in Leavers \ {None}
  /\ bound' = [bound EXCEPT ![s] = Unbound]
  /\ UNCHANGED <<conn, claimLock, h, task, sweeper, durable, history>>

\* detach, called when the connection loop ends: the session leaves the map
\* with its binding unchanged ...
DetachRemove(s) ==
  /\ At(s, "idle")
  /\ bound[s].principal \in Leavers
  /\ conn' = [conn EXCEPT ![s] = "gone"]
  /\ h' = IF bound[s].principal = None THEN h
          ELSE [h EXCEPT ![s] = [Idle EXCEPT !.op = "sweep"]]
  /\ UNCHANGED <<bound, claimLock, task, sweeper, durable, history>>

\* ... its principal's held rows are read ...
SweepRead(s) ==
  /\ h[s].op = "sweep"
  /\ h' = [h EXCEPT ![s] = WithRecs("sweeping", held_for(bound[s].principal))]
  /\ UNCHANGED <<registry, task, sweeper, durable, history>>

\* ... or not, when the store fails ...
SweepReadFails(s) ==
  /\ h[s].op = "sweep"
  /\ StoreFault("held_for")
  /\ h' = [h EXCEPT ![s] = Idle]
  /\ UNCHANGED <<registry, task, sweeper, durable, handed, claims, crashes>>

\* ... and each of them is marked failed.
SweepFail(s, m) ==
  /\ h[s].op = "sweeping"
  /\ m \in h[s].recs
  /\ ack' = ack_set(m, bound[s].principal, "failed")
  /\ h' = [h EXCEPT ![s] = WithRecs("sweeping", h[s].recs \ {m})]
  /\ UNCHANGED <<registry, task, sweeper, known, sent, history>>

\* (ack_update only logs a store failure)
SweepAckFails(s, m) ==
  /\ h[s].op = "sweeping"
  /\ m \in h[s].recs
  /\ StoreFault("ack_set")
  /\ h' = [h EXCEPT ![s] = WithRecs("sweeping", h[s].recs \ {m})]
  /\ UNCHANGED <<registry, task, sweeper, durable, handed, claims, crashes>>

-----------------------------------------------------------------------------
(* send_message *)

\* The audience: names resolved against the store, without the sender.
SendResolve(s, audience) ==
  /\ At(s, "idle")
  /\ bound[s].principal # None
  /\ audience \subseteq known \ {bound[s].principal}
  /\ h' = [h EXCEPT ![s] = [Idle EXCEPT !.op = "partition", !.todo = audience,
                                        !.audience = audience]]
  /\ UNCHANGED <<registry, task, sweeper, durable, history>>

\* Partition by presence, one registry lookup per recipient.
SendPartition(s, r) ==
  /\ At(s, "partition")
  /\ r \in h[s].todo
  /\ h' = [h EXCEPT ![s].todo = @ \ {r},
                    ![s].held = IF principal_active(r) THEN @ \cup {r} ELSE @]
  /\ UNCHANGED <<registry, task, sweeper, durable, history>>

\* append_message_with_acks: the message and all its rows in one transaction.
SendCommit(s, m) ==
  /\ At(s, "partition")
  /\ h[s].todo = {}
  /\ m \notin sent
  /\ sent' = sent \cup {m}
  /\ ack' = [ack EXCEPT ![m] = [r \in Principals |->
                CASE r \in h[s].held -> "held"
                  [] r \in h[s].audience \ h[s].held -> "failed"
                  [] OTHER -> "none"]]
  /\ h' = [h EXCEPT ![s].op = "spawn", ![s].todo = h[s].held, ![s].msg = m]
  /\ UNCHANGED <<registry, task, sweeper, known, history>>

\* The transaction fails: nothing is stored and the sender gets an error.
SendCommitFails(s) ==
  /\ At(s, "partition")
  /\ h[s].todo = {}
  /\ StoreFault("append_message")
  /\ h' = [h EXCEPT ![s] = Idle]
  /\ UNCHANGED <<registry, task, sweeper, durable, handed, claims, crashes>>

\* One tracked task per held recipient ...
SendSpawn(s, t, r) ==
  /\ At(s, "spawn")
  /\ r \in h[s].todo
  /\ spawn_deliver(t, r, h[s].msg, TRUE)
  /\ h' = [h EXCEPT ![s].todo = @ \ {r}]
  /\ UNCHANGED <<registry, sweeper, durable, history>>

\* ... then the admin tap: every other admin outside the audience ...
SendTap(s) ==
  /\ At(s, "spawn")
  /\ h[s].todo = {}
  /\ LET admins == {x \in Sessions : conn[x] = "open" /\ bound[x].admin}
         names  == {bound[x].principal : x \in admins}
                     \ (h[s].audience \cup {bound[s].principal, None})
     IN  h' = [h EXCEPT ![s] = WithTodo([h[s] EXCEPT !.op = "tapping"], names)]
  /\ UNCHANGED <<registry, task, sweeper, durable, history>>

\* ... gets an untracked copy; then the sender gets its report.
TapSpawn(s, t, r) ==
  /\ At(s, "tapping")
  /\ r \in h[s].todo
  /\ spawn_deliver(t, r, h[s].msg, FALSE)
  /\ h' = [h EXCEPT ![s] = WithTodo(h[s], h[s].todo \ {r})]
  /\ UNCHANGED <<registry, sweeper, durable, history>>

-----------------------------------------------------------------------------
(* spawn_deliver, the task; and the agents that answer it *)

\* One step of task t on its way, without the acks table.
Moves(t, from, to) ==
  /\ task[t].phase = from
  /\ task' = [task EXCEPT ![t] = IF to = "free" THEN Free ELSE [@ EXCEPT !.phase = to]]

\* A task that is not tracked reports nothing.
AckPhase(t, phase) == IF task[t].tracked THEN phase ELSE "free"

\* session_of(recipient); absent means failed.
TaskLookup(t) ==
  /\ task[t].phase = "start"
  /\ IF principal_active(task[t].rcpt)
     THEN \E s \in SessionsOf(task[t].rcpt) :
            task' = [task EXCEPT ![t].phase = "found", ![t].sess = s]
     ELSE Moves(t, "start", AckPhase(t, "failed"))
  /\ UNCHANGED <<registry, h, sweeper, durable, history>>

\* The session's codex coordinates, read after the lookup, choose the path; a
\* message/deliver request is queued on the connection.
TaskRoute(t) ==
  /\ Moves(t, "found", IF bound[task[t].sess].codex THEN "loop" ELSE "sent")
  /\ UNCHANGED <<registry, h, sweeper, durable, history>>

Given(t) == handed' = [handed EXCEPT ![task[t].msg][task[t].rcpt] = @ + 1]

\* The agent takes the request off its connection (a writer task outlives the
\* session's detach, server.rs:130-145) ...
AgentReceives(t) ==
  /\ Moves(t, "sent", "received")
  /\ Given(t)
  /\ UNCHANGED <<registry, h, sweeper, durable, claims, faults, crashes>>

\* Mutant: an error response counts as relayed.
AgentRefuses_Relayed(t) ==
  /\ Moves(t, "sent", AckPhase(t, "relayed"))
  /\ At(task[t].sess, "idle")
  /\ UNCHANGED <<registry, h, sweeper, durable, history>>

\* ... or refuses it, or answers: resolve_response, by an idle connection loop.
AgentRefuses(t) ==
  /\ Moves(t, "sent", AckPhase(t, "failed"))
  /\ At(task[t].sess, "idle")
  /\ UNCHANGED <<registry, h, sweeper, durable, history>>

AgentReplies(t) ==
  /\ Moves(t, "received", AckPhase(t, "relayed"))
  /\ At(task[t].sess, "idle")
  /\ UNCHANGED <<registry, h, sweeper, durable, history>>

\* Session::call gives up after DELIVER_TIMEOUT; the request may be on its way.
TaskTimeout(t) ==
  /\ \/ Moves(t, "sent", IF task[t].tracked THEN "expired" ELSE "late")
     \/ Moves(t, "received", AckPhase(t, "failed"))
  /\ UNCHANGED <<registry, h, sweeper, durable, history>>

\* A request nobody waits for any more arrives late, or never.
LateArrives(t) ==
  /\ Moves(t, "late", "free")
  /\ Given(t)
  /\ UNCHANGED <<registry, h, sweeper, durable, claims, faults, crashes>>

LateLost(t) ==
  /\ Moves(t, "late", "free")
  /\ UNCHANGED <<registry, h, sweeper, durable, history>>

\* Mutant: a vacant name is taken for a name that changed hands.
CodexCheck_Silent(t) ==
  LET now == SessionsOf(task[t].rcpt) IN
  /\ \/ task[t].sess \notin now /\ Moves(t, "loop", "free")
     \/ task[t].sess \in now /\ Moves(t, "loop", "inject")
  /\ UNCHANGED <<registry, h, sweeper, durable, history>>

\* deliver_via_codex, head of the loop: who holds the name now?
CodexCheck(t) ==
  LET now == SessionsOf(task[t].rcpt) IN
  /\ \/ now = {} /\ Moves(t, "loop", AckPhase(t, "failed"))
     \/ now # {} /\ task[t].sess \notin now /\ Moves(t, "loop", "free")
     \/ task[t].sess \in now /\ Moves(t, "loop", "inject")
  /\ UNCHANGED <<registry, h, sweeper, durable, history>>

\* attach.deliver passes its commit point: the agent has the message ...
CodexInject(t) ==
  /\ Moves(t, "inject", "turn")
  /\ Given(t)
  /\ UNCHANGED <<registry, h, sweeper, durable, claims, faults, crashes>>

\* ... or is unreachable before it: sleep and retry, if tracked ...
CodexUnreachable(t) ==
  /\ Moves(t, "inject", AckPhase(t, "loop"))
  /\ UNCHANGED <<registry, h, sweeper, durable, history>>

\* Mutant: a loss after the commit point is retried.
CodexFailed_Retries(t) ==
  /\ \E from \in {"inject", "turn"} : Moves(t, from, AckPhase(t, "loop"))
  /\ UNCHANGED <<registry, h, sweeper, durable, history>>

\* ... or fails, before or after it ...
CodexFailed(t) ==
  /\ \E from \in {"inject", "turn"} : Moves(t, from, AckPhase(t, "failed"))
  /\ UNCHANGED <<registry, h, sweeper, durable, history>>

\* ... or the turn completes: relayed, then processed.
CodexProcessed(t) ==
  /\ Moves(t, "turn", AckPhase(t, "completed"))
  /\ UNCHANGED <<registry, h, sweeper, durable, history>>

\* The ack_update calls a task ends with: the phase it is in, the state it
\* writes, the phase it continues in.
AckWrites == {<<"relayed", "relayed", "free">>, <<"failed", "failed", "free">>,
              <<"expired", "failed", "late">>, <<"completed", "relayed", "processed">>,
              <<"processed", "processed", "free">>}

TaskAck(t) ==
  /\ \E w \in AckWrites : /\ Moves(t, w[1], w[3])
                         /\ ack' = ack_set(task[t].msg, task[t].rcpt, w[2])
  /\ UNCHANGED <<registry, h, sweeper, known, sent, history>>

\* ack_update only logs a store failure.
TaskAckFails(t) ==
  /\ \E w \in AckWrites : Moves(t, w[1], w[3])
  /\ StoreFault("ack_set")
  /\ UNCHANGED <<registry, h, sweeper, durable, handed, claims, crashes>>

\* message/processed from an agent that was given m; accepted only from the
\* session bound to the recipient.
handle_notification(s, m) ==
  LET r == bound[s].principal IN
  /\ At(s, "idle")
  /\ r # None
  /\ handed[m][r] > 0
  /\ ack' = ack_set(m, r, "processed")
  /\ UNCHANGED <<registry, h, task, sweeper, known, sent, history>>

-----------------------------------------------------------------------------
(* The grace window and restarts *)

GraceRead ==
  /\ grace = "wait"
  /\ grace' = "done"
  /\ graceTodo' = held_all
  /\ UNCHANGED <<registry, h, task, graceHit, durable, history>>

GraceReadFails ==
  /\ grace = "wait"
  /\ StoreFault("held_all")
  /\ grace' = "done"
  /\ UNCHANGED <<registry, h, task, graceTodo, graceHit, durable, handed, claims, crashes>>

GraceCheck(p) ==
  /\ graceHit = {}
  /\ p \in graceTodo
  /\ graceTodo' = graceTodo \ {p}
  /\ graceHit' = IF principal_active(p[2]) THEN {} ELSE {p}
  /\ UNCHANGED <<registry, h, task, grace, durable, history>>

GraceFail(p) ==
  /\ p \in graceHit
  /\ ack' = ack_set(p[1], p[2], "failed")
  /\ graceHit' = {}
  /\ UNCHANGED <<registry, h, task, grace, graceTodo, known, sent, history>>

GraceAckFails ==
  /\ graceHit # {}
  /\ StoreFault("ack_set")
  /\ graceHit' = {}
  /\ UNCHANGED <<registry, h, task, grace, graceTodo, durable, handed, claims, crashes>>

\* Mutant: Broker::new does not start the grace window.
Restart_NoGrace ==
  /\ crashes < MaxCrashes
  /\ crashes' = crashes + 1
  /\ conn' = [s \in Sessions |-> "new"]
  /\ bound' = [s \in Sessions |-> Unbound]
  /\ claimLock' = None
  /\ h' = [s \in Sessions |-> Idle]
  /\ task' = [t \in Tasks |-> Free]
  /\ grace' = "done"
  /\ graceTodo' = {}
  /\ graceHit' = {}
  /\ UNCHANGED <<durable, handed, claims, faults>>

\* The daemon stops at any point and Broker::new starts it on the same store.
Restart ==
  /\ crashes < MaxCrashes
  /\ crashes' = crashes + 1
  /\ conn' = [s \in Sessions |-> "new"]
  /\ bound' = [s \in Sessions |-> Unbound]
  /\ claimLock' = None
  /\ h' = [s \in Sessions |-> Idle]
  /\ task' = [t \in Tasks |-> Free]
  /\ grace' = "wait"
  /\ graceTodo' = {}
  /\ graceHit' = {}
  /\ UNCHANGED <<durable, handed, claims, faults>>

-----------------------------------------------------------------------------
\* Steps of a connection that its client asks for.
Request(s) ==
  \/ attach(s)
  \/ \E reg \in Registrations : RegisterClaim(s, reg)
  \/ deregister(s)
  \/ DetachRemove(s)
  \/ \E audience \in Audiences : SendResolve(s, audience)
  \/ \E m \in Msgs : handle_notification(s, m)

\* Steps of a handler that has begun.
HandlerStep(s) ==
  \/ RegisterBind(s)
  \/ RegisterPersist(s)
  \/ DrainRead(s)
  \/ \E t \in Tasks, m \in Msgs : DrainSpawn(s, t, m)
  \/ SweepRead(s)
  \/ \E m \in Msgs : SweepFail(s, m)
  \/ \E r \in Principals : SendPartition(s, r)
  \/ \E m \in Msgs : SendCommit(s, m)
  \/ \E t \in Tasks, r \in Principals : SendSpawn(s, t, r)
  \/ SendTap(s)
  \/ \E t \in Tasks, r \in Principals : TapSpawn(s, t, r)

\* Steps the broker takes by itself once a task is spawned.
TaskStep(t) == \/ TaskLookup(t) \/ TaskRoute(t) \/ TaskTimeout(t)
               \/ CodexCheck(t) \/ TaskAck(t)
               \/ LateArrives(t) \/ LateLost(t)

\* Steps of a task that the agent, or the app-server, decides.
AgentStep(t) == AgentReceives(t) \/ AgentRefuses(t) \/ AgentReplies(t)
                \/ CodexUnreachable(t)

\* What attach.deliver comes back with when the app-server can be reached.
CodexOutcome(t) == CodexInject(t) \/ CodexFailed(t) \/ CodexProcessed(t)

GraceStep == GraceRead \/ (\E p \in Msgs \X Principals : GraceCheck(p) \/ GraceFail(p))

\* A store failure somewhere.
Fault == \/ \E s \in Sessions : RegisterPersistFails(s) \/ DrainReadFails(s)
                                \/ SweepReadFails(s) \/ SendCommitFails(s)
         \/ \E s \in Sessions, m \in Msgs : DrainSkips(s, m) \/ SweepAckFails(s, m)
         \/ \E t \in Tasks : TaskAckFails(t)
         \/ GraceReadFails \/ GraceAckFails

Next == \/ \E s \in Sessions : Request(s) \/ HandlerStep(s)
        \/ \E t \in Tasks : TaskStep(t) \/ AgentStep(t) \/ CodexOutcome(t)
        \/ GraceStep
        \/ Fault
        \/ Restart

Spec == Init /\ [][Next]_vars

\* Fairness: handlers never block (server.rs:215), tokio runs every ready task
\* and every timer fires.  An app-server may be unreachable, but not forever:
\* while it is, deliver_via_codex keeps the delivery held and retries.
Fairness == /\ \A s \in Sessions : WF_vars(HandlerStep(s))
            /\ \A t \in Tasks : WF_vars(TaskStep(t)) /\ SF_vars(CodexOutcome(t))
            /\ WF_vars(GraceStep)

FairSpec == Spec /\ Fairness

-----------------------------------------------------------------------------
(* Properties *)

\* claim_lock at work (core.rs:154-156, "two sessions racing for one name must
\* not both win"): no two attached sessions are bound to one principal.
UniqueClaim ==
  \A s1, s2 \in Sessions :
    /\ conn[s1] = "open" /\ conn[s2] = "open"
    /\ bound[s1].principal # None
    /\ bound[s1].principal = bound[s2].principal
    => s1 = s2

\* A registration that cannot be persisted leaves no binding behind
\* (core/rpc.rs:167-170): a session between requests is bound only to a
\* principal that has its row.
BoundIsKnown ==
  \A s \in Sessions : h[s].op = "idle" => bound[s].principal \in known \cup {None}

\* Task t still has to report on (m, r).
Owns(t, m, r) == /\ task[t].tracked /\ task[t].msg = m /\ task[t].rcpt = r
                 /\ task[t].phase \notin {"free", "late", "processed"}

\* A handler is about to spawn a task for (m, r).
WillSpawn(s, m, r) ==
  \/ h[s].op = "spawn" /\ h[s].msg = m /\ r \in h[s].todo
  \/ bound[s].principal = r /\ h[s].op \in {"persist", "drain"}
  \/ bound[s].principal = r /\ h[s].op = "draining" /\ m \in h[s].recs

\* The detach of a session of r is about to fail (m, r).
WillFail(s, m, r) ==
  /\ bound[s].principal = r
  /\ h[s].op = "sweep" \/ (h[s].op = "sweeping" /\ m \in h[s].recs)

\* The restart sweep has not passed (m, r) yet.
GraceOwns(m, r) == grace = "wait" \/ <<m, r>> \in graceTodo \/ <<m, r>> \in graceHit

\* No delivery is forgotten: while a row is held some task, handler or the
\* restart sweep is still responsible for it, whatever names change hands
\* (core.rs:468-470: a stale task leaves only because the new session's drain
\* owns the record).  It holds as long as no store operation fails: the drain of
\* a registration that cannot be persisted never runs.
HeldOwned ==
  \A m \in Msgs, r \in Principals :
    ack[m][r] = "held" => \/ \E t \in Tasks : Owns(t, m, r)
                          \/ \E s \in Sessions : WillSpawn(s, m, r) \/ WillFail(s, m, r)
                          \/ GraceOwns(m, r)

\* An acknowledgment is never a lie: a row says relayed or processed only for
\* a message its recipient was really given.
AckTruthful ==
  \A m \in Msgs, r \in Principals :
    ack[m][r] \in {"relayed", "processed"} => handed[m][r] > 0

\* Retries do not multiply hand-overs: a recipient is given a message at most
\* once for the send and once for each registration of the name, those before
\* the send included: one that has bound the name may drain the row later.
HandoverBound ==
  \A m \in Msgs, r \in Principals :
    ack[m][r] # "none" => handed[m][r] =< 1 + claims[r]

\* "One delivery per recipient" (core/rpc.rs:285), "the broker cannot
\* double-inject a message" (adapter-codex/src/lib.rs:5-7).  The code breaks it:
\* a send and the drain of a registration may both spawn a task for one row.
SingleHandover ==
  \A m \in Msgs, r \in Principals : ack[m][r] # "none" => handed[m][r] =< 1

\* Every held delivery is resolved in the end, unless a store operation fails:
\* an acknowledgment that cannot be written is logged and given up.
HeldResolves ==
  \A m \in Msgs, r \in Principals :
    ack[m][r] = "held" ~> (ack[m][r] # "held" \/ faults > 0)

\* The acks table behaves as AckLifecycle says.
Lifecycle == INSTANCE AckLifecycle
               WITH Messages <- Msgs, Recipients <- Principals, posted <- sent, row <- ack
AckLifecycleSpec == Lifecycle!Spec
=============================================================================
