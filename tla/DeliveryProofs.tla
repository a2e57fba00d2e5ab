--------------------------- MODULE DeliveryProofs ---------------------------
(***************************************************************************)
(* Theorems about Delivery, for any number of sessions, principals,        *)
(* messages, tasks, registrations, store failures and restarts.            *)
(***************************************************************************)
EXTENDS Delivery, FiniteSetTheorems, TLAPS

\* What the registry keeps besides UniqueClaim: a session without a principal
\* is no admin, a session that has not attached has no principal, one whose
\* registration is being persisted has one, and the session between the check
\* and the bind of register holds claim_lock while nobody holds the name it is
\* about to take.
RegistryInv ==
  /\ \A s \in Sessions : bound[s].principal = None => ~bound[s].admin
  /\ \A s \in Sessions : conn[s] = "new" => bound[s].principal = None
  /\ \A s \in Sessions : h[s].op = "persist" => bound[s].principal # None
  /\ \A s \in Sessions : h[s].op = "bind" =>
       /\ claimLock = s
       /\ h[s].name \in Principals
       /\ ~principal_active(h[s].name)

-----------------------------------------------------------------------------
(* Types of the helpers *)

\* A handler with nothing to do is a handler.
LEMMA IdleType == Idle \in Handler
BY DEF Idle, Handler, Ops

\* An empty task slot is a task.
LEMMA FreeType == Free \in Task
BY DEF Free, Task, Phases

\* WithRecs makes a handler of any operation and any set of messages.
LEMMA WithRecsType ==
  ASSUME NEW op \in Ops, NEW recs \in SUBSET Msgs
  PROVE  WithRecs(op, recs) \in Handler
BY IdleType DEF WithRecs, Idle, Handler

\* WithTodo makes a handler of a handler and any set of names.
LEMMA WithTodoType ==
  ASSUME NEW hs \in Handler, NEW todo \in SUBSET Principals
  PROVE  WithTodo(hs, todo) \in Handler
BY IdleType DEF WithTodo, Handler

\* ack_set leaves a table of acknowledgment states, whatever it is called with.
LEMMA AckSetType ==
  ASSUME TypeOK, NEW m, NEW r, NEW st \in AckState
  PROVE  ack_set(m, r, st) \in [Msgs -> [Principals -> AckState]]
BY DEF TypeOK, ack_set

\* A task that moves to another phase is still a task.
LEMMA MovesType ==
  ASSUME TypeOK, NEW t \in Tasks, NEW from, NEW to \in Phases, Moves(t, from, to)
  PROVE  task' \in [Tasks -> Task]
<1>1. [task[t] EXCEPT !.phase = to] \in Task
  BY DEF TypeOK, Task
<1> QED
  BY <1>1, FreeType DEF TypeOK, Moves

\* A spawned task is a task.
LEMMA SpawnType ==
  ASSUME TypeOK, NEW t \in Tasks, NEW r \in Principals \cup {None}, NEW m \in Msgs \cup {None},
         NEW tracked \in BOOLEAN, spawn_deliver(t, r, m, tracked)
  PROVE  task' \in [Tasks -> Task]
<1>1. [phase |-> "start", msg |-> m, rcpt |-> r, sess |-> None, tracked |-> tracked] \in Task
  BY DEF Task, Phases
<1> QED
  BY <1>1 DEF TypeOK, spawn_deliver

\* Counting a hand-over keeps the counters natural numbers.
LEMMA GivenType ==
  ASSUME TypeOK, NEW t \in Tasks, Given(t)
  PROVE  handed' \in [Msgs -> [Principals -> Nat]]
<1> DEFINE m == task[t].msg
           r == task[t].rcpt
           row == [handed[m] EXCEPT ![r] = @ + 1]
<1>1. handed \in [Msgs -> [Principals -> Nat]]
  BY DEF TypeOK
<1>2. handed' = [handed EXCEPT ![m] = row]
  BY DEF Given
<1>3. ASSUME m \in Msgs PROVE row \in [Principals -> Nat]
  <2>1. handed[m] \in [Principals -> Nat]
    BY <1>1, <1>3
  <2>2. ASSUME r \in Principals PROVE handed[m][r] + 1 \in Nat
    BY <2>1, <2>2
  <2> QED
    BY <2>1, <2>2, Zenon
<1> QED
  BY <1>1, <1>2, <1>3

\* A task that moves on to report, or to its end if it is not tracked, is a task.
LEMMA ReportsType ==
  ASSUME TypeOK, NEW t \in Tasks, NEW from, NEW phase \in Phases,
         Moves(t, from, AckPhase(t, phase))
  PROVE  task' \in [Tasks -> Task]
<1>1. AckPhase(t, phase) \in Phases
  BY DEF AckPhase, Phases
<1> QED
  BY <1>1, MovesType

-----------------------------------------------------------------------------
(* Every action keeps the types *)

\* The steps a client asks for keep the types.
LEMMA RequestType ==
  ASSUME TypeOK, NEW s \in Sessions, Request(s)
  PROVE  TypeOK'
<1> USE DEF TypeOK, registry, sweeper, durable, history
<1>1. CASE attach(s)
  BY <1>1 DEF attach
<1>2. ASSUME NEW reg \in Registrations, RegisterClaim(s, reg) PROVE TypeOK'
  <2>1. [Idle EXCEPT !.op = "bind", !.name = reg.name, !.admin = reg.admin, !.codex = reg.codex]
          \in Handler
    BY RegistrationsAssumption DEF Idle, Handler, Ops
  <2> QED
    BY <1>2, <2>1 DEF RegisterClaim
<1>3. CASE deregister(s)
  BY <1>3 DEF deregister, Unbound
<1>4. CASE DetachRemove(s)
  <2>1. [Idle EXCEPT !.op = "sweep"] \in Handler
    BY DEF Idle, Handler, Ops
  <2> QED
    BY <1>4, <2>1 DEF DetachRemove
<1>5. ASSUME NEW audience \in Audiences, SendResolve(s, audience) PROVE TypeOK'
  <2>1. [Idle EXCEPT !.op = "partition", !.todo = audience, !.audience = audience] \in Handler
    BY AudiencesAssumption DEF Idle, Handler, Ops
  <2> QED
    BY <1>5, <2>1 DEF SendResolve
<1>6. ASSUME NEW m \in Msgs, handle_notification(s, m) PROVE TypeOK'
  <2>1. ack_set(m, bound[s].principal, "processed") \in [Msgs -> [Principals -> AckState]]
    BY AckSetType DEF AckState
  <2> QED
    BY <1>6, <2>1 DEF handle_notification
<1> QED
  BY <1>1, <1>2, <1>3, <1>4, <1>5, <1>6 DEF Request

\* The steps of a running handler keep the types.
LEMMA HandlerStepType ==
  ASSUME TypeOK, RegistryInv, NEW s \in Sessions, HandlerStep(s)
  PROVE  TypeOK'
<1> USE DEF TypeOK, registry, sweeper, durable, history
<1>0. h[s] \in Handler
  OBVIOUS
<1>1. CASE RegisterBind(s)
  <2>1. [Idle EXCEPT !.op = "persist"] \in Handler
    BY DEF Idle, Handler, Ops
  <2>2. claims' \in [Principals -> Nat]
    BY <1>1 DEF RegisterBind, RegistryInv, At
  <2>3. bound' \in [Sessions -> [principal : Principals \cup {None}, admin : BOOLEAN, codex : BOOLEAN]]
    BY <1>1 DEF RegisterBind, Handler
  <2> QED
    BY <1>1, <2>1, <2>2, <2>3 DEF RegisterBind
<1>2. CASE RegisterPersist(s)
  <2>1. [Idle EXCEPT !.op = "drain"] \in Handler
    BY DEF Idle, Handler, Ops
  <2>2. bound[s].principal \in Principals
    BY <1>2 DEF RegisterPersist, RegistryInv, At
  <2> QED
    BY <1>2, <2>1, <2>2 DEF RegisterPersist
<1>3. CASE DrainRead(s)
  <2>1. WithRecs("draining", held_for(bound[s].principal)) \in Handler
    BY WithRecsType DEF held_for, Ops
  <2> QED
    BY <1>3, <2>1 DEF DrainRead
<1>4. ASSUME NEW t \in Tasks, NEW m \in Msgs, DrainSpawn(s, t, m) PROVE TypeOK'
  <2>1. WithRecs("draining", h[s].recs \ {m}) \in Handler
    BY WithRecsType DEF Handler, Ops
  <2>2. task' \in [Tasks -> Task]
    BY <1>4, SpawnType DEF DrainSpawn
  <2> QED
    BY <1>4, <2>1, <2>2 DEF DrainSpawn
<1>5. CASE SweepRead(s)
  <2>1. WithRecs("sweeping", held_for(bound[s].principal)) \in Handler
    BY WithRecsType DEF held_for, Ops
  <2> QED
    BY <1>5, <2>1 DEF SweepRead
<1>6. ASSUME NEW m \in Msgs, SweepFail(s, m) PROVE TypeOK'
  <2>1. WithRecs("sweeping", h[s].recs \ {m}) \in Handler
    BY WithRecsType DEF Handler, Ops
  <2>2. ack_set(m, bound[s].principal, "failed") \in [Msgs -> [Principals -> AckState]]
    BY AckSetType DEF AckState
  <2> QED
    BY <1>6, <2>1, <2>2 DEF SweepFail
<1>7. ASSUME NEW r \in Principals, SendPartition(s, r) PROVE TypeOK'
  <2> DEFINE now == IF principal_active(r) THEN h[s].held \cup {r} ELSE h[s].held
  <2>1. [h[s] EXCEPT !.todo = @ \ {r}, !.held = now] \in Handler
    BY <1>0 DEF Handler
  <2>2. h' = [h EXCEPT ![s] = [h[s] EXCEPT !.todo = @ \ {r}, !.held = now]]
    BY <1>7 DEF SendPartition, Handler
  <2> HIDE DEF now
  <2> QED
    BY <1>7, <2>1, <2>2 DEF SendPartition
<1>8. ASSUME NEW m \in Msgs, SendCommit(s, m) PROVE TypeOK'
  <2> DEFINE hs == [h[s] EXCEPT !.op = "spawn", !.todo = h[s].held, !.msg = m]
             rows == [r \in Principals |-> CASE r \in h[s].held -> "held"
                                             [] r \in h[s].audience \ h[s].held -> "failed"
                                             [] OTHER -> "none"]
  <2>1. hs \in Handler
    BY <1>0 DEF Handler, Ops
  <2>2. h' = [h EXCEPT ![s] = hs]
    BY <1>8 DEF SendCommit, Handler
  <2>3. rows \in [Principals -> AckState]
    BY DEF AckState
  <2>4. ack' = [ack EXCEPT ![m] = rows]
    BY <1>8 DEF SendCommit
  <2>5. /\ sent' = sent \cup {m}
        /\ UNCHANGED <<registry, task, sweeper, known, history>>
    BY <1>8 DEF SendCommit
  <2> HIDE DEF hs, rows
  <2> QED
    BY <2>1, <2>2, <2>3, <2>4, <2>5
<1>9. ASSUME NEW t \in Tasks, NEW r \in Principals, SendSpawn(s, t, r) PROVE TypeOK'
  <2>1. [h[s] EXCEPT !.todo = @ \ {r}] \in Handler
    BY <1>0 DEF Handler
  <2>2. task' \in [Tasks -> Task]
    BY <1>9, SpawnType DEF SendSpawn, Handler
  <2> QED
    BY <1>9, <2>1, <2>2 DEF SendSpawn
<1>10. CASE SendTap(s)
  <2> DEFINE names == {bound[x].principal : x \in {y \in Sessions : conn[y] = "open" /\ bound[y].admin}}
                        \ (h[s].audience \cup {bound[s].principal, None})
  <2>1. names \in SUBSET Principals
    OBVIOUS
  <2>2. [h[s] EXCEPT !.op = "tapping"] \in Handler
    BY <1>0 DEF Handler, Ops
  <2>3. WithTodo([h[s] EXCEPT !.op = "tapping"], names) \in Handler
    BY <2>1, <2>2, WithTodoType
  <2> QED
    BY <1>10, <2>3 DEF SendTap
<1>11. ASSUME NEW t \in Tasks, NEW r \in Principals, TapSpawn(s, t, r) PROVE TypeOK'
  <2>1. WithTodo(h[s], h[s].todo \ {r}) \in Handler
    BY WithTodoType DEF Handler
  <2>2. task' \in [Tasks -> Task]
    BY <1>11, SpawnType DEF TapSpawn, Handler
  <2> QED
    BY <1>11, <2>1, <2>2 DEF TapSpawn
<1> QED
  BY <1>1, <1>2, <1>3, <1>4, <1>5, <1>6, <1>7, <1>8, <1>9, <1>10, <1>11 DEF HandlerStep

\* The steps of a delivery task, its agent and its app-server keep the types.
LEMMA TaskStepType ==
  ASSUME TypeOK, NEW t \in Tasks, TaskStep(t) \/ AgentStep(t) \/ CodexOutcome(t)
  PROVE  TypeOK'
<1> USE DEF TypeOK, registry, sweeper, durable, history
<1>1. CASE TaskLookup(t)
  <2>1. ASSUME NEW x \in Sessions PROVE [task[t] EXCEPT !.phase = "found", !.sess = x] \in Task
    BY DEF Task, Phases
  <2>2. task' \in [Tasks -> Task]
    BY <1>1, <2>1, MovesType, ReportsType DEF TaskLookup, SessionsOf, Phases
  <2> QED
    BY <1>1, <2>2 DEF TaskLookup
<1>2. CASE TaskRoute(t)
  <2>1. task' \in [Tasks -> Task]
    BY <1>2, MovesType, ReportsType DEF TaskRoute, Phases
  <2> QED
    BY <1>2, <2>1 DEF TaskRoute
<1>3. CASE TaskTimeout(t)
  <2>1. task' \in [Tasks -> Task]
    BY <1>3, MovesType, ReportsType DEF TaskTimeout, Phases
  <2> QED
    BY <1>3, <2>1 DEF TaskTimeout
<1>4. CASE CodexCheck(t)
  <2>1. task' \in [Tasks -> Task]
    BY <1>4, MovesType, ReportsType DEF CodexCheck, Phases
  <2> QED
    BY <1>4, <2>1 DEF CodexCheck
<1>5. CASE TaskAck(t)
  <2>1. PICK w \in AckWrites : /\ Moves(t, w[1], w[3])
                              /\ ack' = ack_set(task[t].msg, task[t].rcpt, w[2])
    BY <1>5 DEF TaskAck
  <2>2. w[3] \in Phases /\ w[2] \in AckState
    BY DEF AckWrites, Phases, AckState
  <2>3. task' \in [Tasks -> Task]
    BY <2>1, <2>2, MovesType
  <2>4. ack' \in [Msgs -> [Principals -> AckState]]
    BY <2>1, <2>2, AckSetType
  <2> QED
    BY <1>5, <2>3, <2>4 DEF TaskAck
<1>6. CASE LateArrives(t)
  <2>1. task' \in [Tasks -> Task]
    BY <1>6, MovesType DEF LateArrives, Phases
  <2>2. handed' \in [Msgs -> [Principals -> Nat]]
    BY <1>6, GivenType DEF LateArrives
  <2> QED
    BY <1>6, <2>1, <2>2 DEF LateArrives
<1>7. CASE LateLost(t)
  <2>1. task' \in [Tasks -> Task]
    BY <1>7, MovesType, ReportsType DEF LateLost, Phases
  <2> QED
    BY <1>7, <2>1 DEF LateLost
<1>8. CASE AgentReceives(t)
  <2>1. task' \in [Tasks -> Task]
    BY <1>8, MovesType DEF AgentReceives, Phases
  <2>2. handed' \in [Msgs -> [Principals -> Nat]]
    BY <1>8, GivenType DEF AgentReceives
  <2> QED
    BY <1>8, <2>1, <2>2 DEF AgentReceives
<1>9. CASE AgentRefuses(t)
  <2>1. task' \in [Tasks -> Task]
    BY <1>9, ReportsType DEF AgentRefuses, Phases
  <2> QED
    BY <1>9, <2>1 DEF AgentRefuses
<1>10. CASE AgentReplies(t)
  <2>1. task' \in [Tasks -> Task]
    BY <1>10, ReportsType DEF AgentReplies, Phases
  <2> QED
    BY <1>10, <2>1 DEF AgentReplies
<1>11. CASE CodexUnreachable(t)
  <2>1. task' \in [Tasks -> Task]
    BY <1>11, ReportsType DEF CodexUnreachable, Phases
  <2> QED
    BY <1>11, <2>1 DEF CodexUnreachable
<1>12. CASE CodexInject(t)
  <2>1. task' \in [Tasks -> Task]
    BY <1>12, MovesType DEF CodexInject, Phases
  <2>2. handed' \in [Msgs -> [Principals -> Nat]]
    BY <1>12, GivenType DEF CodexInject
  <2> QED
    BY <1>12, <2>1, <2>2 DEF CodexInject
<1>13. CASE CodexFailed(t)
  <2>1. task' \in [Tasks -> Task]
    BY <1>13, MovesType, ReportsType DEF CodexFailed, Phases
  <2> QED
    BY <1>13, <2>1 DEF CodexFailed
<1>14. CASE CodexProcessed(t)
  <2>1. task' \in [Tasks -> Task]
    BY <1>14, ReportsType DEF CodexProcessed, Phases
  <2> QED
    BY <1>14, <2>1 DEF CodexProcessed
<1> QED
  BY <1>1, <1>2, <1>3, <1>4, <1>5, <1>6, <1>7, <1>8, <1>9, <1>10, <1>11, <1>12, <1>13, <1>14 DEF TaskStep, AgentStep, CodexOutcome

\* The restart sweep keeps the types.
LEMMA GraceStepType ==
  ASSUME TypeOK, GraceStep
  PROVE  TypeOK'
<1> USE DEF TypeOK, registry, sweeper, durable, history
<1>1. CASE GraceRead
  BY <1>1 DEF GraceRead, held_all
<1>2. ASSUME NEW p \in Msgs \X Principals, GraceCheck(p) PROVE TypeOK'
  BY <1>2 DEF GraceCheck
<1>3. ASSUME NEW p \in Msgs \X Principals, GraceFail(p) PROVE TypeOK'
  <2>1. ack_set(p[1], p[2], "failed") \in [Msgs -> [Principals -> AckState]]
    BY AckSetType DEF AckState
  <2> QED
    BY <1>3, <2>1 DEF GraceFail
<1> QED
  BY <1>1, <1>2, <1>3 DEF GraceStep

\* A failing store operation keeps the types.
LEMMA FaultType ==
  ASSUME TypeOK, Fault
  PROVE  TypeOK'
<1> USE DEF TypeOK, registry, sweeper, durable, history
<1>1. ASSUME NEW s \in Sessions, RegisterPersistFails(s) PROVE TypeOK'
  BY <1>1, IdleType DEF RegisterPersistFails, StoreFault, Unbound
<1>2. ASSUME NEW s \in Sessions, DrainReadFails(s) PROVE TypeOK'
  BY <1>2, IdleType DEF DrainReadFails, StoreFault
<1>3. ASSUME NEW s \in Sessions, SweepReadFails(s) PROVE TypeOK'
  BY <1>3, IdleType DEF SweepReadFails, StoreFault
<1>4. ASSUME NEW s \in Sessions, SendCommitFails(s) PROVE TypeOK'
  BY <1>4, IdleType DEF SendCommitFails, StoreFault
<1>5. ASSUME NEW t \in Tasks, TaskAckFails(t) PROVE TypeOK'
  <2>1. PICK w \in AckWrites : Moves(t, w[1], w[3])
    BY <1>5 DEF TaskAckFails
  <2>2. w[3] \in Phases
    BY DEF AckWrites, Phases
  <2>3. task' \in [Tasks -> Task]
    BY <2>1, <2>2, MovesType
  <2> QED
    BY <1>5, <2>3 DEF TaskAckFails, StoreFault
<1>6. CASE GraceReadFails \/ GraceAckFails
  BY <1>6 DEF GraceReadFails, GraceAckFails, StoreFault
<1>7. ASSUME NEW s \in Sessions, NEW m \in Msgs, DrainSkips(s, m) PROVE TypeOK'
  <2>1. WithRecs("draining", h[s].recs \ {m}) \in Handler
    BY WithRecsType DEF Handler, Ops
  <2> QED
    BY <1>7, <2>1 DEF DrainSkips, StoreFault
<1>8. ASSUME NEW s \in Sessions, NEW m \in Msgs, SweepAckFails(s, m) PROVE TypeOK'
  <2>1. WithRecs("sweeping", h[s].recs \ {m}) \in Handler
    BY WithRecsType DEF Handler, Ops
  <2> QED
    BY <1>8, <2>1 DEF SweepAckFails, StoreFault
<1> QED
  BY <1>1, <1>2, <1>3, <1>4, <1>5, <1>6, <1>7, <1>8 DEF Fault

\* A restart keeps the types.
LEMMA RestartType == ASSUME TypeOK, Restart PROVE TypeOK'
BY IdleType, FreeType DEF TypeOK, Restart, Unbound, durable

\* Every step keeps the types.
LEMMA TypeStep == TypeOK /\ RegistryInv /\ [Next]_vars => TypeOK'
<1> SUFFICES ASSUME TypeOK, RegistryInv, [Next]_vars PROVE TypeOK'
  OBVIOUS
<1>1. CASE Next
  BY <1>1, RequestType, HandlerStepType, TaskStepType, GraceStepType, FaultType, RestartType
     DEF Next
<1>2. CASE UNCHANGED vars
  BY <1>2 DEF TypeOK, vars, registry, sweeper, durable, history
<1> QED
  BY <1>1, <1>2

-----------------------------------------------------------------------------
(* claim_lock keeps the bindings apart *)

\* A step that leaves the registry alone and moves no handler to bind or to
\* persist keeps RegistryInv and UniqueClaim.
LEMMA RegistryQuiet ==
  ASSUME TypeOK, RegistryInv, UniqueClaim, UNCHANGED registry,
         \A x \in Sessions : h'[x].op \in {"bind", "persist"} => h'[x] = h[x]
  PROVE  RegistryInv' /\ UniqueClaim'
BY DEF RegistryInv, UniqueClaim, registry, principal_active, SessionsOf

\* A handler that goes on with records or names is not at bind or persist.
LEMMA WithOp ==
  /\ \A recs : /\ WithRecs("draining", recs).op \notin {"bind", "persist"}
               /\ WithRecs("sweeping", recs).op \notin {"bind", "persist"}
  /\ \A hs \in Handler : \A todo :
       hs.op \notin {"bind", "persist"} => WithTodo(hs, todo).op \notin {"bind", "persist"}
BY DEF WithRecs, WithTodo, Idle, Handler

\* The steps a client asks for keep both: register finds the name free while it
\* holds claim_lock, and attach brings only unbound sessions.
LEMMA RequestClaims ==
  ASSUME TypeOK, RegistryInv, UniqueClaim, NEW s \in Sessions, Request(s)
  PROVE  RegistryInv' /\ UniqueClaim'
<1>1. CASE attach(s)
  <2>1. /\ bound[s].principal = None
        /\ conn'[s] = "open"
        /\ \A x \in Sessions : x # s => conn'[x] = conn[x]
        /\ UNCHANGED <<bound, claimLock, h>>
    BY <1>1 DEF attach, TypeOK, RegistryInv
  <2>2. RegistryInv'
    BY <2>1, NoneAssumption DEF RegistryInv, principal_active, SessionsOf
  <2>3. UniqueClaim'
    BY <2>1 DEF UniqueClaim
  <2> QED
    BY <2>2, <2>3
<1>2. ASSUME NEW reg \in Registrations, RegisterClaim(s, reg) PROVE RegistryInv' /\ UniqueClaim'
  <2>1. /\ h'[s].op = "bind" /\ h'[s].name = reg.name
        /\ \A x \in Sessions : x # s => h'[x] = h[x]
    BY <1>2 DEF RegisterClaim, Idle, TypeOK
  <2>2. reg.name \in Principals
    BY RegistrationsAssumption
  <2>3. /\ UNCHANGED <<conn, bound>>
        /\ claimLock = None /\ claimLock' = s
        /\ ~principal_active(reg.name)
    BY <1>2 DEF RegisterClaim
  <2> QED
    BY <2>1, <2>2, <2>3, NoneAssumption
       DEF RegistryInv, UniqueClaim, principal_active, SessionsOf
<1>3. CASE deregister(s)
  <2>1. /\ h[s].op = "idle"
        /\ bound'[s].principal = None /\ ~bound'[s].admin
        /\ \A x \in Sessions : x # s => bound'[x] = bound[x]
        /\ UNCHANGED <<conn, claimLock, h>>
    BY <1>3 DEF deregister, Unbound, At, TypeOK
  <2>2. RegistryInv'
    BY <2>1, NoneAssumption DEF RegistryInv, principal_active, SessionsOf
  <2>3. UniqueClaim'
    BY <2>1 DEF UniqueClaim
  <2> QED
    BY <2>2, <2>3
<1>4. CASE DetachRemove(s)
  <2>1. \A x \in Sessions : h'[x].op \in {"bind", "persist"} => h'[x] = h[x]
    BY <1>4 DEF DetachRemove, Idle, TypeOK
  <2> QED
    BY <1>4, <2>1 DEF DetachRemove, TypeOK, RegistryInv, UniqueClaim, principal_active, SessionsOf
<1>5. ASSUME NEW audience \in Audiences, SendResolve(s, audience) PROVE RegistryInv' /\ UniqueClaim'
  <2>1. \A x \in Sessions : h'[x].op \in {"bind", "persist"} => h'[x] = h[x]
    BY <1>5 DEF SendResolve, Idle, TypeOK
  <2> QED
    BY <1>5, <2>1, RegistryQuiet DEF SendResolve
<1>6. ASSUME NEW m \in Msgs, handle_notification(s, m) PROVE RegistryInv' /\ UniqueClaim'
  BY <1>6, RegistryQuiet DEF handle_notification
<1> QED
  BY <1>1, <1>2, <1>3, <1>4, <1>5, <1>6 DEF Request

\* The bind keeps both because its session still holds claim_lock; no other
\* step of a handler touches the registry.
LEMMA HandlerStepClaims ==
  ASSUME TypeOK, RegistryInv, UniqueClaim, NEW s \in Sessions, HandlerStep(s)
  PROVE  RegistryInv' /\ UniqueClaim'
<1> DEFINE Quiet == \A x \in Sessions : h'[x].op \in {"bind", "persist"} => h'[x] = h[x]
<1>1. CASE RegisterBind(s)
  <2>1. /\ h'[s].op = "persist"
        /\ \A x \in Sessions : x # s => h'[x] = h[x]
        /\ UNCHANGED conn /\ conn[s] = "open"
    BY <1>1 DEF RegisterBind, At, Idle, TypeOK
  <2>2. /\ bound'[s].principal = h[s].name
        /\ \A x \in Sessions : x # s => bound'[x] = bound[x]
    BY <1>1 DEF RegisterBind, TypeOK
  <2>3. claimLock = s /\ h[s].name \in Principals /\ ~principal_active(h[s].name)
    BY <1>1 DEF RegisterBind, At, RegistryInv
  <2>4. \A x \in Sessions : x # s => h'[x].op # "bind"
    BY <2>1, <2>3 DEF RegistryInv
  <2>5. RegistryInv'
    BY <2>1, <2>2, <2>3, <2>4, NoneAssumption DEF RegistryInv
  <2>6. UniqueClaim'
    BY <2>1, <2>2, <2>3 DEF UniqueClaim, principal_active, SessionsOf
  <2> QED
    BY <2>5, <2>6
<1>2. CASE RegisterPersist(s)
  <2>1. Quiet
    BY <1>2 DEF RegisterPersist, Idle, TypeOK
  <2> QED
    BY <1>2, <2>1, RegistryQuiet DEF RegisterPersist, registry
<1>3. CASE DrainRead(s)
  <2>1. Quiet
    BY <1>3, WithOp DEF DrainRead, TypeOK
  <2> QED
    BY <1>3, <2>1, RegistryQuiet DEF DrainRead, registry
<1>4. ASSUME NEW t \in Tasks, NEW m \in Msgs, DrainSpawn(s, t, m) PROVE RegistryInv' /\ UniqueClaim'
  <2>1. Quiet
    BY <1>4, WithOp DEF DrainSpawn, TypeOK
  <2> QED
    BY <1>4, <2>1, RegistryQuiet DEF DrainSpawn, registry
<1>5. CASE SweepRead(s)
  <2>1. Quiet
    BY <1>5, WithOp DEF SweepRead, TypeOK
  <2> QED
    BY <1>5, <2>1, RegistryQuiet DEF SweepRead, registry
<1>6. ASSUME NEW m \in Msgs, SweepFail(s, m) PROVE RegistryInv' /\ UniqueClaim'
  <2>1. Quiet
    BY <1>6, WithOp DEF SweepFail, TypeOK
  <2> QED
    BY <1>6, <2>1, RegistryQuiet DEF SweepFail, registry
<1>7. ASSUME NEW r \in Principals, SendPartition(s, r) PROVE RegistryInv' /\ UniqueClaim'
  <2>1. Quiet
    BY <1>7 DEF SendPartition, At, Handler, TypeOK
  <2> QED
    BY <1>7, <2>1, RegistryQuiet DEF SendPartition, registry
<1>8. ASSUME NEW m \in Msgs, SendCommit(s, m) PROVE RegistryInv' /\ UniqueClaim'
  <2>1. Quiet
    BY <1>8 DEF SendCommit, Handler, TypeOK
  <2> QED
    BY <1>8, <2>1, RegistryQuiet DEF SendCommit, registry
<1>9. ASSUME NEW t \in Tasks, NEW r \in Principals, SendSpawn(s, t, r) PROVE RegistryInv' /\ UniqueClaim'
  <2>1. Quiet
    BY <1>9 DEF SendSpawn, At, Handler, TypeOK
  <2> QED
    BY <1>9, <2>1, RegistryQuiet DEF SendSpawn, registry
<1>10. CASE SendTap(s)
  <2>0. h[s] \in Handler
    BY DEF TypeOK
  <2>1. [h[s] EXCEPT !.op = "tapping"] \in Handler
    BY <2>0 DEF Handler, Ops
  <2>2. [h[s] EXCEPT !.op = "tapping"].op = "tapping"
    BY DEF TypeOK, Handler
  <2>3. h'[s].op \notin {"bind", "persist"}
    BY <1>10, <2>1, <2>2, WithOp DEF SendTap, TypeOK
  <2>4. Quiet
    BY <1>10, <2>3 DEF SendTap, TypeOK
  <2> QED
    BY <1>10, <2>4, RegistryQuiet DEF SendTap, registry
<1>11. ASSUME NEW t \in Tasks, NEW r \in Principals, TapSpawn(s, t, r) PROVE RegistryInv' /\ UniqueClaim'
  <2>1. Quiet
    BY <1>11, WithOp DEF TapSpawn, At, Handler, TypeOK
  <2> QED
    BY <1>11, <2>1, RegistryQuiet DEF TapSpawn, registry
<1> QED
  BY <1>1, <1>2, <1>3, <1>4, <1>5, <1>6, <1>7, <1>8, <1>9, <1>10, <1>11 DEF HandlerStep

\* Tasks and the restart sweep run beside the registry and the handlers.
LEMMA BackgroundFrame ==
  ASSUME \/ \E t \in Tasks : TaskStep(t) \/ AgentStep(t) \/ CodexOutcome(t)
         \/ GraceStep
  PROVE  UNCHANGED <<registry, h>>
BY DEF TaskStep, AgentStep, CodexOutcome, GraceStep, TaskLookup, TaskRoute, TaskTimeout,
       CodexCheck, TaskAck, LateArrives, LateLost, AgentReceives, AgentRefuses,
       AgentReplies, CodexUnreachable, CodexInject, CodexFailed, CodexProcessed,
       GraceRead, GraceCheck, GraceFail

\* A failing store operation keeps both: the binding whose row cannot be
\* written is taken back.
LEMMA FaultClaims ==
  ASSUME TypeOK, RegistryInv, UniqueClaim, Fault
  PROVE  RegistryInv' /\ UniqueClaim'
<1>1. ASSUME NEW s \in Sessions, RegisterPersistFails(s) PROVE RegistryInv' /\ UniqueClaim'
  <2>1. /\ h'[s].op = "idle"
        /\ \A x \in Sessions : x # s => h'[x] = h[x]
        /\ bound'[s].principal = None /\ ~bound'[s].admin
        /\ \A x \in Sessions : x # s => bound'[x] = bound[x]
        /\ UNCHANGED <<conn, claimLock>>
    BY <1>1 DEF RegisterPersistFails, Unbound, Idle, TypeOK
  <2>2. RegistryInv'
    BY <2>1, NoneAssumption DEF RegistryInv, principal_active, SessionsOf
  <2>3. UniqueClaim'
    BY <2>1 DEF UniqueClaim
  <2> QED
    BY <2>2, <2>3
<1>2. ASSUME NEW s \in Sessions, DrainReadFails(s) \/ SweepReadFails(s) \/ SendCommitFails(s)
      PROVE  RegistryInv' /\ UniqueClaim'
  <2>1. \A x \in Sessions : h'[x].op \in {"bind", "persist"} => h'[x] = h[x]
    BY <1>2 DEF DrainReadFails, SweepReadFails, SendCommitFails, Idle, TypeOK
  <2> QED
    BY <1>2, <2>1, RegistryQuiet DEF DrainReadFails, SweepReadFails, SendCommitFails
<1>3. ASSUME NEW s \in Sessions, NEW m \in Msgs, DrainSkips(s, m) \/ SweepAckFails(s, m)
      PROVE  RegistryInv' /\ UniqueClaim'
  <2>1. \A x \in Sessions : h'[x].op \in {"bind", "persist"} => h'[x] = h[x]
    BY <1>3, WithOp DEF DrainSkips, SweepAckFails, TypeOK
  <2> QED
    BY <1>3, <2>1, RegistryQuiet DEF DrainSkips, SweepAckFails
<1>4. ASSUME (\E t \in Tasks : TaskAckFails(t)) \/ GraceReadFails \/ GraceAckFails
      PROVE  RegistryInv' /\ UniqueClaim'
  BY <1>4, RegistryQuiet DEF TaskAckFails, GraceReadFails, GraceAckFails
<1> QED
  BY <1>1, <1>2, <1>3, <1>4 DEF Fault

\* Init and every step keep the types, RegistryInv and UniqueClaim.
LEMMA RegistryInductive ==
  /\ Init => TypeOK /\ RegistryInv /\ UniqueClaim
  /\ TypeOK /\ RegistryInv /\ UniqueClaim /\ [Next]_vars => (TypeOK /\ RegistryInv /\ UniqueClaim)'
<1>1. Init => TypeOK /\ RegistryInv /\ UniqueClaim
  <2> SUFFICES ASSUME Init PROVE TypeOK /\ RegistryInv /\ UniqueClaim
    OBVIOUS
  <2>1. TypeOK
    BY IdleType, FreeType DEF Init, TypeOK, Unbound, AckState
  <2>2. RegistryInv /\ UniqueClaim
    BY DEF Init, RegistryInv, UniqueClaim, Unbound, Idle
  <2> QED
    BY <2>1, <2>2
<1>2. ASSUME TypeOK, RegistryInv, UniqueClaim, [Next]_vars
      PROVE  (TypeOK /\ RegistryInv /\ UniqueClaim)'
  <2>1. TypeOK'
    BY <1>2, TypeStep
  <2>2. CASE \E s \in Sessions : Request(s) \/ HandlerStep(s)
    BY <1>2, <2>1, <2>2, RequestClaims, HandlerStepClaims
  <2>3. CASE \/ \E t \in Tasks : TaskStep(t) \/ AgentStep(t) \/ CodexOutcome(t)
             \/ GraceStep
    BY <1>2, <2>1, <2>3, BackgroundFrame, RegistryQuiet
  <2>4. CASE Fault
    BY <1>2, <2>1, <2>4, FaultClaims
  <2>5. CASE Restart
    BY <2>1, <2>5 DEF Restart, Unbound, Idle, RegistryInv, UniqueClaim
  <2>6. CASE UNCHANGED vars
    BY <1>2, <2>1, <2>6, RegistryQuiet DEF vars
  <2> QED
    BY <1>2, <2>2, <2>3, <2>4, <2>5, <2>6 DEF Next
<1> QED
  BY <1>1, <1>2

\* The tables and tasks keep their types.  The theorem needs the registry's
\* invariant: a row of the principals table is written only for a session that
\* is bound.
THEOREM TypeCorrect == Spec => []TypeOK
BY RegistryInductive, PTL DEF Spec

\* The registry's invariant holds in every state.
THEOREM RegistryCorrect == Spec => []RegistryInv
BY RegistryInductive, PTL DEF Spec

\* claim_lock does its work: no two attached sessions hold one name, for any
\* number of sessions, registrations, store failures and restarts.
THEOREM ClaimUnique == Spec => []UniqueClaim
BY RegistryInductive, PTL DEF Spec

-----------------------------------------------------------------------------
(* A binding has its row *)

\* Only while its registration is being persisted may a session hold a name
\* that has no row.
KnownInv ==
  \A s \in Sessions : h[s].op # "persist" => bound[s].principal \in known \cup {None}

\* A step that keeps the bindings and moves no handler out of persist keeps
\* KnownInv.
LEMMA KnownQuiet ==
  ASSUME KnownInv, UNCHANGED <<bound, known>>,
         \A x \in Sessions : h[x].op = "persist" => h'[x] = h[x]
  PROVE  KnownInv'
BY DEF KnownInv

\* Init and every step keep KnownInv.
LEMMA KnownInductive ==
  /\ Init => KnownInv
  /\ TypeOK /\ KnownInv /\ [Next]_vars => KnownInv'
<1>1. Init => KnownInv
  BY DEF Init, KnownInv, Unbound
<1>2. ASSUME TypeOK, KnownInv, [Next]_vars PROVE KnownInv'
  <2> USE DEF TypeOK, registry, durable
  <2>1. ASSUME NEW s \in Sessions, Request(s) PROVE KnownInv'
    <3>1. CASE deregister(s)
      BY <1>2, <3>1 DEF deregister, Unbound, KnownInv
    <3>2. CASE UNCHANGED <<bound, known>> /\ \A x \in Sessions : h[x].op = "persist" => h'[x] = h[x]
      BY <1>2, <3>2, KnownQuiet
    <3> QED
      BY <1>2, <2>1, <3>1, <3>2 DEF Request, attach, RegisterClaim, DetachRemove, SendResolve,
                                    handle_notification, At
  <2>2. ASSUME NEW s \in Sessions, HandlerStep(s) PROVE KnownInv'
    <3>1. CASE RegisterBind(s)
      <4>1. /\ h'[s].op = "persist"
            /\ \A x \in Sessions : x # s => h'[x] = h[x] /\ bound'[x] = bound[x]
            /\ UNCHANGED known
        BY <1>2, <3>1 DEF RegisterBind, Idle
      <4> QED
        BY <1>2, <4>1 DEF KnownInv
    <3>2. CASE RegisterPersist(s)
      <4>1. /\ \A x \in Sessions : x # s => h'[x] = h[x]
            /\ UNCHANGED bound
            /\ known' = known \cup {bound[s].principal}
        BY <1>2, <3>2 DEF RegisterPersist
      <4> QED
        BY <1>2, <4>1 DEF KnownInv
    <3>3. CASE UNCHANGED <<bound, known>> /\ \A x \in Sessions : h[x].op = "persist" => h'[x] = h[x]
      BY <1>2, <3>3, KnownQuiet
    <3> QED
      BY <1>2, <2>2, <3>1, <3>2, <3>3
         DEF HandlerStep, DrainRead, DrainSpawn, SweepRead, SweepFail, SendPartition,
             SendCommit, SendSpawn, SendTap, TapSpawn, At
  <2>3. CASE \/ \E t \in Tasks : TaskStep(t) \/ AgentStep(t) \/ CodexOutcome(t)
             \/ GraceStep
    <3>1. UNCHANGED known
      BY <2>3 DEF TaskStep, AgentStep, CodexOutcome, GraceStep, TaskLookup, TaskRoute,
                  TaskTimeout, CodexCheck, TaskAck, LateArrives, LateLost, AgentReceives,
                  AgentRefuses, AgentReplies, CodexUnreachable, CodexInject, CodexFailed,
                  CodexProcessed, GraceRead, GraceCheck, GraceFail
    <3> QED
      BY <1>2, <2>3, <3>1, BackgroundFrame, KnownQuiet
  <2>4. CASE Fault
    <3>1. ASSUME NEW s \in Sessions, RegisterPersistFails(s) PROVE KnownInv'
      BY <1>2, <3>1 DEF RegisterPersistFails, Unbound, KnownInv
    <3>2. CASE UNCHANGED <<bound, known>> /\ \A x \in Sessions : h[x].op = "persist" => h'[x] = h[x]
      BY <1>2, <3>2, KnownQuiet
    <3> QED
      BY <1>2, <2>4, <3>1, <3>2 DEF Fault, DrainReadFails, SweepReadFails, SendCommitFails,
                                    DrainSkips, SweepAckFails, TaskAckFails, GraceReadFails,
                                    GraceAckFails, At
  <2>5. CASE Restart
    BY <2>5 DEF Restart, Unbound, KnownInv
  <2>6. CASE UNCHANGED vars
    BY <1>2, <2>6, KnownQuiet DEF vars
  <2> QED
    BY <1>2, <2>1, <2>2, <2>3, <2>4, <2>5, <2>6 DEF Next
<1> QED
  BY <1>1, <1>2

\* A registration that cannot be persisted leaves no binding behind: a session
\* between requests is bound only to a principal that has its row.
THEOREM BindingIsKnown == Spec => []BoundIsKnown
<1>1. KnownInv => BoundIsKnown
  BY DEF KnownInv, BoundIsKnown
<1> QED
  BY <1>1, KnownInductive, TypeCorrect, PTL DEF Spec

-----------------------------------------------------------------------------
(***************************************************************************)
(* Acknowledgments: they are truthful, and the acks table of Delivery      *)
(* behaves as AckLifecycle says.                                           *)
(***************************************************************************)

\* Phases a task reaches only after its agent was given the message.
GivenPhases == {"received", "turn", "relayed", "completed", "processed"}

\* A task in one of them is about a message its recipient was given.
GivenInv ==
  \A t \in Tasks, m \in Msgs, r \in Principals :
    task[t].msg = m /\ task[t].rcpt = r /\ task[t].phase \in GivenPhases => handed[m][r] > 0

\* Rows exist only for stored messages.
RowsInv == \A m \in Msgs, r \in Principals : ack[m][r] # "none" => m \in sent

\* No hand-over is forgotten.
HandedGrows == \A m \in Msgs, r \in Principals : handed'[m][r] >= handed[m][r]

-----------------------------------------------------------------------------
(* Hand-overs *)

\* Counting one hand-over forgets none, and counts this one.
LEMMA GivenGrows ==
  ASSUME TypeOK, NEW t \in Tasks, Given(t)
  PROVE  /\ HandedGrows
         /\ \A m \in Msgs, r \in Principals :
              task[t].msg = m /\ task[t].rcpt = r => handed'[m][r] > 0
<1> SUFFICES ASSUME NEW m \in Msgs, NEW r \in Principals
             PROVE  /\ handed'[m][r] >= handed[m][r]
                    /\ task[t].msg = m /\ task[t].rcpt = r => handed'[m][r] > 0
  BY DEF HandedGrows
<1>1. handed[m][r] \in Nat
  BY DEF TypeOK
<1>2. CASE task[t].msg = m /\ task[t].rcpt = r
  <2>1. handed'[m][r] = handed[m][r] + 1
    BY <1>2 DEF Given, TypeOK
  <2> QED
    BY <1>1, <2>1
<1>3. CASE ~(task[t].msg = m /\ task[t].rcpt = r)
  <2>1. handed'[m][r] = handed[m][r]
    BY <1>3 DEF Given, TypeOK
  <2> QED
    BY <1>1, <1>3, <2>1
<1> QED
  BY <1>2, <1>3

\* Counters that do not change forget nothing.
LEMMA SameGrows == ASSUME TypeOK, UNCHANGED handed PROVE HandedGrows
<1> SUFFICES ASSUME NEW m \in Msgs, NEW r \in Principals PROVE handed[m][r] >= handed[m][r]
  BY DEF HandedGrows
<1>1. handed[m][r] \in Nat
  BY DEF TypeOK
<1> QED
  BY <1>1

\* A counter above zero stays above zero.
LEMMA StaysGiven ==
  ASSUME TypeOK, TypeOK', HandedGrows, NEW m \in Msgs, NEW r \in Principals, handed[m][r] > 0
  PROVE  handed'[m][r] > 0
<1>1. handed[m][r] \in Nat /\ handed'[m][r] \in Nat
  BY DEF TypeOK
<1> QED
  BY <1>1 DEF HandedGrows

\* A move into a phase after the hand-over comes from one, or counts a hand-over.
LEMMA MovesGiven ==
  ASSUME TypeOK, TypeOK', GivenInv, HandedGrows,
         NEW t \in Tasks, NEW from, NEW to, Moves(t, from, to),
         to \in GivenPhases => from \in GivenPhases \/ Given(t)
  PROVE  GivenInv'
<1> SUFFICES ASSUME NEW x \in Tasks, NEW m \in Msgs, NEW r \in Principals,
                    task'[x].msg = m, task'[x].rcpt = r, task'[x].phase \in GivenPhases
             PROVE  handed'[m][r] > 0
  BY DEF GivenInv
<1>1. CASE x # t
  <2>1. task'[x] = task[x]
    BY <1>1 DEF Moves, TypeOK
  <2> QED
    BY <2>1, StaysGiven DEF GivenInv
<1>2. CASE x = t
  <2>1. task'[t] # Free
    BY <1>2 DEF Free, GivenPhases
  <2>2. task'[t] = [task[t] EXCEPT !.phase = to] /\ task[t].phase = from
    BY <2>1 DEF Moves, TypeOK
  <2>3. task[t].msg = m /\ task[t].rcpt = r /\ to \in GivenPhases
    BY <1>2, <2>2 DEF TypeOK, Task
  <2>4. CASE from \in GivenPhases
    BY <2>2, <2>3, <2>4, StaysGiven DEF GivenInv
  <2>5. CASE Given(t)
    BY <2>3, <2>5, GivenGrows
  <2> QED
    BY <2>3, <2>4, <2>5
<1> QED
  BY <1>1, <1>2

\* Tasks that do not change keep GivenInv.
LEMMA SameGiven ==
  ASSUME TypeOK, TypeOK', GivenInv, UNCHANGED task, HandedGrows
  PROVE  GivenInv'
BY StaysGiven DEF GivenInv

\* A fresh task has been given to nobody.
LEMMA SpawnGiven ==
  ASSUME TypeOK, TypeOK', GivenInv, HandedGrows,
         NEW t \in Tasks, NEW r, NEW m, NEW tracked, spawn_deliver(t, r, m, tracked)
  PROVE  GivenInv'
<1>1. task'[t].phase = "start" /\ \A x \in Tasks : x # t => task'[x] = task[x]
  BY DEF spawn_deliver, TypeOK
<1> QED
  BY <1>1, StaysGiven DEF GivenInv, GivenPhases

\* Every step counts hand-overs truthfully.
LEMMA GivenStep ==
  ASSUME TypeOK, TypeOK', GivenInv, [Next]_vars
  PROVE  HandedGrows /\ GivenInv'
<1> USE DEF history
<1>1. ASSUME NEW s \in Sessions, Request(s) PROVE HandedGrows /\ GivenInv'
  <2>1. UNCHANGED <<task, handed>>
    BY <1>1 DEF Request, attach, RegisterClaim, deregister, DetachRemove, SendResolve,
                handle_notification
  <2> QED
    BY <2>1, SameGrows, SameGiven
<1>2. ASSUME NEW s \in Sessions, HandlerStep(s) PROVE HandedGrows /\ GivenInv'
  <2>1. /\ UNCHANGED handed
        /\ \/ UNCHANGED task
           \/ \E t \in Tasks : \E r, m, tracked : spawn_deliver(t, r, m, tracked)
    BY <1>2 DEF HandlerStep, RegisterBind, RegisterPersist, DrainRead, DrainSpawn, SweepRead,
                SweepFail, SendPartition, SendCommit, SendSpawn, SendTap, TapSpawn
  <2>2. HandedGrows
    BY <2>1, SameGrows
  <2> QED
    BY <2>1, <2>2, SameGiven, SpawnGiven
<1>3. ASSUME NEW t \in Tasks, TaskStep(t) \/ AgentStep(t) \/ CodexOutcome(t)
      PROVE  HandedGrows /\ GivenInv'
  <2>1. HandedGrows
    <3>1. UNCHANGED handed \/ Given(t)
      BY <1>3 DEF TaskStep, AgentStep, CodexOutcome, TaskLookup, TaskRoute, TaskTimeout,
                  CodexCheck, TaskAck, LateArrives, LateLost, AgentReceives, AgentRefuses,
                  AgentReplies, CodexUnreachable, CodexInject, CodexFailed, CodexProcessed
    <3> QED
      BY <3>1, SameGrows, GivenGrows
  <2>2. CASE TaskLookup(t)
    <3>1. CASE Moves(t, "start", AckPhase(t, "failed"))
      BY <2>1, <3>1, MovesGiven DEF AckPhase, GivenPhases
    <3>2. CASE \E x \in Sessions : task' = [task EXCEPT ![t].phase = "found", ![t].sess = x]
      <4>1. /\ task'[t].phase = "found"
            /\ \A x \in Tasks : x # t => task'[x] = task[x]
        BY <3>2 DEF TypeOK, Task
      <4> QED
        BY <2>1, <4>1, StaysGiven DEF GivenInv, GivenPhases
    <3> QED
      BY <2>2, <3>1, <3>2 DEF TaskLookup, SessionsOf
  <2>3. CASE \/ TaskRoute(t) \/ TaskTimeout(t) \/ CodexCheck(t) \/ LateArrives(t)
             \/ LateLost(t) \/ AgentRefuses(t) \/ CodexUnreachable(t) \/ CodexFailed(t)
    <3>1. \E from, to : Moves(t, from, to) /\ to \notin GivenPhases
      BY <2>3 DEF TaskRoute, TaskTimeout, CodexCheck, LateArrives, LateLost, AgentRefuses,
                  CodexUnreachable, CodexFailed, AckPhase, GivenPhases
    <3> QED
      BY <2>1, <3>1, MovesGiven
  <2>4. CASE AgentReceives(t) \/ CodexInject(t) \/ AgentReplies(t) \/ CodexProcessed(t)
    <3>1. \E from, to : /\ Moves(t, from, to)
                        /\ to \in GivenPhases => from \in GivenPhases \/ Given(t)
      BY <2>4 DEF AgentReceives, CodexInject, AgentReplies, CodexProcessed, GivenPhases
    <3> QED
      BY <2>1, <3>1, MovesGiven
  <2>5. CASE TaskAck(t)
    <3>1. \E w \in AckWrites : Moves(t, w[1], w[3])
      BY <2>5 DEF TaskAck
    <3>2. \A w \in AckWrites : w[3] \in GivenPhases => w[1] \in GivenPhases
      BY DEF AckWrites, GivenPhases
    <3> QED
      BY <2>1, <3>1, <3>2, MovesGiven
  <2> QED
    BY <1>3, <2>1, <2>2, <2>3, <2>4, <2>5 DEF TaskStep, AgentStep, CodexOutcome
<1>4. CASE GraceStep
  <2>1. UNCHANGED <<task, handed>>
    BY <1>4 DEF GraceStep, GraceRead, GraceCheck, GraceFail
  <2> QED
    BY <2>1, SameGrows, SameGiven
<1>5. CASE Fault
  <2>1. UNCHANGED handed
    BY <1>5 DEF Fault, RegisterPersistFails, DrainReadFails, SweepReadFails, SendCommitFails,
                DrainSkips, SweepAckFails, TaskAckFails, GraceReadFails, GraceAckFails
  <2>2. HandedGrows
    BY <2>1, SameGrows
  <2>3. ASSUME NEW t \in Tasks, TaskAckFails(t) PROVE GivenInv'
    <3>1. \E w \in AckWrites : Moves(t, w[1], w[3])
      BY <2>3 DEF TaskAckFails
    <3>2. \A w \in AckWrites : w[3] \in GivenPhases => w[1] \in GivenPhases
      BY DEF AckWrites, GivenPhases
    <3> QED
      BY <2>2, <3>1, <3>2, MovesGiven
  <2>4. CASE UNCHANGED task
    BY <2>2, <2>4, SameGiven
  <2> QED
    BY <1>5, <2>2, <2>3, <2>4 DEF Fault, RegisterPersistFails, DrainReadFails, SweepReadFails,
                                  SendCommitFails, DrainSkips, SweepAckFails,
                                  GraceReadFails, GraceAckFails
<1>6. CASE Restart
  <2>1. HandedGrows
    BY <1>6, SameGrows DEF Restart
  <2> QED
    BY <1>6, <2>1 DEF Restart, Free, GivenInv, GivenPhases
<1>7. CASE UNCHANGED vars
  BY <1>7, SameGrows, SameGiven DEF vars
<1> QED
  BY <1>1, <1>2, <1>3, <1>4, <1>5, <1>6, <1>7 DEF Next

-----------------------------------------------------------------------------
(* What a step does to the acks table *)

\* A message appears with its rows.
Posts(m) ==
  /\ m \notin sent
  /\ sent' = sent \cup {m}
  /\ \E rows \in [Principals -> {"none", "held", "failed"}] : ack' = [ack EXCEPT ![m] = rows]

\* One ack_set, truthful about the hand-over.
Stores(m, r, st) ==
  /\ UNCHANGED sent
  /\ ack' = ack_set(m, r, st)
  /\ \/ st = "failed"
     \/ /\ st \in {"relayed", "processed"}
        /\ m \in Msgs /\ r \in Principals => handed[m][r] > 0

\* A step leaves the table alone, stores a message with its rows or is one
\* truthful ack_set.
LEMMA AckEffect ==
  ASSUME TypeOK, GivenInv, [Next]_vars
  PROVE  \/ UNCHANGED <<sent, ack>>
         \/ \E m \in Msgs : Posts(m)
         \/ \E m, r, st : Stores(m, r, st)
<1> DEFINE Effect == \/ UNCHANGED <<sent, ack>>
                     \/ \E m \in Msgs : Posts(m)
                     \/ \E m, r, st : Stores(m, r, st)
<1>1. ASSUME NEW s \in Sessions, Request(s) PROVE Effect
  <2>1. ASSUME NEW m \in Msgs, handle_notification(s, m) PROVE Effect
    <3>1. Stores(m, bound[s].principal, "processed")
      BY <2>1 DEF handle_notification, Stores
    <3> QED
      BY <3>1
  <2> QED
    BY <1>1, <2>1 DEF Request, attach, RegisterClaim, deregister, DetachRemove, SendResolve,
                      durable
<1>2. ASSUME NEW s \in Sessions, HandlerStep(s) PROVE Effect
  <2>1. ASSUME NEW m \in Msgs, SweepFail(s, m) PROVE Effect
    <3>1. Stores(m, bound[s].principal, "failed")
      BY <2>1 DEF SweepFail, Stores
    <3> QED
      BY <3>1
  <2>2. ASSUME NEW m \in Msgs, SendCommit(s, m) PROVE Effect
    <3> DEFINE rows == [r \in Principals |-> CASE r \in h[s].held -> "held"
                                              [] r \in h[s].audience \ h[s].held -> "failed"
                                              [] OTHER -> "none"]
    <3>1. rows \in [Principals -> {"none", "held", "failed"}]
      OBVIOUS
    <3>2. m \notin sent /\ sent' = sent \cup {m} /\ ack' = [ack EXCEPT ![m] = rows]
      BY <2>2 DEF SendCommit
    <3> HIDE DEF rows
    <3>3. Posts(m)
      BY <3>1, <3>2 DEF Posts
    <3> QED
      BY <3>3
  <2> QED
    BY <1>2, <2>1, <2>2 DEF HandlerStep, RegisterBind, RegisterPersist, DrainRead, DrainSpawn,
                            SweepRead, SendPartition, SendSpawn, SendTap, TapSpawn, durable
<1>3. ASSUME NEW t \in Tasks, TaskStep(t) \/ AgentStep(t) \/ CodexOutcome(t) PROVE Effect
  <2>1. CASE TaskAck(t)
    <3>1. PICK w \in AckWrites : /\ Moves(t, w[1], w[3])
                                /\ ack' = ack_set(task[t].msg, task[t].rcpt, w[2])
      BY <2>1 DEF TaskAck
    <3>2. \/ w[2] = "failed"
          \/ w[2] \in {"relayed", "processed"} /\ w[1] \in GivenPhases
      BY DEF AckWrites, GivenPhases
    <3>3. task[t].phase = w[1]
      BY <3>1 DEF Moves
    <3>4. Stores(task[t].msg, task[t].rcpt, w[2])
      BY <2>1, <3>1, <3>2, <3>3 DEF TaskAck, Stores, GivenInv
    <3> QED
      BY <3>4
  <2> QED
    BY <1>3, <2>1 DEF TaskStep, AgentStep, CodexOutcome, TaskLookup, TaskRoute, TaskTimeout,
                      CodexCheck, LateArrives, LateLost, AgentReceives, AgentRefuses,
                      AgentReplies, CodexUnreachable, CodexInject, CodexFailed, CodexProcessed,
                      durable
<1>4. CASE GraceStep
  <2>1. ASSUME NEW p, GraceFail(p) PROVE Effect
    <3>1. Stores(p[1], p[2], "failed")
      BY <2>1 DEF GraceFail, Stores
    <3> QED
      BY <3>1
  <2> QED
    BY <1>4, <2>1 DEF GraceStep, GraceRead, GraceCheck, durable
<1>5. CASE Fault
  BY <1>5 DEF Fault, RegisterPersistFails, DrainReadFails, SweepReadFails, SendCommitFails,
              DrainSkips, SweepAckFails, TaskAckFails, GraceReadFails, GraceAckFails, durable
<1>6. CASE Restart
  BY <1>6 DEF Restart, durable
<1>7. CASE UNCHANGED vars
  BY <1>7 DEF vars, durable
<1> QED
  BY <1>1, <1>2, <1>3, <1>4, <1>5, <1>6, <1>7 DEF Next

\* ack_set moves one existing row along an edge of AckLifecycle, or does nothing.
LEMMA AckSetEdge ==
  ASSUME TypeOK, NEW m, NEW r, NEW st \in {"relayed", "processed", "failed"},
         ack_set(m, r, st) # ack
  PROVE  /\ m \in Msgs /\ r \in Principals
         /\ ack[m][r] # "none"
         /\ <<ack[m][r], st>> \in Lifecycle!Edges
         /\ ack_set(m, r, st) = [ack EXCEPT ![m][r] = st]
<1>1. /\ ack[m][r] # "none" /\ ack_rank(st) > ack_rank(ack[m][r])
      /\ ack_set(m, r, st) = [ack EXCEPT ![m][r] = st]
  BY DEF ack_set
<1>2. m \in Msgs /\ r \in Principals
  BY <1>1 DEF TypeOK
<1>3. ack[m][r] \in AckState
  BY <1>2 DEF TypeOK
<1>4. <<ack[m][r], st>> \in Lifecycle!Edges
  BY <1>1, <1>3 DEF ack_rank, AckState, Lifecycle!Edges
<1> QED
  BY <1>1, <1>2, <1>4

-----------------------------------------------------------------------------
(* The theorems *)

\* What the three theorems below rest on.
AckInv == GivenInv /\ RowsInv /\ AckTruthful

\* Init and every step keep AckInv.
LEMMA AckInductive ==
  /\ Init => AckInv
  /\ TypeOK /\ TypeOK' /\ AckInv /\ [Next]_vars => AckInv'
<1>1. Init => AckInv
  BY DEF Init, AckInv, GivenInv, RowsInv, AckTruthful, GivenPhases, Free
<1>2. ASSUME TypeOK, TypeOK', AckInv, [Next]_vars PROVE AckInv'
  <2>1. HandedGrows /\ GivenInv'
    BY <1>2, GivenStep DEF AckInv
  <2>2. CASE UNCHANGED <<sent, ack>>
    BY <1>2, <2>1, <2>2, StaysGiven DEF AckInv, RowsInv, AckTruthful
  <2>3. ASSUME NEW m \in Msgs, Posts(m) PROVE AckInv'
    <3>1. PICK rows \in [Principals -> {"none", "held", "failed"}] : ack' = [ack EXCEPT ![m] = rows]
      BY <2>3 DEF Posts
    <3>2. \A x \in Msgs : ack'[x] = IF x = m THEN rows ELSE ack[x]
      BY <1>2, <3>1 DEF TypeOK
    <3>3. RowsInv'
      BY <1>2, <2>3, <3>2 DEF AckInv, RowsInv, Posts
    <3>4. AckTruthful'
      BY <1>2, <2>1, <3>2, StaysGiven DEF AckInv, AckTruthful
    <3> QED
      BY <2>1, <3>3, <3>4 DEF AckInv
  <2>4. ASSUME NEW m, NEW r, NEW st, Stores(m, r, st), ack' # ack PROVE AckInv'
    <3>0. /\ st \in {"relayed", "processed", "failed"}
          /\ ack' = ack_set(m, r, st) /\ ack_set(m, r, st) # ack
      BY <2>4 DEF Stores
    <3>1. /\ m \in Msgs /\ r \in Principals /\ ack[m][r] # "none"
          /\ ack' = [ack EXCEPT ![m][r] = st]
      BY <1>2, <3>0, AckSetEdge
    <3>2. \A x \in Msgs, y \in Principals :
            ack'[x][y] = IF x = m /\ y = r THEN st ELSE ack[x][y]
      BY <1>2, <3>1 DEF TypeOK
    <3>3. RowsInv'
      BY <1>2, <2>4, <3>1, <3>2 DEF AckInv, RowsInv, Stores
    <3>4. AckTruthful'
      BY <1>2, <2>1, <2>4, <3>1, <3>2, StaysGiven DEF AckInv, AckTruthful, Stores
    <3> QED
      BY <2>1, <3>3, <3>4 DEF AckInv
  <2> QED
    BY <1>2, <2>2, <2>3, <2>4, AckEffect DEF AckInv, Stores
<1> QED
  BY <1>1, <1>2

\* AckInv holds in every state.
LEMMA AckInvariant == Spec => []AckInv
BY AckInductive, TypeCorrect, PTL DEF Spec

\* No acknowledgment lies: whatever fails, times out or crashes, a row says
\* relayed or processed only for a message its recipient was given.
THEOREM AckIsTruthful == Spec => []AckTruthful
<1>1. AckInv => AckTruthful
  BY DEF AckInv
<1> QED
  BY <1>1, AckInvariant, PTL

\* The acks table of the broker implements AckLifecycle: a message and its rows
\* appear together, a row only advances, terminal states are final.
THEOREM RefinesAckLifecycle == Spec => AckLifecycleSpec
<1>1. Init => Lifecycle!Init
  BY DEF Init, Lifecycle!Init
<1>2. ASSUME TypeOK, AckInv, [Next]_vars PROVE [Lifecycle!Next]_(Lifecycle!vars)
  <2>1. CASE UNCHANGED <<sent, ack>>
    BY <2>1 DEF Lifecycle!vars
  <2>2. ASSUME NEW m \in Msgs, Posts(m) PROVE Lifecycle!Next
    BY <2>2 DEF Posts, Lifecycle!Next, Lifecycle!Post
  <2>3. ASSUME NEW m, NEW r, NEW st, Stores(m, r, st), ack' # ack PROVE Lifecycle!Next
    <3>0. /\ st \in {"relayed", "processed", "failed"}
          /\ ack' = ack_set(m, r, st) /\ ack_set(m, r, st) # ack
      BY <2>3 DEF Stores
    <3>1. /\ m \in Msgs /\ r \in Principals /\ ack[m][r] # "none"
          /\ <<ack[m][r], st>> \in Lifecycle!Edges
          /\ ack' = [ack EXCEPT ![m][r] = st]
      BY <1>2, <3>0, AckSetEdge
    <3>2. m \in sent
      BY <1>2, <3>1 DEF AckInv, RowsInv
    <3>3. st \in Lifecycle!AckState
      BY <2>3 DEF Stores, Lifecycle!AckState
    <3> QED
      BY <2>3, <3>1, <3>2, <3>3 DEF Stores, Lifecycle!Next, Lifecycle!Advance
  <2> QED
    BY <1>2, <2>1, <2>2, <2>3, AckEffect DEF AckInv, Stores
<1> QED
  BY <1>1, <1>2, TypeCorrect, AckInvariant, PTL DEF Spec, AckLifecycleSpec, Lifecycle!Spec
-----------------------------------------------------------------------------
(***************************************************************************)
(* No delivery is forgotten.  That somebody is responsible for a held row  *)
(* is not inductive: a task of deliver_via_codex leaves when it finds its  *)
(* name in other hands, and what the restart sweep passes over because the *)
(* name is held it never looks at again.  So a row needs an owner that     *)
(* stays: a task that will find its own session still bound, a drain or a  *)
(* sweep, or the restart sweep of a name nobody holds.                     *)
(***************************************************************************)

\* Phases in which a task will ask again who holds the name.
Recheck == {"found", "loop", "inject"}

\* Task t owns (m, r) and will not leave it to others.
Stays(t, m, r) ==
  /\ Owns(t, m, r)
  /\ task[t].phase \in Recheck => task[t].sess \in SessionsOf(r) \/ SessionsOf(r) = {}

Handles(s, m, r) == WillSpawn(s, m, r) \/ WillFail(s, m, r)

Owned(m, r) == \/ \E t \in Tasks : Stays(t, m, r)
               \/ \E s \in Sessions : Handles(s, m, r)
               \/ GraceOwns(m, r) /\ SessionsOf(r) = {}

\* While no store operation has failed every held row has such an owner; and
\* the restart sweep is about to fail at most one row.
OwnedInv ==
  /\ faults = 0 => \A m \in Msgs, r \in Principals : ack[m][r] = "held" => Owned(m, r)
  /\ \A p, q \in graceHit : p = q

\* ack_set leaves no row held that it was called for, and makes none held.
LEMMA AckSetHeld ==
  ASSUME TypeOK, NEW x, NEW y, NEW st \in {"relayed", "processed", "failed"},
         NEW m \in Msgs, NEW r \in Principals, ack_set(x, y, st)[m][r] = "held"
  PROVE  ack[m][r] = "held" /\ ~(x = m /\ y = r)
<1>1. CASE ~(x = m /\ y = r)
  BY <1>1 DEF ack_set, TypeOK
<1>2. CASE x = m /\ y = r
  <2>1. ack_rank(st) > 0 /\ ack_rank("held") = 0
    BY DEF ack_rank
  <2>2. CASE ack[m][r] = "held"
    <3>1. ack_set(x, y, st) = [ack EXCEPT ![m][r] = st]
      BY <1>2, <2>1, <2>2 DEF ack_set
    <3> QED BY <3>1 DEF TypeOK
  <2>3. CASE ack[m][r] # "held"
    BY <1>2, <2>3 DEF ack_set, TypeOK
  <2> QED BY <2>2, <2>3
<1> QED BY <1>1, <1>2

\* The fields of a task that moves.
LEMMA MovesFields ==
  ASSUME TypeOK, NEW t \in Tasks, NEW from, NEW to, Moves(t, from, to)
  PROVE  /\ task[t].phase = from
         /\ \A x \in Tasks : x # t => task'[x] = task[x]
         /\ to = "free" => task'[t] = Free
         /\ to # "free" => /\ task'[t].phase = to /\ task'[t].sess = task[t].sess
                           /\ task'[t].msg = task[t].msg /\ task'[t].rcpt = task[t].rcpt
                           /\ task'[t].tracked = task[t].tracked
BY DEF TypeOK, Task, Moves

\* WithRecs keeps the records it is given, at its op while there are any.
LEMMA WithRecsFields ==
  ASSUME NEW op, NEW recs
  PROVE  /\ WithRecs(op, recs).op \in {op, "idle"}
         /\ WithRecs(op, recs).recs = recs
         /\ recs # {} => WithRecs(op, recs).op = op
BY DEF WithRecs, Idle

\* A spawned task is one more, in a slot that owned nothing.
LEMMA SpawnFields ==
  ASSUME TypeOK, NEW t \in Tasks, NEW r, NEW m, NEW tracked, spawn_deliver(t, r, m, tracked)
  PROVE  /\ task[t].phase = "free"
         /\ \A x \in Tasks : x # t => task'[x] = task[x]
         /\ task'[t].phase = "start" /\ task'[t].msg = m /\ task'[t].rcpt = r
         /\ task'[t].tracked = tracked
BY DEF TypeOK, spawn_deliver

\* Beside the registry and the handlers a task moves: the owners stay if this
\* one does, or the row is not held any more.
LEMMA TaskOwned ==
  ASSUME TypeOK, NEW t \in Tasks, NEW m \in Msgs, NEW r \in Principals, Owned(m, r),
         UNCHANGED <<registry, h, sweeper>>,
         \A x \in Tasks : x # t => task'[x] = task[x],
         Stays(t, m, r) => Stays(t, m, r)'
  PROVE  Owned(m, r)'
<1>1. SessionsOf(r)' = SessionsOf(r)
  BY DEF SessionsOf, registry
<1>2. \A x \in Tasks : Stays(x, m, r) => Stays(x, m, r)'
  <2> SUFFICES ASSUME NEW x \in Tasks, Stays(x, m, r), x # t PROVE Stays(x, m, r)'
    OBVIOUS
  <2>1. task'[x] = task[x]
    OBVIOUS
  <2> QED BY <1>1, <2>1 DEF Stays, Owns
<1>3. \A s \in Sessions : Handles(s, m, r) => Handles(s, m, r)'
  BY DEF Handles, WillSpawn, WillFail, registry
<1>4. GraceOwns(m, r) => GraceOwns(m, r)'
  BY DEF GraceOwns, sweeper
<1> QED BY <1>1, <1>2, <1>3, <1>4 DEF Owned

\* A task that moves stays responsible if it does not end and does not come to
\* ask who holds the name.
LEMMA MovesStays ==
  ASSUME TypeOK, NEW t \in Tasks, NEW from, NEW to, Moves(t, from, to), UNCHANGED registry,
         to \notin {"free", "late", "processed"}, to \in Recheck => from \in Recheck,
         NEW m \in Msgs, NEW r \in Principals, Stays(t, m, r)
  PROVE  Stays(t, m, r)'
<1>1. SessionsOf(r)' = SessionsOf(r)
  BY DEF SessionsOf, registry
<1> QED BY <1>1, MovesFields DEF Stays, Owns

\* The tasks' steps.
LEMMA TaskHeld ==
  ASSUME TypeOK, OwnedInv, NEW t \in Tasks, TaskStep(t) \/ AgentStep(t) \/ CodexOutcome(t)
  PROVE  OwnedInv'
<1>1. UNCHANGED <<registry, h, sweeper, faults>>
  BY DEF TaskStep, AgentStep, CodexOutcome, TaskLookup, TaskRoute, TaskTimeout,
         CodexCheck, TaskAck, LateArrives, LateLost, AgentReceives, AgentRefuses,
         AgentReplies, CodexUnreachable, CodexInject, CodexFailed, CodexProcessed, history
<1> SUFFICES ASSUME NEW m \in Msgs, NEW r \in Principals, faults' = 0, ack'[m][r] = "held"
             PROVE  Owned(m, r)'
  BY <1>1 DEF OwnedInv, sweeper
<1>2. \A from, to : Moves(t, from, to) => \A x \in Tasks : x # t => task'[x] = task[x]
  BY MovesFields
<1>3. ASSUME ~TaskAck(t) PROVE Owned(m, r)
  <2>1. ack' = ack
    BY <1>3 DEF TaskStep, AgentStep, CodexOutcome, TaskLookup, TaskRoute, TaskTimeout,
                CodexCheck, LateArrives, LateLost, AgentReceives, AgentRefuses,
                AgentReplies, CodexUnreachable, CodexInject, CodexFailed, CodexProcessed, durable
  <2> QED BY <1>1, <2>1 DEF OwnedInv
<1>4. CASE TaskAck(t)
  <2>1. PICK w \in AckWrites : /\ Moves(t, w[1], w[3])
                              /\ ack' = ack_set(task[t].msg, task[t].rcpt, w[2])
    BY <1>4 DEF TaskAck
  <2>2. w[2] \in {"relayed", "processed", "failed"}
    BY DEF AckWrites
  <2>3. ack[m][r] = "held" /\ ~(task[t].msg = m /\ task[t].rcpt = r)
    BY <2>1, <2>2, AckSetHeld
  <2>4. ~Stays(t, m, r) /\ Owned(m, r)
    BY <1>1, <2>3 DEF Stays, Owns, OwnedInv
  <2> QED BY <1>1, <1>2, <2>1, <2>4, TaskOwned
<1>5. CASE TaskLookup(t)
  <2>1. ~TaskAck(t)
    BY <1>5 DEF TaskLookup, TaskAck, Moves, AckWrites
  <2>2. CASE Moves(t, "start", AckPhase(t, "failed"))
    <3>1. Stays(t, m, r) => AckPhase(t, "failed") = "failed"
      BY DEF Stays, Owns, AckPhase
    <3>2. Stays(t, m, r) => Stays(t, m, r)'
      BY <1>1, <2>2, <3>1, MovesStays DEF Recheck
    <3> QED BY <1>1, <1>2, <1>3, <2>1, <2>2, <3>2, TaskOwned
  <2>3. ASSUME NEW x \in SessionsOf(task[t].rcpt),
               task' = [task EXCEPT ![t].phase = "found", ![t].sess = x]
        PROVE  Owned(m, r)'
    <3>1. x \in Sessions
      BY DEF SessionsOf
    <3>2. /\ task'[t].phase = "found" /\ task'[t].sess = x /\ task'[t].msg = task[t].msg
          /\ task'[t].rcpt = task[t].rcpt /\ task'[t].tracked = task[t].tracked
          /\ \A y \in Tasks : y # t => task'[y] = task[y]
      BY <2>3, <3>1 DEF TypeOK, Task
    <3>3. SessionsOf(r)' = SessionsOf(r)
      BY <1>1 DEF SessionsOf, registry
    <3>4. Stays(t, m, r) => Stays(t, m, r)'
      BY <2>3, <3>2, <3>3 DEF Stays, Owns
    <3> QED BY <1>1, <1>3, <2>1, <3>2, <3>4, TaskOwned
  <2> QED BY <1>5, <2>2, <2>3 DEF TaskLookup
<1>6. CASE \/ TaskRoute(t) \/ TaskTimeout(t) \/ AgentReceives(t) \/ AgentRefuses(t)
           \/ AgentReplies(t) \/ CodexUnreachable(t) \/ CodexInject(t) \/ CodexFailed(t)
           \/ CodexProcessed(t)
  <2>1. ~TaskAck(t)
    BY <1>6 DEF TaskAck, Moves, AckWrites, TaskRoute, TaskTimeout, AgentReceives, AgentRefuses,
           AgentReplies, CodexUnreachable, CodexInject, CodexFailed, CodexProcessed
  <2>2. \E from, to :
          /\ Moves(t, from, to)
          /\ Stays(t, m, r) => /\ to \notin {"free", "late", "processed"}
                               /\ to \in Recheck => from \in Recheck
    BY <1>6 DEF TaskRoute, TaskTimeout, AgentReceives, AgentRefuses, AgentReplies,
           CodexUnreachable, CodexInject, CodexFailed, CodexProcessed, AckPhase,
           Stays, Owns, Recheck
  <2>3. Stays(t, m, r) => Stays(t, m, r)'
    BY <1>1, <2>2, MovesStays
  <2> QED BY <1>1, <1>2, <1>3, <2>1, <2>2, <2>3, TaskOwned
<1>7. CASE LateArrives(t) \/ LateLost(t)
  <2>1. Moves(t, "late", "free")
    BY <1>7 DEF LateArrives, LateLost
  <2>2. ~TaskAck(t) /\ ~Stays(t, m, r)
    BY <2>1 DEF TaskAck, Moves, AckWrites, Stays, Owns
  <2> QED BY <1>1, <1>2, <1>3, <2>1, <2>2, TaskOwned
<1>8. CASE CodexCheck(t)
  <2>1. ~TaskAck(t)
    BY <1>8 DEF TaskAck, Moves, AckWrites, CodexCheck
  <2>2. CASE /\ SessionsOf(task[t].rcpt) # {} /\ task[t].sess \notin SessionsOf(task[t].rcpt)
             /\ Moves(t, "loop", "free")
    <3>1. ~Stays(t, m, r)
      BY <2>2 DEF Stays, Owns, Moves, Recheck
    <3> QED BY <1>1, <1>2, <1>3, <2>1, <2>2, <3>1, TaskOwned
  <2>3. CASE Moves(t, "loop", AckPhase(t, "failed")) \/ Moves(t, "loop", "inject")
    <3>1. \E to : /\ Moves(t, "loop", to)
                  /\ Stays(t, m, r) => to \notin {"free", "late", "processed"}
      BY <2>3 DEF AckPhase, Stays, Owns
    <3>2. Stays(t, m, r) => Stays(t, m, r)'
      BY <1>1, <3>1, MovesStays DEF Recheck
    <3> QED BY <1>1, <1>2, <1>3, <2>1, <3>1, <3>2, TaskOwned
  <2> QED BY <1>8, <2>2, <2>3 DEF CodexCheck
<1> QED BY <1>4, <1>5, <1>6, <1>7, <1>8 DEF TaskStep, AgentStep, CodexOutcome

\* One session's handler goes on, and may spawn or give its name up: the owners
\* stay if this one does.
LEMMA HandlerOwned ==
  ASSUME TypeOK, NEW s \in Sessions, NEW m \in Msgs, NEW r \in Principals, Owned(m, r),
         SessionsOf(r)' \in {SessionsOf(r), {}}, UNCHANGED sweeper,
         \A x \in Sessions : x # s => h'[x] = h[x] /\ bound'[x] = bound[x],
         \A x \in Tasks : task[x].phase # "free" => task'[x] = task[x],
         Handles(s, m, r) => Owned(m, r)'
  PROVE  Owned(m, r)'
<1>2. \A x \in Tasks : Stays(x, m, r) => Stays(x, m, r)'
  <2> SUFFICES ASSUME NEW x \in Tasks, Stays(x, m, r) PROVE Stays(x, m, r)'
    OBVIOUS
  <2>1. task'[x] = task[x]
    BY DEF Stays, Owns
  <2> QED BY <2>1 DEF Stays, Owns
<1>3. \A x \in Sessions : Handles(x, m, r) /\ x # s => Handles(x, m, r)'
  BY DEF Handles, WillSpawn, WillFail
<1>4. GraceOwns(m, r) => GraceOwns(m, r)'
  BY DEF GraceOwns, sweeper
<1> QED BY <1>2, <1>3, <1>4 DEF Owned

\* A session at idle, bind, partition or tapping handles no row.
LEMMA NotHandling ==
  ASSUME NEW s \in Sessions, NEW m, NEW r,
         h[s].op \notin {"spawn", "persist", "drain", "draining", "sweep", "sweeping"}
  PROVE  ~Handles(s, m, r)
BY DEF Handles, WillSpawn, WillFail

\* The steps a client asks for: a name given up leaves its row to the tasks, a
\* name whose connection ends to the sweep of detach.
LEMMA RequestHeld ==
  ASSUME TypeOK, RegistryInv, UniqueClaim, OwnedInv, NEW s \in Sessions, Request(s)
  PROVE  OwnedInv'
<1>0. UNCHANGED <<faults, sweeper>>
  BY DEF Request, attach, RegisterClaim, deregister, DetachRemove, SendResolve,
         handle_notification, history
<1> SUFFICES ASSUME NEW m \in Msgs, NEW r \in Principals, faults' = 0, ack'[m][r] = "held"
             PROVE  Owned(m, r)'
  BY <1>0 DEF OwnedInv, sweeper
<1>1. r # None
  BY NoneAssumption
<1>2. ack[m][r] = "held" => Owned(m, r)
  BY <1>0 DEF OwnedInv
<1>3. CASE attach(s)
  <2>1. /\ bound[s].principal = None /\ UNCHANGED <<bound, h, task, ack>>
        /\ \A x \in Sessions : x # s => conn'[x] = conn[x]
    BY <1>3 DEF attach, TypeOK, RegistryInv, durable
  <2>2. SessionsOf(r)' = SessionsOf(r)
    BY <1>1, <2>1 DEF SessionsOf
  <2>3. Handles(s, m, r) => Handles(s, m, r)'
    BY <2>1 DEF Handles, WillSpawn, WillFail
  <2>4. Handles(s, m, r) => Owned(m, r)'
    BY <2>3 DEF Owned
  <2> QED BY <1>0, <1>2, <2>1, <2>2, <2>4, HandlerOwned
<1>4. ASSUME NEW reg \in Registrations, RegisterClaim(s, reg) PROVE Owned(m, r)'
  <2>1. /\ h[s].op = "idle" /\ UNCHANGED <<conn, bound, task, ack>>
        /\ \A x \in Sessions : x # s => h'[x] = h[x]
    BY <1>4 DEF RegisterClaim, At, TypeOK, durable
  <2>2. SessionsOf(r)' = SessionsOf(r)
    BY <2>1 DEF SessionsOf
  <2> QED BY <1>0, <1>2, <2>1, <2>2, NotHandling, HandlerOwned
<1>5. CASE deregister(s)
  <2>1. /\ h[s].op = "idle" /\ conn[s] = "open" /\ UNCHANGED <<conn, h, task, ack>>
        /\ bound'[s].principal = None
        /\ \A x \in Sessions : x # s => bound'[x] = bound[x]
    BY <1>5 DEF deregister, At, TypeOK, Unbound, durable
  <2>2. CASE bound[s].principal = r
    <3>1. SessionsOf(r)' = {}
      BY <1>1, <2>1, <2>2 DEF SessionsOf, UniqueClaim
    <3> QED BY <1>0, <1>2, <2>1, <3>1, NotHandling, HandlerOwned
  <2>3. CASE bound[s].principal # r
    <3>1. SessionsOf(r)' = SessionsOf(r)
      BY <1>1, <2>1, <2>3 DEF SessionsOf
    <3> QED BY <1>0, <1>2, <2>1, <3>1, NotHandling, HandlerOwned
  <2> QED BY <2>2, <2>3
<1>6. CASE DetachRemove(s)
  <2>1. /\ h[s].op = "idle" /\ UNCHANGED <<bound, task, ack>>
        /\ \A x \in Sessions : x # s => h'[x] = h[x] /\ conn'[x] = conn[x]
    BY <1>6 DEF DetachRemove, At, TypeOK, durable
  <2>2. CASE bound[s].principal = r
    <3>1. h'[s].op = "sweep"
      BY <1>1, <1>6, <2>2 DEF DetachRemove, TypeOK, Idle
    <3>2. Handles(s, m, r)'
      BY <2>1, <2>2, <3>1 DEF Handles, WillFail
    <3> QED BY <3>2 DEF Owned
  <2>3. CASE bound[s].principal # r
    <3>1. SessionsOf(r)' = SessionsOf(r)
      BY <2>1, <2>3 DEF SessionsOf
    <3> QED BY <1>0, <1>2, <2>1, <3>1, NotHandling, HandlerOwned
  <2> QED BY <2>2, <2>3
<1>7. ASSUME NEW audience \in Audiences, SendResolve(s, audience) PROVE Owned(m, r)'
  <2>1. /\ h[s].op = "idle" /\ UNCHANGED <<conn, bound, task, ack>>
        /\ \A x \in Sessions : x # s => h'[x] = h[x]
    BY <1>7 DEF SendResolve, At, TypeOK, registry, durable
  <2>2. SessionsOf(r)' = SessionsOf(r)
    BY <2>1 DEF SessionsOf
  <2> QED BY <1>0, <1>2, <2>1, <2>2, NotHandling, HandlerOwned
<1>8. ASSUME NEW x \in Msgs, handle_notification(s, x) PROVE Owned(m, r)'
  <2>1. /\ h[s].op = "idle" /\ UNCHANGED <<conn, bound, h, task>>
        /\ ack' = ack_set(x, bound[s].principal, "processed")
    BY <1>8 DEF handle_notification, At, registry
  <2>2. ack[m][r] = "held"
    BY <2>1, AckSetHeld
  <2>3. SessionsOf(r)' = SessionsOf(r)
    BY <2>1 DEF SessionsOf
  <2> QED BY <1>0, <1>2, <2>1, <2>2, <2>3, NotHandling, HandlerOwned
<1> QED BY <1>3, <1>4, <1>5, <1>6, <1>7, <1>8 DEF Request
\* A handler's step leaves the other sessions and the tasks that run alone.
LEMMA HandlerFrame ==
  ASSUME TypeOK, NEW s \in Sessions, HandlerStep(s)
  PROVE  /\ \A x \in Sessions : x # s => h'[x] = h[x] /\ bound'[x] = bound[x]
         /\ \A x \in Tasks : task[x].phase # "free" => task'[x] = task[x]
<1>1. \A x \in Sessions : x # s => h'[x] = h[x] /\ bound'[x] = bound[x]
  BY DEF HandlerStep, RegisterBind, RegisterPersist, DrainRead, DrainSpawn, SweepRead, SweepFail,
         SendPartition, SendCommit, SendSpawn, SendTap, TapSpawn, registry, TypeOK
<1>2. \A x \in Tasks : task[x].phase # "free" => task'[x] = task[x]
  <2>1. \A t \in Tasks : \A q, n, tracked : spawn_deliver(t, q, n, tracked) =>
          \A x \in Tasks : task[x].phase # "free" => task'[x] = task[x]
    BY SpawnFields
  <2>2. task' = task \/ (\E t \in Tasks : \E q, n, tracked : spawn_deliver(t, q, n, tracked))
    BY DEF HandlerStep, RegisterBind, RegisterPersist, DrainRead, DrainSpawn, SweepRead,
           SweepFail, SendPartition, SendCommit, SendSpawn, SendTap, TapSpawn
  <2> QED BY <2>1, <2>2
<1> QED BY <1>1, <1>2

\* The steps of a handler that has begun: what it owns it spawns, fails or
\* passes on.
LEMMA HandlerHeld ==
  ASSUME TypeOK, UniqueClaim, OwnedInv, NEW s \in Sessions, HandlerStep(s)
  PROVE  OwnedInv'
<1>0. UNCHANGED <<faults, sweeper, conn>>
  BY DEF HandlerStep, RegisterBind, RegisterPersist, DrainRead, DrainSpawn, SweepRead, SweepFail,
         SendPartition, SendCommit, SendSpawn, SendTap, TapSpawn, registry, history
<1> SUFFICES ASSUME NEW m \in Msgs, NEW r \in Principals, faults' = 0, ack'[m][r] = "held"
             PROVE  Owned(m, r)'
  BY <1>0 DEF OwnedInv, sweeper
<1>1. ack[m][r] = "held" => Owned(m, r)
  BY <1>0 DEF OwnedInv
<1>2. \A x \in Sessions : x # s => h'[x] = h[x] /\ bound'[x] = bound[x]
  BY HandlerFrame
<1>3. \A x \in Tasks : task[x].phase # "free" => task'[x] = task[x]
  BY HandlerFrame
<1>4. ASSUME ack[m][r] = "held", UNCHANGED bound, Handles(s, m, r) => Owned(m, r)'
      PROVE  Owned(m, r)'
  <2>1. SessionsOf(r)' = SessionsOf(r)
    BY <1>0, <1>4 DEF SessionsOf
  <2> QED BY <1>0, <1>1, <1>2, <1>3, <1>4, <2>1, HandlerOwned
<1>5. Handles(s, m, r)' => Owned(m, r)'
  BY DEF Owned
<1>6. ASSUME NEW t \in Tasks, spawn_deliver(t, r, m, TRUE) PROVE Owned(m, r)'
  <2>1. Stays(t, m, r)'
    BY <1>6, SpawnFields DEF Stays, Owns, Recheck
  <2> QED BY <2>1 DEF Owned
<1>7. CASE RegisterBind(s)
  <2>1. /\ h[s].op = "bind" /\ h'[s].op = "persist" /\ bound'[s].principal = h[s].name
        /\ UNCHANGED ack
    BY <1>7 DEF RegisterBind, At, TypeOK, Idle, durable
  <2>2. CASE h[s].name = r
    BY <1>5, <2>1, <2>2 DEF Handles, WillSpawn
  <2>3. CASE h[s].name # r
    <3>1. SessionsOf(r)' \in {SessionsOf(r), {}}
      BY <1>0, <1>2, <2>1, <2>3, NoneAssumption DEF SessionsOf, UniqueClaim
    <3> QED BY <1>0, <1>1, <1>2, <1>3, <2>1, <3>1, NotHandling, HandlerOwned
  <2> QED BY <2>2, <2>3
<1>8. CASE RegisterPersist(s)
  <2>1. /\ h[s].op = "persist" /\ h'[s].op = "drain" /\ UNCHANGED <<bound, ack>>
    BY <1>8 DEF RegisterPersist, At, TypeOK, Idle, registry
  <2>2. Handles(s, m, r) => Handles(s, m, r)'
    BY <2>1 DEF Handles, WillSpawn, WillFail
  <2> QED BY <1>4, <1>5, <2>1, <2>2
<1>9. CASE DrainRead(s)
  <2>1. /\ h[s].op = "drain" /\ UNCHANGED <<bound, ack>>
        /\ h'[s] = WithRecs("draining", held_for(bound[s].principal))
    BY <1>9 DEF DrainRead, At, TypeOK, registry, durable
  <2>2. bound[s].principal = r => m \in held_for(bound[s].principal)
    BY <2>1 DEF held_for
  <2>3. Handles(s, m, r) => Handles(s, m, r)'
    BY <2>1, <2>2, WithRecsFields DEF Handles, WillSpawn, WillFail
  <2> QED BY <1>4, <1>5, <2>1, <2>3
<1>10. ASSUME NEW t \in Tasks, NEW x \in Msgs, DrainSpawn(s, t, x) PROVE Owned(m, r)'
  <2>1. /\ h[s].op = "draining" /\ UNCHANGED <<bound, ack>>
        /\ h'[s] = WithRecs("draining", h[s].recs \ {x})
        /\ spawn_deliver(t, bound[s].principal, x, TRUE)
    BY <1>10 DEF DrainSpawn, At, TypeOK, registry, durable
  <2>2. CASE bound[s].principal = r /\ x = m
    BY <1>6, <2>1, <2>2
  <2>3. CASE ~(bound[s].principal = r /\ x = m)
    <3>1. Handles(s, m, r) => m \in h[s].recs \ {x} /\ bound[s].principal = r
      BY <2>1, <2>3 DEF Handles, WillSpawn, WillFail
    <3>2. Handles(s, m, r) => Handles(s, m, r)'
      BY <2>1, <3>1, WithRecsFields DEF Handles, WillSpawn
    <3> QED BY <1>4, <1>5, <2>1, <3>2
  <2> QED BY <2>2, <2>3
<1>11. CASE SweepRead(s)
  <2>1. /\ h[s].op = "sweep" /\ UNCHANGED <<bound, ack>>
        /\ h'[s] = WithRecs("sweeping", held_for(bound[s].principal))
    BY <1>11 DEF SweepRead, TypeOK, registry, durable
  <2>2. bound[s].principal = r => m \in held_for(bound[s].principal)
    BY <2>1 DEF held_for
  <2>3. Handles(s, m, r) => Handles(s, m, r)'
    BY <2>1, <2>2, WithRecsFields DEF Handles, WillSpawn, WillFail
  <2> QED BY <1>4, <1>5, <2>1, <2>3
<1>12. ASSUME NEW x \in Msgs, SweepFail(s, x) PROVE Owned(m, r)'
  <2>1. /\ h[s].op = "sweeping" /\ UNCHANGED bound
        /\ h'[s] = WithRecs("sweeping", h[s].recs \ {x})
        /\ ack' = ack_set(x, bound[s].principal, "failed")
    BY <1>12 DEF SweepFail, TypeOK, registry
  <2>2. ack[m][r] = "held" /\ ~(x = m /\ bound[s].principal = r)
    BY <2>1, AckSetHeld
  <2>3. Handles(s, m, r) => m \in h[s].recs \ {x} /\ bound[s].principal = r
    BY <2>1, <2>2 DEF Handles, WillSpawn, WillFail
  <2>4. Handles(s, m, r) => Handles(s, m, r)'
    BY <2>1, <2>3, WithRecsFields DEF Handles, WillFail
  <2> QED BY <1>4, <1>5, <2>1, <2>2, <2>4
<1>13. ASSUME NEW x \in Principals, SendPartition(s, x) PROVE Owned(m, r)'
  <2>1. h[s].op = "partition" /\ UNCHANGED <<bound, ack>>
    BY <1>13 DEF SendPartition, At, registry, durable
  <2> QED BY <1>4, <2>1, NotHandling
<1>14. ASSUME NEW x \in Msgs, SendCommit(s, x) PROVE Owned(m, r)'
  <2>1. /\ h[s].op = "partition" /\ UNCHANGED bound
        /\ x # m => ack'[m] = ack[m]
    BY <1>14 DEF SendCommit, At, registry, TypeOK
  <2>2. CASE x = m
    <3>1. r \in h[s].held
      BY <1>14, <2>2 DEF SendCommit, TypeOK
    <3>2. h'[s].op = "spawn" /\ h'[s].msg = m /\ h'[s].todo = h[s].held
      BY <1>14, <2>2 DEF SendCommit, TypeOK, Handler
    <3> QED BY <1>5, <3>1, <3>2 DEF Handles, WillSpawn
  <2>3. CASE x # m
    BY <1>4, <2>1, <2>3, NotHandling
  <2> QED BY <2>2, <2>3
<1>15. ASSUME NEW t \in Tasks, NEW q \in Principals, SendSpawn(s, t, q) PROVE Owned(m, r)'
  <2>1. /\ h[s].op = "spawn" /\ UNCHANGED <<bound, ack>>
        /\ spawn_deliver(t, q, h[s].msg, TRUE)
    BY <1>15 DEF SendSpawn, At, registry, durable
  <2>2. h'[s].op = "spawn" /\ h'[s].msg = h[s].msg /\ h'[s].todo = h[s].todo \ {q}
    BY <1>15, <2>1 DEF SendSpawn, TypeOK, Handler
  <2>3. CASE h[s].msg = m /\ q = r
    BY <1>6, <2>1, <2>3
  <2>4. CASE ~(h[s].msg = m /\ q = r)
    <3>1. Handles(s, m, r) => Handles(s, m, r)'
      BY <2>1, <2>2, <2>4 DEF Handles, WillSpawn, WillFail
    <3> QED BY <1>4, <1>5, <2>1, <3>1
  <2> QED BY <2>3, <2>4
<1>16. CASE SendTap(s)
  <2>1. h[s].op = "spawn" /\ h[s].todo = {} /\ UNCHANGED <<bound, ack>>
    BY <1>16 DEF SendTap, At, registry, durable
  <2>2. ~Handles(s, m, r)
    BY <2>1 DEF Handles, WillSpawn, WillFail
  <2> QED BY <1>4, <2>1, <2>2
<1>17. ASSUME NEW t \in Tasks, NEW q \in Principals, TapSpawn(s, t, q) PROVE Owned(m, r)'
  <2>1. h[s].op = "tapping" /\ UNCHANGED <<bound, ack>>
    BY <1>17 DEF TapSpawn, At, registry, durable
  <2> QED BY <1>4, <2>1, NotHandling
<1> QED BY <1>7, <1>8, <1>9, <1>10, <1>11, <1>12, <1>13, <1>14, <1>15, <1>16, <1>17
           DEF HandlerStep

\* The restart sweep: it fails the rows of vacant names and passes the others,
\* whose owner is not the sweep.
LEMMA GraceHeld ==
  ASSUME TypeOK, OwnedInv, GraceStep
  PROVE  OwnedInv'
<1>0. UNCHANGED <<registry, h, task, faults>>
  BY DEF GraceStep, GraceRead, GraceCheck, GraceFail, history
<1>1. \A p, q \in graceHit' : p = q
  BY DEF GraceStep, GraceRead, GraceCheck, GraceFail, OwnedInv
<1> SUFFICES ASSUME NEW m \in Msgs, NEW r \in Principals, faults' = 0, ack'[m][r] = "held"
             PROVE  Owned(m, r)'
  BY <1>1 DEF OwnedInv
<1>2. SessionsOf(r)' = SessionsOf(r)
  BY <1>0 DEF SessionsOf, registry
<1>3. ASSUME Owned(m, r), GraceOwns(m, r) /\ SessionsOf(r) = {} => GraceOwns(m, r)'
      PROVE  Owned(m, r)'
  <2>1. \A t \in Tasks : Stays(t, m, r) => Stays(t, m, r)'
    BY <1>0, <1>2 DEF Stays, Owns
  <2>2. \A s \in Sessions : Handles(s, m, r) => Handles(s, m, r)'
    BY <1>0 DEF Handles, WillSpawn, WillFail, registry
  <2> QED BY <1>2, <1>3, <2>1, <2>2 DEF Owned
<1>4. ack[m][r] = "held" => Owned(m, r)
  BY <1>0 DEF OwnedInv
<1>5. CASE GraceRead
  <2>1. ack[m][r] = "held" /\ graceTodo' = held_all
    BY <1>5 DEF GraceRead, durable
  <2>2. <<m, r>> \in held_all
    BY <2>1 DEF held_all
  <2> QED BY <1>3, <1>4, <2>1, <2>2 DEF GraceOwns
<1>6. ASSUME NEW p \in Msgs \X Principals, GraceCheck(p) PROVE Owned(m, r)'
  <2>1. /\ ack[m][r] = "held" /\ graceHit = {} /\ UNCHANGED grace
        /\ graceTodo' = graceTodo \ {p}
        /\ graceHit' = IF principal_active(p[2]) THEN {} ELSE {p}
    BY <1>6 DEF GraceCheck, durable
  <2>2. ASSUME GraceOwns(m, r), SessionsOf(r) = {} PROVE GraceOwns(m, r)'
    BY <2>1, <2>2 DEF GraceOwns, principal_active
  <2> QED BY <1>3, <1>4, <2>1, <2>2
<1>7. ASSUME NEW p \in Msgs \X Principals, GraceFail(p) PROVE Owned(m, r)'
  <2>1. /\ p \in graceHit /\ UNCHANGED <<grace, graceTodo>>
        /\ ack' = ack_set(p[1], p[2], "failed")
    BY <1>7 DEF GraceFail
  <2>2. ack[m][r] = "held" /\ ~(p[1] = m /\ p[2] = r)
    BY <2>1, AckSetHeld
  <2>3. <<m, r>> \notin graceHit
    BY <2>1, <2>2 DEF OwnedInv
  <2> QED BY <1>3, <1>4, <2>1, <2>2, <2>3 DEF GraceOwns
<1> QED BY <1>5, <1>6, <1>7 DEF GraceStep

\* Init and every step keep OwnedInv.
LEMMA OwnedInductive ==
  /\ Init => OwnedInv
  /\ TypeOK /\ RegistryInv /\ UniqueClaim /\ OwnedInv /\ [Next]_vars => OwnedInv'
<1>1. Init => OwnedInv
  BY DEF Init, OwnedInv
<1>2. ASSUME TypeOK, RegistryInv, UniqueClaim, OwnedInv, [Next]_vars PROVE OwnedInv'
  <2>1. CASE Fault
    <3>1. faults' = faults + 1 /\ graceHit' \in {graceHit, {}}
      BY <2>1 DEF Fault, RegisterPersistFails, DrainReadFails, SweepReadFails, SendCommitFails,
                  DrainSkips, SweepAckFails, TaskAckFails, GraceReadFails, GraceAckFails,
                  StoreFault, sweeper
    <3>2. faults' # 0
      BY <1>2, <3>1 DEF TypeOK
    <3> QED BY <1>2, <3>1, <3>2 DEF OwnedInv
  <2>2. CASE Restart
    <3>1. grace' = "wait" /\ graceHit' = {} /\ \A r : SessionsOf(r)' = {}
      BY <2>2 DEF Restart, SessionsOf
    <3> QED BY <3>1 DEF OwnedInv, Owned, GraceOwns
  <2>3. CASE UNCHANGED vars
    BY <1>2, <2>3 DEF OwnedInv, Owned, Stays, Owns, Handles, WillSpawn, WillFail, GraceOwns,
                      SessionsOf, vars, registry, sweeper, durable, history
  <2> QED BY <1>2, <2>1, <2>2, <2>3, TaskHeld, RequestHeld, HandlerHeld, GraceHeld DEF Next
<1> QED BY <1>1, <1>2

\* Every held delivery has an owner that will not leave it to others.
LEMMA OwnedInvariant == Spec => []OwnedInv
BY RegistryInductive, OwnedInductive, PTL DEF Spec

\* No delivery is forgotten: while no store operation has failed, some task, some
\* handler or the restart sweep is responsible for every held row, however
\* sends, registrations, detaches, hand-overs and restarts interleave.
THEOREM HeldIsOwned == Spec => [](faults = 0 => HeldOwned)
<1>1. OwnedInv => (faults = 0 => HeldOwned)
  BY DEF OwnedInv, Owned, Stays, Handles, HeldOwned
<1> QED BY <1>1, OwnedInvariant, PTL
-----------------------------------------------------------------------------(***************************************************************************)
(* How often a message may be handed over.  HandoverBound bounds the past: *)
(* it is not inductive, since it says nothing of the tasks under way.  So  *)
(* every registration of a name, and the send itself, is one grant, and    *)
(* the hand-overs made, the tasks that may still make one and the handlers *)
(* about to spawn such a task never exceed the grants.                     *)
(***************************************************************************)

\* Phases of a task whose message may still reach the agent.
Ahead == {"start", "found", "sent", "expired", "late", "loop", "inject"}

Tries(m, r) == {t \in Tasks : task[t].phase \in Ahead /\ task[t].msg = m /\ task[t].rcpt = r}
Spawners(m, r) == {s \in Sessions : WillSpawn(s, m, r)}
Grants(m, r) == claims[r] + (IF m \in sent THEN 1 ELSE 0)
Budget(m, r) ==
  handed[m][r] + Cardinality(Tries(m, r)) + Cardinality(Spawners(m, r)) =< Grants(m, r)

\* The budget of every row, and of every message that is not sent yet.  Copies
\* of the admin tap have no row and no budget.
BudgetInv ==
  \A m \in Msgs, r \in Principals : m \notin sent \/ ack[m][r] # "none" => Budget(m, r)

\* The tap goes only to names that have no row for the message.
TapOK(s) ==
  /\ h[s].op = "partition" => h[s].todo \cup h[s].held \subseteq h[s].audience
  /\ h[s].op = "spawn" => /\ h[s].msg \in sent
                          /\ \A r \in Principals \ h[s].audience : ack[h[s].msg][r] = "none"
  /\ h[s].op = "tapping" => /\ h[s].msg \in sent
                            /\ \A r \in h[s].todo : ack[h[s].msg][r] = "none"
TapInv == \A s \in Sessions : TapOK(s)

\* Tasks and handlers can be counted.
LEMMA Counts ==
  ASSUME NEW m, NEW r
  PROVE  /\ IsFiniteSet(Tries(m, r)) /\ Cardinality(Tries(m, r)) \in Nat
         /\ IsFiniteSet(Spawners(m, r)) /\ Cardinality(Spawners(m, r)) \in Nat
<1>1. Tries(m, r) \in SUBSET Tasks /\ Spawners(m, r) \in SUBSET Sessions
  BY DEF Tries, Spawners
<1>2. IsFiniteSet(Tries(m, r)) /\ IsFiniteSet(Spawners(m, r))
  BY <1>1, FiniteAssumption, FS_Subset
<1> QED BY <1>2, FS_CardinalityType

\* Counting after an element came, and after one left.
LEMMA CountIn ==
  ASSUME NEW S, IsFiniteSet(S), NEW x, NEW T \in SUBSET (S \cup {x})
  PROVE  /\ Cardinality(T) \in Nat /\ Cardinality(S) \in Nat
         /\ Cardinality(T) =< Cardinality(S) + 1
<1>1. IsFiniteSet(S \cup {x}) /\ Cardinality(S \cup {x}) \in {Cardinality(S), Cardinality(S) + 1}
  BY FS_AddElement
<1>2. IsFiniteSet(T) /\ Cardinality(T) =< Cardinality(S \cup {x})
  BY <1>1, FS_Subset
<1>3. Cardinality(T) \in Nat /\ Cardinality(S) \in Nat
  BY <1>2, FS_CardinalityType
<1> QED BY <1>1, <1>2, <1>3

LEMMA CountOut ==
  ASSUME NEW S, IsFiniteSet(S), NEW x \in S, NEW T \in SUBSET (S \ {x})
  PROVE  /\ Cardinality(T) \in Nat /\ Cardinality(S) \in Nat
         /\ Cardinality(T) + 1 =< Cardinality(S)
<1>1. IsFiniteSet(S \ {x}) /\ Cardinality(S \ {x}) = Cardinality(S) - 1
  BY FS_RemoveElement
<1>2. IsFiniteSet(T) /\ Cardinality(T) =< Cardinality(S \ {x})
  BY <1>1, FS_Subset
<1>3. Cardinality(T) \in Nat /\ Cardinality(S) \in Nat
  BY <1>2, FS_CardinalityType
<1> QED BY <1>1, <1>2, <1>3

\* The four things a step may do to a budget: nothing, a hand-over by a task, a
\* spawn by a handler, a new grant with its handler.
LEMMA BudgetKept ==
  ASSUME TypeOK, TypeOK', NEW m \in Msgs, NEW r \in Principals, Budget(m, r),
         \/ /\ handed'[m][r] = handed[m][r]
            /\ Tries(m, r)' \subseteq Tries(m, r) /\ Spawners(m, r)' \subseteq Spawners(m, r)
            /\ Grants(m, r)' >= Grants(m, r)
         \/ /\ handed'[m][r] = handed[m][r] + 1
            /\ \E t \in Tries(m, r) : Tries(m, r)' \subseteq Tries(m, r) \ {t}
            /\ Spawners(m, r)' \subseteq Spawners(m, r)
            /\ Grants(m, r)' = Grants(m, r)
         \/ /\ handed'[m][r] = handed[m][r]
            /\ \E t : Tries(m, r)' \subseteq Tries(m, r) \cup {t}
            /\ \E s \in Spawners(m, r) : Spawners(m, r)' \subseteq Spawners(m, r) \ {s}
            /\ Grants(m, r)' = Grants(m, r)
         \/ /\ handed'[m][r] = handed[m][r]
            /\ Tries(m, r)' \subseteq Tries(m, r)
            /\ \E s : Spawners(m, r)' \subseteq Spawners(m, r) \cup {s}
            /\ Grants(m, r)' = Grants(m, r) + 1
  PROVE  Budget(m, r)'
<1>1. PICK T, S, T2, S2, H, H2, G, G2 :
        /\ T = Tries(m, r) /\ S = Spawners(m, r) /\ H = handed[m][r] /\ G = Grants(m, r)
        /\ T2 = Tries(m, r)' /\ S2 = Spawners(m, r)' /\ H2 = handed'[m][r] /\ G2 = Grants(m, r)'
  OBVIOUS
<1>2. H \in Nat /\ H2 \in Nat /\ G \in Nat /\ G2 \in Nat
  BY <1>1 DEF TypeOK, Grants
<1>3. /\ IsFiniteSet(T) /\ IsFiniteSet(S)
      /\ Cardinality(T) \in Nat /\ Cardinality(S) \in Nat
  BY <1>1, Counts
<1>4. H + Cardinality(T) + Cardinality(S) =< G
  BY <1>1 DEF Budget
<1>5. /\ T2 \subseteq T => Cardinality(T2) \in Nat /\ Cardinality(T2) =< Cardinality(T)
      /\ S2 \subseteq S => Cardinality(S2) \in Nat /\ Cardinality(S2) =< Cardinality(S)
  BY <1>3, FS_Subset, FS_CardinalityType
<1>6. H2 + Cardinality(T2) + Cardinality(S2) =< G2
  <2>1. CASE H2 = H /\ T2 \subseteq T /\ S2 \subseteq S /\ G2 >= G
    BY <1>2, <1>3, <1>4, <1>5, <2>1
  <2>2. CASE H2 = H + 1 /\ (\E t \in T : T2 \subseteq T \ {t}) /\ S2 \subseteq S /\ G2 = G
    <3>1. Cardinality(T2) \in Nat /\ Cardinality(T2) + 1 =< Cardinality(T)
      BY <1>3, <2>2, CountOut
    <3> QED BY <1>2, <1>3, <1>4, <1>5, <2>2, <3>1
  <2>3. CASE /\ H2 = H /\ (\E t : T2 \subseteq T \cup {t})
             /\ (\E s \in S : S2 \subseteq S \ {s}) /\ G2 = G
    <3>1. Cardinality(T2) \in Nat /\ Cardinality(T2) =< Cardinality(T) + 1
      BY <1>3, <2>3, CountIn
    <3>2. Cardinality(S2) \in Nat /\ Cardinality(S2) + 1 =< Cardinality(S)
      BY <1>3, <2>3, CountOut
    <3> QED BY <1>2, <1>3, <1>4, <2>3, <3>1, <3>2
  <2>4. CASE H2 = H /\ T2 \subseteq T /\ (\E s : S2 \subseteq S \cup {s}) /\ G2 = G + 1
    <3>1. Cardinality(S2) \in Nat /\ Cardinality(S2) =< Cardinality(S) + 1
      BY <1>3, <2>4, CountIn
    <3> QED BY <1>2, <1>3, <1>4, <1>5, <2>4, <3>1
  <2> QED BY <1>1, <2>1, <2>2, <2>3, <2>4
<1> QED BY <1>1, <1>6 DEF Budget\* A task that moves is not counted anew, and no longer once it is past its
\* hand-over.
LEMMA MovesTries ==
  ASSUME TypeOK, NEW t \in Tasks, NEW from, NEW to, Moves(t, from, to),
         to \in Ahead => from \in Ahead, NEW m, NEW r
  PROVE  /\ Tries(m, r)' \subseteq Tries(m, r)
         /\ to \notin Ahead => t \notin Tries(m, r)'
<1>1. Free.phase \notin Ahead
  BY DEF Free, Ahead
<1>2. "free" \notin Ahead
  BY DEF Ahead
<1>3. ASSUME NEW x \in Tasks, task'[x].phase \in Ahead, task'[x].msg = m, task'[x].rcpt = r
      PROVE  /\ task[x].phase \in Ahead /\ task[x].msg = m /\ task[x].rcpt = r
             /\ x = t => to \in Ahead
  BY <1>1, <1>2, <1>3, MovesFields
<1> QED BY <1>3 DEF Tries

\* The tasks' steps: a hand-over spends the task's own share of the budget.
LEMMA TaskBudget ==
  ASSUME TypeOK, TypeOK', NEW t \in Tasks,
         TaskStep(t) \/ AgentStep(t) \/ CodexOutcome(t) \/ TaskAckFails(t),
         NEW m \in Msgs, NEW r \in Principals, Budget(m, r)
  PROVE  Budget(m, r)'
<1>1. UNCHANGED <<registry, h, sent, claims>>
  BY DEF TaskStep, AgentStep, CodexOutcome, TaskLookup, TaskRoute, TaskTimeout,
         CodexCheck, TaskAck, LateArrives, LateLost, AgentReceives, AgentRefuses,
         AgentReplies, CodexUnreachable, CodexInject, CodexFailed, CodexProcessed,
         TaskAckFails, durable, history
<1>2. Spawners(m, r)' = Spawners(m, r) /\ Grants(m, r)' = Grants(m, r)
  BY <1>1 DEF Spawners, WillSpawn, Grants, registry
<1>3. Grants(m, r) \in Nat
  BY DEF Grants, TypeOK
<1>4. ASSUME UNCHANGED handed, Tries(m, r)' \subseteq Tries(m, r) PROVE Budget(m, r)'
  BY <1>2, <1>3, <1>4, BudgetKept
<1>5. CASE AgentReceives(t) \/ LateArrives(t) \/ CodexInject(t)
  <2>1. PICK from \in {"sent", "late", "inject"}, to \in {"received", "free", "turn"} :
          Moves(t, from, to)
    BY <1>5 DEF AgentReceives, LateArrives, CodexInject
  <2>2. from \in Ahead /\ to \notin Ahead
    BY DEF Ahead
  <2>3. Tries(m, r)' \subseteq Tries(m, r) \ {t}
    BY <2>1, <2>2, MovesTries
  <2>4. Given(t)
    BY <1>5 DEF AgentReceives, LateArrives, CodexInject
  <2>5. CASE task[t].msg = m /\ task[t].rcpt = r
    <3>1. t \in Tries(m, r)
      BY <2>1, <2>2, <2>5, MovesFields DEF Tries
    <3>2. handed'[m][r] = handed[m][r] + 1
      BY <2>4, <2>5 DEF Given, TypeOK
    <3> QED BY <1>2, <2>3, <3>1, <3>2, BudgetKept
  <2>6. CASE ~(task[t].msg = m /\ task[t].rcpt = r)
    <3>1. handed'[m][r] = handed[m][r]
      BY <2>4, <2>6 DEF Given, TypeOK
    <3>2. Tries(m, r)' \subseteq Tries(m, r)
      BY <2>3
    <3> QED BY <1>2, <1>3, <3>1, <3>2, BudgetKept
  <2> QED BY <2>5, <2>6
<1>6. CASE TaskAck(t) \/ TaskAckFails(t)
  <2>1. PICK w \in AckWrites : Moves(t, w[1], w[3])
    BY <1>6 DEF TaskAck, TaskAckFails
  <2>2. w[3] \in Ahead => w[1] \in Ahead
    BY DEF AckWrites, Ahead
  <2>3. UNCHANGED handed
    BY <1>6 DEF TaskAck, TaskAckFails, history
  <2> QED BY <1>4, <2>1, <2>2, <2>3, MovesTries
<1>7. CASE \/ TaskRoute(t) \/ TaskTimeout(t) \/ CodexCheck(t) \/ LateLost(t) \/ AgentRefuses(t)
           \/ AgentReplies(t) \/ CodexUnreachable(t) \/ CodexFailed(t) \/ CodexProcessed(t)
  <2>1. \E from, to : Moves(t, from, to) /\ (to \in Ahead => from \in Ahead)
    BY <1>7 DEF TaskRoute, TaskTimeout, CodexCheck, LateLost, AgentRefuses, AgentReplies,
           CodexUnreachable, CodexFailed, CodexProcessed, AckPhase, Ahead
  <2>2. UNCHANGED handed
    BY <1>7 DEF TaskRoute, TaskTimeout, CodexCheck, LateLost, AgentRefuses, AgentReplies,
           CodexUnreachable, CodexFailed, CodexProcessed, history
  <2> QED BY <1>4, <2>1, <2>2, MovesTries
<1>8. CASE TaskLookup(t)
  <2>1. UNCHANGED handed
    BY <1>8 DEF TaskLookup, history
  <2>2. CASE Moves(t, "start", AckPhase(t, "failed"))
    <3>1. "start" \in Ahead
      BY DEF Ahead
    <3> QED BY <1>4, <2>1, <2>2, <3>1, MovesTries
  <2>3. ASSUME NEW x \in SessionsOf(task[t].rcpt),
               task' = [task EXCEPT ![t].phase = "found", ![t].sess = x]
        PROVE  Budget(m, r)'
    <3>1. /\ task'[t].msg = task[t].msg /\ task'[t].rcpt = task[t].rcpt
          /\ \A y \in Tasks : y # t => task'[y] = task[y]
      BY <2>3 DEF TypeOK, Task
    <3>2. task[t].phase \in Ahead
      BY <1>8 DEF TaskLookup, Ahead
    <3>3. Tries(m, r)' \subseteq Tries(m, r)
      BY <3>1, <3>2 DEF Tries
    <3> QED BY <1>4, <2>1, <3>3
  <2> QED BY <1>8, <2>2, <2>3 DEF TaskLookup
<1> QED BY <1>5, <1>6, <1>7, <1>8 DEF TaskStep, AgentStep, CodexOutcome

\* The steps a client asks for spawn nothing and grant nothing.
LEMMA RequestBudget ==
  ASSUME TypeOK, TypeOK', NEW s \in Sessions, Request(s),
         NEW m \in Msgs, NEW r \in Principals, Budget(m, r)
  PROVE  Budget(m, r)'
<1>1. UNCHANGED <<task, sent, claims, handed>>
  BY DEF Request, attach, RegisterClaim, deregister, DetachRemove, SendResolve,
         handle_notification, durable, history
<1>2. Tries(m, r)' = Tries(m, r) /\ Grants(m, r)' = Grants(m, r) /\ Grants(m, r) \in Nat
  BY <1>1 DEF Tries, Grants, TypeOK
<1>3. r # None
  BY NoneAssumption
<1>4. \A x \in Sessions : x # s => h'[x] = h[x] /\ bound'[x] = bound[x]
  BY DEF Request, attach, RegisterClaim, deregister, DetachRemove, SendResolve,
         handle_notification, registry, TypeOK
<1>5. \/ h'[s] = h[s] /\ bound'[s] \in {bound[s], Unbound}
      \/ h'[s].op \in {"bind", "partition", "sweep"}
  <2>1. ASSUME NEW reg \in Registrations, RegisterClaim(s, reg) PROVE h'[s].op = "bind"
    BY <2>1 DEF RegisterClaim, TypeOK, Idle
  <2>2. ASSUME NEW audience \in Audiences, SendResolve(s, audience)
        PROVE  h'[s].op = "partition"
    BY <2>2 DEF SendResolve, TypeOK, Idle
  <2>3. CASE DetachRemove(s)
    BY <2>3 DEF DetachRemove, TypeOK, Idle
  <2>4. CASE attach(s) \/ deregister(s) \/ (\E x \in Msgs : handle_notification(s, x))
    BY <2>4 DEF attach, deregister, handle_notification, registry, TypeOK
  <2> QED BY <2>1, <2>2, <2>3, <2>4 DEF Request
<1>6. WillSpawn(s, m, r)' => WillSpawn(s, m, r)
  BY <1>3, <1>5 DEF WillSpawn, Unbound
<1>7. Spawners(m, r)' \subseteq Spawners(m, r)
  BY <1>4, <1>6 DEF Spawners, WillSpawn
<1> QED BY <1>1, <1>2, <1>7, BudgetKept\* A spawned task counts for its own message and recipient.
LEMMA SpawnTries ==
  ASSUME TypeOK, NEW t \in Tasks, NEW q, NEW n, NEW tracked, spawn_deliver(t, q, n, tracked),
         NEW m, NEW r
  PROVE  /\ Tries(m, r)' \subseteq Tries(m, r) \cup {t}
         /\ ~(n = m /\ q = r) => Tries(m, r)' \subseteq Tries(m, r)
BY SpawnFields DEF Tries

\* Beside one session nobody comes to spawn.
LEMMA OneSpawner ==
  ASSUME NEW s \in Sessions, NEW m, NEW r,
         \A x \in Sessions : x # s => h'[x] = h[x] /\ bound'[x] = bound[x]
  PROVE  /\ Spawners(m, r)' \subseteq Spawners(m, r) \cup {s}
         /\ ~WillSpawn(s, m, r)' => Spawners(m, r)' \subseteq Spawners(m, r) \ {s}
         /\ (WillSpawn(s, m, r)' => WillSpawn(s, m, r))
              => Spawners(m, r)' \subseteq Spawners(m, r)
BY DEF Spawners, WillSpawn

\* The tap's handlers.
LEMMA TapFields ==
  ASSUME TypeOK, NEW s \in Sessions, SendTap(s)
  PROVE  \/ h'[s] = Idle
         \/ /\ h'[s].op = "tapping" /\ h'[s].msg = h[s].msg
            /\ h'[s].todo \cap h[s].audience = {}
<1>1. PICK todo : /\ todo \cap h[s].audience = {}
                 /\ h'[s] = WithTodo([h[s] EXCEPT !.op = "tapping"], todo)
  BY DEF SendTap, TypeOK
<1>2. PICK hs : hs = h[s] /\ hs \in Handler
  BY DEF TypeOK
<1>3. /\ [[hs EXCEPT !.op = "tapping"] EXCEPT !.todo = todo].op = "tapping"
      /\ [[hs EXCEPT !.op = "tapping"] EXCEPT !.todo = todo].msg = hs.msg
      /\ [[hs EXCEPT !.op = "tapping"] EXCEPT !.todo = todo].todo = todo
  BY <1>2 DEF Handler
<1> QED BY <1>1, <1>2, <1>3 DEF WithTodo

LEMMA TapSpawnFields ==
  ASSUME TypeOK, NEW s \in Sessions, NEW t \in Tasks, NEW q, TapSpawn(s, t, q)
  PROVE  \/ h'[s] = Idle
         \/ h'[s].op = "tapping" /\ h'[s].msg = h[s].msg /\ h'[s].todo = h[s].todo \ {q}
<1>1. h[s].op = "tapping" /\ h'[s] = WithTodo(h[s], h[s].todo \ {q})
  BY DEF TapSpawn, At, TypeOK
<1>2. PICK hs : hs = h[s] /\ hs \in Handler
  BY DEF TypeOK
<1>3. \A todo : /\ [hs EXCEPT !.todo = todo].op = hs.op
                /\ [hs EXCEPT !.todo = todo].msg = hs.msg
                /\ [hs EXCEPT !.todo = todo].todo = todo
  BY <1>2 DEF Handler
<1> QED BY <1>1, <1>2, <1>3 DEF WithTodo

\* The steps of a handler: a registration and a send are grants, a spawn spends
\* the handler's share on its task, and the tap spawns for names without a row.
LEMMA HandlerBudget ==
  ASSUME TypeOK, TypeOK', TapInv, NEW s \in Sessions, HandlerStep(s),
         NEW m \in Msgs, NEW r \in Principals, Budget(m, r),
         m \notin sent' \/ ack'[m][r] # "none"
  PROVE  Budget(m, r)'
<1>1. handed'[m][r] = handed[m][r]
  BY DEF HandlerStep, RegisterBind, RegisterPersist, DrainRead, DrainSpawn, SweepRead, SweepFail,
         SendPartition, SendCommit, SendSpawn, SendTap, TapSpawn, history
<1>2. \A x \in Sessions : x # s => h'[x] = h[x] /\ bound'[x] = bound[x]
  BY HandlerFrame
<1>3. Grants(m, r) \in Nat
  BY DEF Grants, TypeOK
<1>4. UNCHANGED <<sent, claims>> => Grants(m, r)' = Grants(m, r)
  BY DEF Grants
<1>5. UNCHANGED task => Tries(m, r)' = Tries(m, r)
  BY DEF Tries
<1>6. ASSUME Grants(m, r)' = Grants(m, r), Tries(m, r)' \subseteq Tries(m, r),
             WillSpawn(s, m, r)' => WillSpawn(s, m, r)
      PROVE  Budget(m, r)'
  <2>1. Spawners(m, r)' \subseteq Spawners(m, r)
    BY <1>2, <1>6, OneSpawner
  <2> QED BY <1>1, <1>3, <1>6, <2>1, BudgetKept
<1>7. ASSUME Grants(m, r)' = Grants(m, r) + 1, UNCHANGED task PROVE Budget(m, r)'
  <2>1. Spawners(m, r)' \subseteq Spawners(m, r) \cup {s}
    BY <1>2, OneSpawner
  <2> QED BY <1>1, <1>5, <1>7, <2>1, BudgetKept
<1>8. ASSUME NEW t \in Tasks, NEW tracked, spawn_deliver(t, r, m, tracked),
             WillSpawn(s, m, r), ~WillSpawn(s, m, r)', Grants(m, r)' = Grants(m, r)
      PROVE  Budget(m, r)'
  <2>1. Spawners(m, r)' \subseteq Spawners(m, r) \ {s} /\ s \in Spawners(m, r)
    BY <1>2, <1>8, OneSpawner DEF Spawners
  <2>2. Tries(m, r)' \subseteq Tries(m, r) \cup {t}
    BY <1>8, SpawnTries
  <2> QED BY <1>1, <1>8, <2>1, <2>2, BudgetKept
<1>9. CASE RegisterBind(s)
  <2>1. /\ h'[s].op = "persist" /\ bound'[s].principal = h[s].name /\ UNCHANGED <<task, sent>>
        /\ h[s].name # r => claims'[r] = claims[r]
        /\ h[s].name = r => claims'[r] = claims[r] + 1
    BY <1>9 DEF RegisterBind, TypeOK, Idle, durable
  <2>2. CASE h[s].name = r
    <3>1. Grants(m, r)' = Grants(m, r) + 1
      BY <2>1, <2>2 DEF Grants, TypeOK
    <3> QED BY <1>7, <2>1, <3>1
  <2>3. CASE h[s].name # r
    <3>1. ~WillSpawn(s, m, r)' /\ Grants(m, r)' = Grants(m, r)
      BY <2>1, <2>3 DEF WillSpawn, Grants
    <3> QED BY <1>5, <1>6, <2>1, <3>1
  <2> QED BY <2>2, <2>3
<1>10. CASE RegisterPersist(s)
  <2>1. h[s].op = "persist" /\ h'[s].op = "drain" /\ UNCHANGED <<bound, task, sent, claims>>
    BY <1>10 DEF RegisterPersist, At, TypeOK, Idle, registry, history
  <2>2. WillSpawn(s, m, r)' => WillSpawn(s, m, r)
    BY <2>1 DEF WillSpawn
  <2> QED BY <1>4, <1>5, <1>6, <2>1, <2>2
<1>11. CASE DrainRead(s)
  <2>1. /\ h[s].op = "drain" /\ UNCHANGED <<bound, task, sent, claims>>
        /\ h'[s].op \in {"draining", "idle"}
    BY <1>11, WithRecsFields DEF DrainRead, At, TypeOK, registry, durable, history
  <2>2. WillSpawn(s, m, r)' => WillSpawn(s, m, r)
    BY <2>1 DEF WillSpawn
  <2> QED BY <1>4, <1>5, <1>6, <2>1, <2>2
<1>12. ASSUME NEW t \in Tasks, NEW x \in Msgs, DrainSpawn(s, t, x) PROVE Budget(m, r)'
  <2>1. /\ h[s].op = "draining" /\ x \in h[s].recs /\ UNCHANGED <<bound, sent, claims>>
        /\ h'[s] = WithRecs("draining", h[s].recs \ {x})
        /\ spawn_deliver(t, bound[s].principal, x, TRUE)
    BY <1>12 DEF DrainSpawn, At, TypeOK, registry, durable, history
  <2>2. h'[s].op \in {"draining", "idle"} /\ h'[s].recs = h[s].recs \ {x}
    BY <2>1, WithRecsFields
  <2>3. WillSpawn(s, m, r)' => WillSpawn(s, m, r)
    BY <2>1, <2>2 DEF WillSpawn
  <2>4. CASE bound[s].principal = r /\ x = m
    <3>1. WillSpawn(s, m, r) /\ ~WillSpawn(s, m, r)'
      BY <2>1, <2>2, <2>4 DEF WillSpawn
    <3> QED BY <1>4, <1>8, <2>1, <2>4, <3>1
  <2>5. CASE ~(bound[s].principal = r /\ x = m)
    <3>1. Tries(m, r)' \subseteq Tries(m, r)
      BY <2>1, <2>5, SpawnTries
    <3> QED BY <1>4, <1>6, <2>1, <2>3, <3>1
  <2> QED BY <2>4, <2>5
<1>13. CASE SweepRead(s) \/ (\E x \in Msgs : SweepFail(s, x))
  <2>0. UNCHANGED <<bound, task, sent, claims>>
    BY <1>13 DEF SweepRead, SweepFail, registry, durable, history
  <2>1. h'[s].op \in {"sweeping", "idle"}
    <3>1. PICK recs : h'[s] = WithRecs("sweeping", recs)
      BY <1>13 DEF SweepRead, SweepFail, TypeOK
    <3> QED BY <3>1, WithRecsFields
  <2>2. ~WillSpawn(s, m, r)'
    BY <2>1 DEF WillSpawn
  <2> QED BY <1>4, <1>5, <1>6, <2>0, <2>2
<1>14. ASSUME NEW x \in Principals, SendPartition(s, x) PROVE Budget(m, r)'
  <2>1. h'[s].op = "partition" /\ UNCHANGED <<bound, task, sent, claims>>
    BY <1>14 DEF SendPartition, At, TypeOK, Handler, registry, durable, history
  <2>2. ~WillSpawn(s, m, r)'
    BY <2>1 DEF WillSpawn
  <2> QED BY <1>4, <1>5, <1>6, <2>1, <2>2
<1>15. ASSUME NEW x \in Msgs, SendCommit(s, x) PROVE Budget(m, r)'
  <2>1. /\ x \notin sent /\ sent' = sent \cup {x} /\ UNCHANGED <<bound, task, claims>>
    BY <1>15 DEF SendCommit, registry, history
  <2>2. h'[s].op = "spawn" /\ h'[s].msg = x
    BY <1>15 DEF SendCommit, TypeOK, Handler
  <2>3. CASE x = m
    <3>1. Grants(m, r)' = Grants(m, r) + 1
      BY <2>1, <2>3 DEF Grants, TypeOK
    <3> QED BY <1>7, <2>1, <3>1
  <2>4. CASE x # m
    <3>1. ~WillSpawn(s, m, r)' /\ Grants(m, r)' = Grants(m, r)
      BY <2>1, <2>2, <2>4 DEF WillSpawn, Grants
    <3> QED BY <1>5, <1>6, <2>1, <3>1
  <2> QED BY <2>3, <2>4
<1>16. ASSUME NEW t \in Tasks, NEW q \in Principals, SendSpawn(s, t, q) PROVE Budget(m, r)'
  <2>1. /\ h[s].op = "spawn" /\ q \in h[s].todo /\ UNCHANGED <<bound, sent, claims>>
        /\ spawn_deliver(t, q, h[s].msg, TRUE)
    BY <1>16 DEF SendSpawn, At, registry, durable, history
  <2>2. h'[s].op = "spawn" /\ h'[s].msg = h[s].msg /\ h'[s].todo = h[s].todo \ {q}
    BY <1>16, <2>1 DEF SendSpawn, TypeOK, Handler
  <2>3. CASE h[s].msg = m /\ q = r
    <3>1. WillSpawn(s, m, r) /\ ~WillSpawn(s, m, r)'
      BY <2>1, <2>2, <2>3 DEF WillSpawn
    <3> QED BY <1>4, <1>8, <2>1, <2>3, <3>1
  <2>4. CASE ~(h[s].msg = m /\ q = r)
    <3>1. WillSpawn(s, m, r)' => WillSpawn(s, m, r)
      BY <2>1, <2>2 DEF WillSpawn
    <3>2. Tries(m, r)' \subseteq Tries(m, r)
      BY <2>1, <2>4, SpawnTries
    <3> QED BY <1>4, <1>6, <2>1, <3>1, <3>2
  <2> QED BY <2>3, <2>4
<1>17. CASE SendTap(s)
  <2>0. UNCHANGED <<bound, task, sent, claims>>
    BY <1>17 DEF SendTap, registry, durable, history
  <2>1. h'[s].op \in {"tapping", "idle"}
    BY <1>17, TapFields DEF Idle
  <2>2. ~WillSpawn(s, m, r)'
    BY <2>1 DEF WillSpawn
  <2> QED BY <1>4, <1>5, <1>6, <2>0, <2>2
<1>18. ASSUME NEW t \in Tasks, NEW q \in Principals, TapSpawn(s, t, q) PROVE Budget(m, r)'
  <2>1. /\ h[s].op = "tapping" /\ q \in h[s].todo /\ UNCHANGED <<bound, sent, ack, claims>>
        /\ spawn_deliver(t, q, h[s].msg, FALSE)
    BY <1>18 DEF TapSpawn, At, registry, durable, history
  <2>2. h'[s].op \in {"tapping", "idle"}
    BY <1>18, TapSpawnFields DEF Idle
  <2>3. ~(h[s].msg = m /\ q = r)
    BY <2>1 DEF TapInv, TapOK
  <2>4. Tries(m, r)' \subseteq Tries(m, r)
    BY <2>1, <2>3, SpawnTries
  <2>5. ~WillSpawn(s, m, r)'
    BY <2>2 DEF WillSpawn
  <2> QED BY <1>4, <1>6, <2>1, <2>4, <2>5
<1> QED BY <1>9, <1>10, <1>11, <1>12, <1>13, <1>14, <1>15, <1>16, <1>17, <1>18 DEF HandlerStep

\* Store failures and the restart sweep grant, spawn and hand over nothing.
LEMMA FaultBudget ==
  ASSUME TypeOK, TypeOK', NEW m \in Msgs, NEW r \in Principals, Budget(m, r), Fault
  PROVE  Budget(m, r)'
<1>1. ASSUME NEW s \in Sessions,
             \/ RegisterPersistFails(s) \/ DrainReadFails(s) \/ SweepReadFails(s)
             \/ SendCommitFails(s) \/ \E x \in Msgs : DrainSkips(s, x) \/ SweepAckFails(s, x)
      PROVE  Budget(m, r)'
  <2>1. UNCHANGED <<task, sent, claims, handed>>
    BY <1>1 DEF RegisterPersistFails, DrainReadFails, SweepReadFails, SendCommitFails, DrainSkips,
           SweepAckFails, durable
  <2>2. \A x \in Sessions : x # s => h'[x] = h[x] /\ bound'[x] = bound[x]
    BY <1>1 DEF RegisterPersistFails, DrainReadFails, SweepReadFails, SendCommitFails, DrainSkips,
           SweepAckFails, registry, TypeOK
  <2>3. ASSUME NEW x \in Msgs, DrainSkips(s, x) PROVE WillSpawn(s, m, r)' => WillSpawn(s, m, r)
    <3>1. /\ h[s].op = "draining" /\ UNCHANGED bound
          /\ h'[s] = WithRecs("draining", h[s].recs \ {x})
      BY <2>3 DEF DrainSkips, At, registry, TypeOK
    <3> QED BY <3>1, WithRecsFields DEF WillSpawn
  <2>4. ASSUME \A x \in Msgs : ~DrainSkips(s, x) PROVE h'[s].op \in {"sweeping", "idle"}
    <3>1. h'[s] = Idle \/ \E recs : h'[s] = WithRecs("sweeping", recs)
      BY <1>1, <2>4 DEF RegisterPersistFails, DrainReadFails, SweepReadFails, SendCommitFails,
             SweepAckFails, TypeOK
    <3>2. Idle.op = "idle"
      BY DEF Idle
    <3> QED BY <3>1, <3>2, WithRecsFields
  <2>5. WillSpawn(s, m, r)' => WillSpawn(s, m, r)
    BY <2>3, <2>4 DEF WillSpawn
  <2>6. Spawners(m, r)' \subseteq Spawners(m, r)
    BY <2>2, <2>5, OneSpawner
  <2>7. Tries(m, r)' = Tries(m, r) /\ Grants(m, r)' = Grants(m, r) /\ Grants(m, r) \in Nat
    BY <2>1 DEF Tries, Grants, TypeOK
  <2> QED BY <2>1, <2>6, <2>7, BudgetKept
<1>2. CASE GraceReadFails \/ GraceAckFails
  BY <1>2 DEF GraceReadFails, GraceAckFails, Budget, Tries, Spawners, WillSpawn, Grants,
              registry, durable
<1> QED BY <1>1, <1>2, TaskBudget DEF Fault\* A message that is stored stays stored, and a row it lacks it never gets.
LEMMA NoneStays ==
  ASSUME TypeOK, GivenInv, [Next]_vars
  PROVE  /\ sent \subseteq sent'
         /\ \A m \in sent, r \in Principals : ack[m][r] = "none" => ack'[m][r] = "none"
<1>1. CASE UNCHANGED <<sent, ack>>
  BY <1>1
<1>2. ASSUME NEW n \in Msgs, Posts(n)
      PROVE  /\ sent \subseteq sent'
             /\ \A m \in sent, r \in Principals : ack[m][r] = "none" => ack'[m][r] = "none"
  BY <1>2 DEF Posts, TypeOK
<1>3. ASSUME NEW n, NEW q, NEW st, Stores(n, q, st)
      PROVE  /\ sent \subseteq sent'
             /\ \A m \in sent, r \in Principals : ack[m][r] = "none" => ack'[m][r] = "none"
  BY <1>3 DEF Stores, ack_set, TypeOK
<1> QED BY <1>1, <1>2, <1>3, AckEffect

\* A step that leaves a handler alone leaves what it knows of the rows true.
LEMMA TapKept ==
  ASSUME TypeOK, GivenInv, [Next]_vars, NEW s \in Sessions, TapOK(s), h'[s] = h[s]
  PROVE  TapOK(s)'
<1>1. h[s].todo \subseteq Principals
  BY DEF TypeOK, Handler
<1>2. /\ sent \subseteq sent'
      /\ \A m \in sent, r \in Principals : ack[m][r] = "none" => ack'[m][r] = "none"
  BY NoneStays
<1> QED BY <1>1, <1>2 DEF TapOK

\* The send's own steps: the audience is resolved, parted, stored, and the tap
\* leaves it out.
LEMMA SendTapOK ==
  ASSUME TypeOK, TypeOK', NEW s \in Sessions, TapOK(s),
         \/ \E audience \in Audiences : SendResolve(s, audience)
         \/ \E q \in Principals : SendPartition(s, q)
         \/ \E m \in Msgs : SendCommit(s, m)
         \/ \E t \in Tasks, q \in Principals : SendSpawn(s, t, q) \/ TapSpawn(s, t, q)
         \/ SendTap(s)
  PROVE  TapOK(s)'
<1>1. ASSUME NEW audience \in Audiences, SendResolve(s, audience) PROVE TapOK(s)'
  <2>1. /\ h'[s].op = "partition" /\ h'[s].todo = audience /\ h'[s].audience = audience
        /\ h'[s].held = {}
    BY <1>1 DEF SendResolve, TypeOK, Idle
  <2> QED BY <2>1 DEF TapOK
<1>2. ASSUME NEW q \in Principals, SendPartition(s, q) PROVE TapOK(s)'
  <2>1. h[s].op = "partition" /\ q \in h[s].todo
    BY <1>2 DEF SendPartition, At
  <2>2. PICK held : /\ held = IF principal_active(q) THEN h[s].held \cup {q} ELSE h[s].held
                    /\ h' = [h EXCEPT ![s].todo = h[s].todo \ {q}, ![s].held = held]
    BY <1>2 DEF SendPartition, TypeOK, Handler
  <2>3. /\ h'[s].op = h[s].op /\ h'[s].todo = h[s].todo \ {q} /\ h'[s].held = held
        /\ h'[s].audience = h[s].audience
    BY <2>2 DEF TypeOK, Handler
  <2>4. held \subseteq h[s].held \cup {q}
    BY <2>2
  <2> QED BY <2>1, <2>3, <2>4 DEF TapOK
<1>3. ASSUME NEW m \in Msgs, SendCommit(s, m) PROVE TapOK(s)'
  <2>1. /\ h'[s].op = "spawn" /\ h'[s].msg = m /\ h'[s].audience = h[s].audience
    BY <1>3 DEF SendCommit, TypeOK, Handler
  <2>2. h[s].op = "partition" /\ m \in sent'
    BY <1>3 DEF SendCommit, At
  <2>3. \A r \in Principals \ h[s].audience : ack'[m][r] = "none"
    BY <1>3, <2>2 DEF SendCommit, TypeOK, TapOK
  <2> QED BY <2>1, <2>2, <2>3 DEF TapOK
<1>4. ASSUME NEW t \in Tasks, NEW q \in Principals, SendSpawn(s, t, q) PROVE TapOK(s)'
  <2>1. /\ h[s].op = "spawn" /\ UNCHANGED <<sent, ack>>
    BY <1>4 DEF SendSpawn, At, durable
  <2>2. h'[s].op = h[s].op /\ h'[s].msg = h[s].msg /\ h'[s].audience = h[s].audience
    BY <1>4 DEF SendSpawn, TypeOK, Handler
  <2> QED BY <2>1, <2>2 DEF TapOK
<1>5. CASE SendTap(s)
  <2>1. h[s].op = "spawn" /\ UNCHANGED <<sent, ack>>
    BY <1>5 DEF SendTap, At, durable
  <2>2. CASE h'[s] = Idle
    BY <2>2 DEF TapOK, Idle
  <2>3. CASE h'[s] # Idle
    <3>1. h'[s].op = "tapping" /\ h'[s].msg = h[s].msg /\ h'[s].todo \cap h[s].audience = {}
      BY <1>5, <2>3, TapFields
    <3>2. h'[s].todo \subseteq Principals
      BY DEF TypeOK, Handler
    <3> QED BY <2>1, <3>1, <3>2 DEF TapOK
  <2> QED BY <2>2, <2>3
<1>6. ASSUME NEW t \in Tasks, NEW q \in Principals, TapSpawn(s, t, q) PROVE TapOK(s)'
  <2>1. h[s].op = "tapping" /\ UNCHANGED <<sent, ack>>
    BY <1>6 DEF TapSpawn, At, durable
  <2>2. CASE h'[s] = Idle
    BY <2>2 DEF TapOK, Idle
  <2>3. CASE h'[s] # Idle
    <3>1. h'[s].op = "tapping" /\ h'[s].msg = h[s].msg /\ h'[s].todo = h[s].todo \ {q}
      BY <1>6, <2>3, TapSpawnFields
    <3> QED BY <2>1, <3>1 DEF TapOK
  <2> QED BY <2>2, <2>3
<1> QED BY <1>1, <1>2, <1>3, <1>4, <1>5, <1>6

\* Init and every step keep TapInv.
LEMMA TapInductive ==
  /\ Init => TapInv
  /\ TypeOK /\ TypeOK' /\ GivenInv /\ TapInv /\ [Next]_vars => TapInv'
<1>1. Init => TapInv
  BY DEF Init, TapInv, TapOK, Idle
<1>2. ASSUME TypeOK, TypeOK', GivenInv, TapInv, [Next]_vars, NEW x \in Sessions PROVE TapOK(x)'
  <2>0. TapOK(x)
    BY <1>2 DEF TapInv
  <2>1. ASSUME h'[x].op \notin {"partition", "spawn", "tapping"} PROVE TapOK(x)'
    BY <2>1 DEF TapOK
  <2>2. CASE h'[x] = h[x]
    BY <1>2, <2>0, <2>2, TapKept
  <2>3. CASE h'[x] # h[x]
    <3>1. ASSUME NEW recs PROVE /\ WithRecs("draining", recs).op \in {"draining", "idle"}
                                /\ WithRecs("sweeping", recs).op \in {"sweeping", "idle"}
      BY WithRecsFields
    <3>2. ASSUME NEW s \in Sessions, Request(s) PROVE TapOK(x)'
      <4>1. x = s
        BY <1>2, <2>3, <3>2 DEF Request, attach, RegisterClaim, deregister, DetachRemove,
               SendResolve, handle_notification, TypeOK
      <4>2. ASSUME NEW reg \in Registrations, RegisterClaim(s, reg) PROVE h'[s].op = "bind"
        BY <1>2, <4>2 DEF RegisterClaim, TypeOK, Idle
      <4>3. ASSUME DetachRemove(s) PROVE h'[s].op = "sweep"
        BY <1>2, <2>3, <4>1, <4>3 DEF DetachRemove, TypeOK, Idle
      <4> QED BY <1>2, <2>0, <2>1, <2>3, <3>2, <4>1, <4>2, <4>3, SendTapOK
              DEF Request, attach, deregister, handle_notification
    <3>3. ASSUME NEW s \in Sessions, HandlerStep(s) PROVE TapOK(x)'
      <4>1. x = s
        BY <1>2, <2>3, <3>3, HandlerFrame
      <4>2. ASSUME RegisterBind(s) \/ RegisterPersist(s) PROVE h'[s].op \in {"persist", "drain"}
        BY <1>2, <4>2 DEF RegisterBind, RegisterPersist, TypeOK, Idle
      <4>3. ASSUME DrainRead(s) \/ SweepRead(s) PROVE h'[s].op \notin {"partition", "spawn", "tapping"}
        BY <1>2, <3>1, <4>3 DEF DrainRead, SweepRead, TypeOK
      <4>4. ASSUME NEW m \in Msgs, SweepFail(s, m) \/ \E t \in Tasks : DrainSpawn(s, t, m)
            PROVE  h'[s].op \notin {"partition", "spawn", "tapping"}
        BY <1>2, <3>1, <4>4 DEF DrainSpawn, SweepFail, TypeOK
      <4> QED BY <1>2, <2>0, <2>1, <3>3, <4>1, <4>2, <4>3, <4>4, SendTapOK DEF HandlerStep
    <3>4. ASSUME Fault PROVE h'[x].op \notin {"partition", "spawn", "tapping"}
      <4>1. h'[x] = Idle \/ \E recs : h'[x] \in {WithRecs("draining", recs), WithRecs("sweeping", recs)}
        <5>1. ASSUME NEW s \in Sessions, RegisterPersistFails(s) \/ DrainReadFails(s)
                     \/ SweepReadFails(s) \/ SendCommitFails(s)
              PROVE  h'[x] \in {h[x], Idle}
          BY <1>2, <5>1 DEF RegisterPersistFails, DrainReadFails, SweepReadFails,
                 SendCommitFails, TypeOK
        <5>2. ASSUME NEW s \in Sessions, NEW m \in Msgs, DrainSkips(s, m) \/ SweepAckFails(s, m)
              PROVE  \/ h'[x] = h[x]
                     \/ h'[x] = WithRecs("draining", h[s].recs \ {m})
                     \/ h'[x] = WithRecs("sweeping", h[s].recs \ {m})
          BY <1>2, <5>2 DEF DrainSkips, SweepAckFails, TypeOK
        <5>3. ASSUME (\E t \in Tasks : TaskAckFails(t)) \/ GraceReadFails \/ GraceAckFails
              PROVE  h'[x] = h[x]
          BY <5>3 DEF TaskAckFails, GraceReadFails, GraceAckFails
        <5> QED BY <2>3, <3>4, <5>1, <5>2, <5>3 DEF Fault
      <4>2. Idle.op = "idle"
        BY DEF Idle
      <4> QED BY <3>1, <4>1, <4>2
    <3>5. ASSUME Restart PROVE h'[x].op = "idle"
      BY <3>5 DEF Restart, Idle
    <3>6. h' # h
      BY <2>3
    <3> QED BY <1>2, <2>1, <3>2, <3>3, <3>4, <3>5, <3>6, BackgroundFrame DEF Next, vars
  <2> QED BY <2>2, <2>3
<1> QED BY <1>1, <1>2 DEF TapInv

\* Init and every step keep the budgets.
LEMMA BudgetInductive ==
  /\ Init => BudgetInv
  /\ TypeOK /\ TypeOK' /\ GivenInv /\ TapInv /\ BudgetInv /\ [Next]_vars => BudgetInv'
<1>1. ASSUME Init PROVE BudgetInv
  <2> SUFFICES ASSUME NEW m \in Msgs, NEW r \in Principals PROVE Budget(m, r)
    BY DEF BudgetInv
  <2>1. Tries(m, r) = {} /\ Spawners(m, r) = {}
    BY <1>1 DEF Init, Tries, Spawners, Ahead, Free, WillSpawn, Idle
  <2>2. handed[m][r] = 0 /\ Grants(m, r) = 0
    BY <1>1 DEF Init, Grants
  <2> QED BY <2>1, <2>2, FS_EmptySet DEF Budget
<1>2. ASSUME TypeOK, TypeOK', GivenInv, TapInv, BudgetInv, [Next]_vars PROVE BudgetInv'
  <2> SUFFICES ASSUME NEW m \in Msgs, NEW r \in Principals, m \notin sent' \/ ack'[m][r] # "none"
               PROVE  Budget(m, r)'
    BY DEF BudgetInv
  <2>1. Budget(m, r)
    BY <1>2, NoneStays DEF BudgetInv
  <2>2. CASE UNCHANGED <<registry, h, task, sent, handed, claims>>
    BY <2>1, <2>2 DEF Budget, Tries, Spawners, WillSpawn, Grants, registry
  <2>3. CASE GraceStep \/ UNCHANGED vars
    <3>1. UNCHANGED <<registry, h, task, sent, handed, claims>>
      BY <2>3 DEF GraceStep, GraceRead, GraceCheck, GraceFail, vars, durable, history
    <3> QED BY <2>2, <3>1
  <2>4. CASE Restart
    <3>1. Tries(m, r)' = {} /\ Spawners(m, r)' = {}
      BY <2>4 DEF Restart, Tries, Spawners, Ahead, Free, WillSpawn, Idle
    <3>2. UNCHANGED <<sent, handed, claims>>
      BY <2>4 DEF Restart, durable
    <3>3. Grants(m, r)' = Grants(m, r) /\ Grants(m, r) \in Nat
      BY <1>2, <3>2 DEF Grants, TypeOK
    <3> QED BY <1>2, <2>1, <3>1, <3>2, <3>3, BudgetKept
  <2> QED BY <1>2, <2>1, <2>3, <2>4, TaskBudget, RequestBudget, HandlerBudget, FaultBudget DEF Next
<1> QED BY <1>1, <1>2

\* The budgets hold in every state.
LEMMA BudgetInvariant == Spec => [](TapInv /\ BudgetInv)
BY TypeCorrect, AckInvariant, TapInductive, BudgetInductive, PTL DEF Spec, AckInv

\* Retries do not multiply hand-overs: however tasks, drains, timeouts, late
\* arrivals and restarts interleave, a recipient is given a message at most once
\* for the send and once for each registration of its name, earlier ones included.
THEOREM HandoversBounded == Spec => []HandoverBound
<1>1. TypeOK /\ BudgetInv => HandoverBound
  <2> SUFFICES ASSUME TypeOK, BudgetInv, NEW m \in Msgs, NEW r \in Principals, ack[m][r] # "none"
               PROVE  handed[m][r] =< 1 + claims[r]
    BY DEF HandoverBound
  <2>1. Budget(m, r)
    BY DEF BudgetInv
  <2>2. /\ handed[m][r] \in Nat /\ claims[r] \in Nat
        /\ Cardinality(Tries(m, r)) \in Nat /\ Cardinality(Spawners(m, r)) \in Nat
    BY Counts DEF TypeOK
  <2> QED BY <2>1, <2>2 DEF Budget, Grants
<1> QED BY <1>1, TypeCorrect, BudgetInvariant, PTL
=============================================================================
