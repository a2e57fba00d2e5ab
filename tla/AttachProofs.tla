---------------------------- MODULE AttachProofs ----------------------------
(***************************************************************************)
(* Theorems about CodexAttach, for any number of deliveries, clients and   *)
(* turns.                                                                  *)
(***************************************************************************)
EXTENDS CodexAttach, TLAPS

\* A delivery inside deliver holds the thread lock of its client; one that
\* waits for the lock has a client.
LockInv ==
  /\ \A d \in Deliveries : pc[d] = "lock" => client[d] \in Clients
  /\ \A d \in Deliveries : pc[d] \in Locked => client[d] \in Clients /\ lock[client[d]] = d

\* A delivery that polls a turn the app-server ran is input of that turn.
PollInv ==
  \A d \in Deliveries : pc[d] = "poll" =>
    /\ turn[d] \in Turns
    /\ turnState[turn[d]] \in {"dropped", "inProgress", "completed", "failed"}
    /\ turnState[turn[d]] # "dropped" => d \in content[turn[d]]

\* A delivery about to steer has read a turn that was started.
SteerInv ==
  \A d \in Deliveries : pc[d] = "steer" => turn[d] \in Turns /\ turnState[turn[d]] # "none"

AttachInv == TypeOK /\ LockInv /\ CommitPoint /\ InjectOnce /\ PollInv /\ SteerInv
             /\ ProcessedIsReal

-----------------------------------------------------------------------------
(* Types *)

\* Adding an input to a turn, existing or not, keeps the types.
LEMMA InjectType ==
  ASSUME TypeOK, NEW d \in Deliveries, NEW k, Inject(d, k)
  PROVE  content' \in [Turns -> SUBSET Deliveries] /\ given' \in [Deliveries -> Nat]
<1>1. content' \in [Turns -> SUBSET Deliveries]
  BY Zenon DEF TypeOK, Inject
<1>2. given' \in [Deliveries -> Nat]
  BY DEF TypeOK, Inject
<1> QED
  BY <1>1, <1>2

\* What deliver leaves when it returns is well typed.
LEMMA ReturnType ==
  ASSUME TypeOK, NEW d \in Deliveries, NEW to \in Pcs, Return(d, to)
  PROVE  /\ pc' \in [Deliveries -> Pcs]
         /\ client' \in [Deliveries -> Clients \cup {None}]
         /\ turn' \in [Deliveries -> Turns \cup {None}]
         /\ resumed' \in [Deliveries -> BOOLEAN]
         /\ refused' \in [Deliveries -> BOOLEAN]
         /\ lock' \in [Clients -> Deliveries \cup {None}]
<1>1. /\ pc' \in [Deliveries -> Pcs]
      /\ client' \in [Deliveries -> Clients \cup {None}]
      /\ turn' \in [Deliveries -> Turns \cup {None}]
  BY DEF TypeOK, Return, Go
<1>2. resumed' \in [Deliveries -> BOOLEAN] /\ refused' \in [Deliveries -> BOOLEAN]
  BY Zenon DEF TypeOK, Return
<1>3. lock' \in [Clients -> Deliveries \cup {None}]
  BY DEF TypeOK, Return
<1> QED
  BY <1>1, <1>2, <1>3

\* Every step keeps the types.
LEMMA TypeStep == TypeOK /\ LockInv /\ [Next]_vars => TypeOK'
<1> SUFFICES ASSUME TypeOK, LockInv, [Next]_vars PROVE TypeOK'
  OBVIOUS
<1> USE DEF TypeOK, engine, pool, server, Go, Pcs, Locked
<1>1. ASSUME NEW d \in Deliveries, DeliveryStep(d) \/ DialEnds(d) PROVE TypeOK'
  <2>1. CASE Check(d)
    BY <2>1 DEF Check
  <2>2. CASE DialOk(d)
    BY <2>2 DEF DialOk
  <2>3. CASE DialFails(d) \/ Evict(d)
    BY <2>3 DEF DialFails, Evict
  <2>30. CASE Cached(d) \/ NoDial(d) \/ Dial(d)
    BY <2>30 DEF Cached, NoDial, Dial
  <2>4. CASE Acquire(d)
    BY <2>4 DEF Acquire
  <2>5. CASE ReadBusy(d)
    BY <2>5 DEF ReadBusy, Active
  <2>6. CASE ReadDeadline(d) \/ ReadRefused(d) \/ ReadLost(d)
    BY <2>6, ReturnType DEF ReadDeadline, ReadRefused, ReadLost
  <2>7. CASE ReadIdle(d)
    BY <2>7 DEF ReadIdle
  <2>8. CASE ReadUnloaded(d)
    BY <2>8 DEF ReadUnloaded
  <2>9. CASE ResumeOk(d) \/ ResumeRefused(d)
    BY <2>9, ReturnType DEF ResumeOk, ResumeRefused
  <2>10. CASE ResumeLost(d)
    BY <2>10, ReturnType DEF ResumeLost
  <2>11. CASE SteerOk(d)
    BY <2>11, InjectType DEF SteerOk
  <2>12. CASE SteerRejected(d)
    BY <2>12 DEF SteerRejected
  <2>13. CASE SteerLost(d)
    BY <2>13, InjectType, ReturnType DEF SteerLost
  <2>14. ASSUME NEW k \in Turns, StartOk(d, k) PROVE TypeOK'
    BY <2>14, InjectType DEF StartOk, Starts
  <2>15. CASE StartUnloaded(d)
    BY <2>15 DEF StartUnloaded
  <2>31. CASE StartRefused(d)
    BY <2>31, ReturnType DEF StartRefused
  <2>16. CASE StartLost(d)
    BY <2>16, InjectType, ReturnType DEF StartLost, Starts
  <2>17. CASE PollCompleted(d) \/ PollFailed(d)
    BY <2>17, ReturnType DEF PollCompleted, PollFailed
  <2> QED
    BY <1>1, <2>1, <2>2, <2>3, <2>4, <2>5, <2>6, <2>7, <2>8, <2>9, <2>10, <2>11, <2>12, <2>13, <2>14, <2>15, <2>16, <2>17, <2>30, <2>31
       DEF DeliveryStep, DialEnds
<1>2. CASE Environment
  BY <1>2 DEF Environment, HumanTurn, NextTurn, TurnEnds, ThreadMoves, BackoffPasses, ConnectionDrops,
              SessionLeaves
<1>3. CASE UNCHANGED vars
  BY <1>3 DEF vars
<1> QED
  BY <1>1, <1>2, <1>3 DEF Next

-----------------------------------------------------------------------------
(* The thread lock *)

\* Every step keeps LockInv: deliver drops its guard exactly where it returns.
LEMMA LockStep ==
  ASSUME TypeOK, LockInv, [Next]_vars
  PROVE  LockInv'
<1> USE DEF TypeOK, LockInv, engine, pool, Go, Return, Locked
<1>1. ASSUME NEW d \in Deliveries, DeliveryStep(d) \/ DialEnds(d) PROVE LockInv'
  <2>1. CASE Check(d)
    BY <2>1 DEF Check
  <2>2. CASE DialOk(d)
    BY <2>2 DEF DialOk
  <2>3. CASE DialFails(d)
    BY <2>3 DEF DialFails
  <2>4. CASE Evict(d)
    BY <2>4 DEF Evict
  <2>30. CASE Cached(d)
    BY <2>30 DEF Cached
  <2>31. CASE NoDial(d) \/ Dial(d)
    BY <2>31 DEF NoDial, Dial
  <2>5. CASE Acquire(d)
    <3>1. /\ client[d] \in Clients /\ lock[client[d]] = None
          /\ lock' = [lock EXCEPT ![client[d]] = d]
          /\ pc' = [pc EXCEPT ![d] = "read"]
          /\ UNCHANGED client
      BY <2>5 DEF Acquire
    <3>2. \A e \in Deliveries : e # d /\ pc[e] \in Locked => client[e] # client[d]
      BY <3>1, NoneAssumption
    <3> QED
      BY <3>1, <3>2
  <2>6. CASE ReadBusy(d)
    BY <2>6 DEF ReadBusy
  <2>7. CASE ReadDeadline(d)
    BY <2>7 DEF ReadDeadline
  <2>8. CASE ReadRefused(d)
    BY <2>8 DEF ReadRefused
  <2>9. CASE ReadLost(d)
    BY <2>9 DEF ReadLost
  <2>10. CASE ReadIdle(d)
    BY <2>10 DEF ReadIdle
  <2>11. CASE ReadUnloaded(d)
    BY <2>11 DEF ReadUnloaded
  <2>12. CASE ResumeOk(d)
    BY <2>12 DEF ResumeOk
  <2>13. CASE ResumeRefused(d)
    BY <2>13 DEF ResumeRefused
  <2>14. CASE ResumeLost(d)
    BY <2>14 DEF ResumeLost
  <2>15. CASE SteerOk(d)
    BY <2>15 DEF SteerOk
  <2>16. CASE SteerRejected(d)
    BY <2>16 DEF SteerRejected
  <2>17. CASE SteerLost(d)
    BY <2>17 DEF SteerLost
  <2>18. ASSUME NEW k \in Turns, StartOk(d, k) PROVE LockInv'
    BY <2>18 DEF StartOk
  <2>19. CASE StartUnloaded(d)
    BY <2>19 DEF StartUnloaded
  <2>20. CASE StartRefused(d)
    BY <2>20 DEF StartRefused
  <2>21. CASE StartLost(d)
    BY <2>21 DEF StartLost
  <2>22. CASE PollCompleted(d)
    BY <2>22 DEF PollCompleted
  <2>23. CASE PollFailed(d)
    BY <2>23 DEF PollFailed
  <2> QED
    BY <1>1, <2>1, <2>2, <2>3, <2>4, <2>5, <2>6, <2>7, <2>8, <2>9, <2>10, <2>11, <2>12,
       <2>13, <2>14, <2>15, <2>16, <2>17, <2>18, <2>19, <2>20, <2>21, <2>22, <2>23, <2>30, <2>31
       DEF DeliveryStep, DialEnds
<1>2. CASE Environment
  BY <1>2 DEF Environment, HumanTurn, NextTurn, TurnEnds, ThreadMoves, BackoffPasses, ConnectionDrops,
              SessionLeaves, Active
<1>3. CASE UNCHANGED vars
  BY <1>3 DEF vars
<1> QED
  BY <1>1, <1>2, <1>3 DEF Next

-----------------------------------------------------------------------------
(* The commit point *)

\* Every step keeps CommitPoint and InjectOnce: a delivery injects only on its way
\* to a state it never retries from.
LEMMA CommitStep ==
  ASSUME TypeOK, CommitPoint, InjectOnce, [Next]_vars
  PROVE  CommitPoint' /\ InjectOnce'
<1> USE DEF TypeOK, CommitPoint, InjectOnce, engine, server, Go, Return
<1>1. ASSUME NEW d \in Deliveries, DeliveryStep(d) \/ DialEnds(d) PROVE CommitPoint' /\ InjectOnce'
  <2>1. CASE Check(d)
    BY <2>1 DEF Check
  <2>2. CASE DialOk(d)
    BY <2>2 DEF DialOk
  <2>3. CASE DialFails(d)
    BY <2>3 DEF DialFails
  <2>4. CASE Evict(d)
    BY <2>4 DEF Evict
  <2>30. CASE Cached(d)
    BY <2>30 DEF Cached
  <2>31. CASE NoDial(d) \/ Dial(d)
    BY <2>31 DEF NoDial, Dial
  <2>5. CASE Acquire(d)
    BY <2>5 DEF Acquire
  <2>6. CASE ReadBusy(d)
    BY <2>6 DEF ReadBusy
  <2>7. CASE ReadDeadline(d)
    BY <2>7 DEF ReadDeadline
  <2>8. CASE ReadRefused(d)
    BY <2>8 DEF ReadRefused
  <2>9. CASE ReadLost(d)
    BY <2>9 DEF ReadLost
  <2>10. CASE ReadIdle(d)
    BY <2>10 DEF ReadIdle
  <2>11. CASE ReadUnloaded(d)
    BY <2>11 DEF ReadUnloaded
  <2>12. CASE ResumeOk(d)
    BY <2>12 DEF ResumeOk
  <2>13. CASE ResumeRefused(d)
    BY <2>13 DEF ResumeRefused
  <2>14. CASE ResumeLost(d)
    BY <2>14 DEF ResumeLost
  <2>15. CASE SteerOk(d)
    BY <2>15 DEF SteerOk, Inject
  <2>16. CASE SteerRejected(d)
    BY <2>16 DEF SteerRejected
  <2>17. CASE SteerLost(d)
    BY <2>17 DEF SteerLost, Inject
  <2>18. ASSUME NEW k \in Turns, StartOk(d, k) PROVE CommitPoint' /\ InjectOnce'
    BY <2>18 DEF StartOk, Starts, NextTurn, Inject
  <2>19. CASE StartUnloaded(d)
    BY <2>19 DEF StartUnloaded
  <2>20. CASE StartRefused(d)
    BY <2>20 DEF StartRefused
  <2>21. CASE StartLost(d)
    BY <2>21 DEF StartLost, Starts, NextTurn, Inject
  <2>22. CASE PollCompleted(d)
    BY <2>22 DEF PollCompleted
  <2>23. CASE PollFailed(d)
    BY <2>23 DEF PollFailed
  <2> QED
    BY <1>1, <2>1, <2>2, <2>3, <2>4, <2>5, <2>6, <2>7, <2>8, <2>9, <2>10, <2>11, <2>12,
       <2>13, <2>14, <2>15, <2>16, <2>17, <2>18, <2>19, <2>20, <2>21, <2>22, <2>23, <2>30, <2>31
       DEF DeliveryStep, DialEnds
<1>2. CASE Environment
  BY <1>2 DEF Environment, HumanTurn, NextTurn, TurnEnds, ThreadMoves, BackoffPasses, ConnectionDrops,
              SessionLeaves, Active
<1>3. CASE UNCHANGED vars
  BY <1>3 DEF vars
<1> QED
  BY <1>1, <1>2, <1>3 DEF Next

-----------------------------------------------------------------------------
(* Turns *)

\* Every step keeps what deliveries know about turns: inputs stay, an ended turn
\* stays ended and a dropped one stays dropped.
LEMMA TurnStep ==
  ASSUME TypeOK, PollInv, SteerInv, ProcessedIsReal, [Next]_vars
  PROVE  PollInv' /\ SteerInv' /\ ProcessedIsReal'
<1> USE DEF TypeOK, PollInv, SteerInv, ProcessedIsReal, engine, server, Go, Return
<1>1. ASSUME NEW d \in Deliveries, DeliveryStep(d) \/ DialEnds(d) PROVE PollInv' /\ SteerInv' /\ ProcessedIsReal'
  <2>1. CASE Check(d)
    BY <2>1 DEF Check
  <2>2. CASE DialOk(d)
    BY <2>2 DEF DialOk
  <2>3. CASE DialFails(d)
    BY <2>3 DEF DialFails
  <2>4. CASE Evict(d)
    BY <2>4 DEF Evict
  <2>30. CASE Cached(d)
    BY <2>30 DEF Cached
  <2>31. CASE NoDial(d) \/ Dial(d)
    BY <2>31 DEF NoDial, Dial
  <2>5. CASE Acquire(d)
    BY <2>5 DEF Acquire
  <2>6. CASE ReadBusy(d)
    BY <2>6 DEF ReadBusy, Active
  <2>7. CASE ReadDeadline(d)
    BY <2>7 DEF ReadDeadline
  <2>8. CASE ReadRefused(d)
    BY <2>8 DEF ReadRefused
  <2>9. CASE ReadLost(d)
    BY <2>9 DEF ReadLost
  <2>10. CASE ReadIdle(d)
    BY <2>10 DEF ReadIdle
  <2>11. CASE ReadUnloaded(d)
    BY <2>11 DEF ReadUnloaded
  <2>12. CASE ResumeOk(d)
    BY <2>12 DEF ResumeOk
  <2>13. CASE ResumeRefused(d)
    BY <2>13 DEF ResumeRefused
  <2>14. CASE ResumeLost(d)
    BY <2>14 DEF ResumeLost
  <2>15. CASE SteerOk(d)
    BY <2>15 DEF SteerOk, Inject, Active
  <2>16. CASE SteerRejected(d)
    BY <2>16 DEF SteerRejected
  <2>17. CASE SteerLost(d)
    BY <2>17 DEF SteerLost, Inject, Active
  <2>18. ASSUME NEW k \in Turns, StartOk(d, k) PROVE PollInv' /\ SteerInv' /\ ProcessedIsReal'
    BY <2>18 DEF StartOk, Starts, NextTurn, Inject, Active
  <2>19. CASE StartUnloaded(d)
    BY <2>19 DEF StartUnloaded
  <2>20. CASE StartRefused(d)
    BY <2>20 DEF StartRefused
  <2>21. CASE StartLost(d)
    BY <2>21 DEF StartLost, Starts, NextTurn, Inject, Active
  <2>22. CASE PollCompleted(d)
    BY <2>22 DEF PollCompleted
  <2>23. CASE PollFailed(d)
    BY <2>23 DEF PollFailed
  <2> QED
    BY <1>1, <2>1, <2>2, <2>3, <2>4, <2>5, <2>6, <2>7, <2>8, <2>9, <2>10, <2>11, <2>12,
       <2>13, <2>14, <2>15, <2>16, <2>17, <2>18, <2>19, <2>20, <2>21, <2>22, <2>23, <2>30, <2>31
       DEF DeliveryStep, DialEnds
<1>2. CASE Environment
  <2>1. ASSUME NEW k \in Turns, HumanTurn(k) \/ TurnEnds(k) PROVE PollInv' /\ SteerInv' /\ ProcessedIsReal'
    BY <2>1 DEF HumanTurn, NextTurn, TurnEnds, Active
  <2> QED
    BY <1>2, <2>1 DEF Environment, ThreadMoves, BackoffPasses, ConnectionDrops, SessionLeaves
<1>3. CASE UNCHANGED vars
  BY <1>3 DEF vars
<1> QED
  BY <1>1, <1>2, <1>3 DEF Next

-----------------------------------------------------------------------------
(* The theorems *)

\* Init and every step keep AttachInv.
LEMMA AttachInductive ==
  /\ Init => AttachInv
  /\ AttachInv /\ [Next]_vars => AttachInv'
<1>1. ASSUME Init PROVE AttachInv
  <2>1. TypeOK
    BY <1>1 DEF Init, TypeOK, Pcs, Locked
  <2>2. LockInv /\ CommitPoint /\ InjectOnce /\ PollInv /\ SteerInv /\ ProcessedIsReal
    BY <1>1 DEF Init, LockInv, CommitPoint, InjectOnce, PollInv, SteerInv, ProcessedIsReal, Locked
  <2> QED
    BY <2>1, <2>2 DEF AttachInv
<1>2. AttachInv /\ [Next]_vars => AttachInv'
  BY TypeStep, LockStep, CommitStep, TurnStep DEF AttachInv
<1> QED
  BY <1>1, <1>2

\* AttachInv holds in every state.
LEMMA AttachInvariant == Spec => []AttachInv
BY AttachInductive, PTL DEF Spec

\* The control points, the client pool and the app-server keep their types.
THEOREM AttachTypes == Spec => []TypeOK
<1>1. AttachInv => TypeOK
  BY DEF AttachInv
<1> QED
  BY <1>1, AttachInvariant, PTL

\* A delivery that may be tried again has injected nothing.
THEOREM RetriesAreSafe == Spec => []CommitPoint
<1>1. AttachInv => CommitPoint
  BY DEF AttachInv
<1> QED
  BY <1>1, AttachInvariant, PTL

\* However many calls are lost and however often the loop starts over, a
\* delivery enters at most one turn.
THEOREM DeliveryInjectsOnce == Spec => []InjectOnce
<1>1. AttachInv => InjectOnce
  BY DEF AttachInv
<1> QED
  BY <1>1, AttachInvariant, PTL

\* Processed is reported only for an input of a completed turn.
THEOREM ProcessedMeansCompleted == Spec => []ProcessedIsReal
<1>1. AttachInv => ProcessedIsReal
  BY DEF AttachInv
<1> QED
  BY <1>1, AttachInvariant, PTL

\* No two deliveries of one attach client are inside deliver.
THEOREM ThreadLockExcludes == Spec => []LockExclusive
<1>1. AttachInv => LockExclusive
  BY DEF AttachInv, LockInv, LockExclusive
<1> QED
  BY <1>1, AttachInvariant, PTL
=============================================================================
