-------------------------- MODULE ConnectionProofs --------------------------
(***************************************************************************)
(* Proofs about Connection, for every limit and any number of concurrent   *)
(* senders: the bound of the queue, the exactness of its counter and of    *)
(* the pending map, and the truth of answers.                              *)
(***************************************************************************)
EXTENDS Connection, FiniteSetTheorems, TLAPS

\* The senders that have a slot and have not used it.
Pushing == {x \in Senders : at[x] = "push"}

QueueTypes ==
  /\ at \in [Senders -> {"idle", "reserve", "full", "push", "out"}]
  /\ queued \in Nat
  /\ chan \in Seq(Senders)
  /\ writer \in {"recv", "count", "write", "done"}

\* The writer holds a message from its receipt to its write, and drops the
\* channel when it ends.
WriterInv ==
  /\ hand # None <=> writer \in {"count", "write"}
  /\ writer = "done" => chan = <<>>

Counted ==
  writer # "done" =>
    queued = Len(chan) + Cardinality(Pushing) + (IF writer = "count" THEN 1 ELSE 0)

QueueInv == QueueTypes /\ WriterInv /\ queued =< Limit /\ Counted

\* There are finitely many senders, so a set of them has a size.
LEMMA PushingFinite == IsFiniteSet(Pushing) /\ Cardinality(Pushing) \in Nat
<1>1. IsFiniteSet(Calls \cup Notes)
  BY FiniteAssumption, FS_Union
<1>2. IsFiniteSet(Senders)
  BY <1>1, FS_AddElement DEF Senders
<1>3. Pushing \in SUBSET Senders
  BY DEF Pushing
<1>4. IsFiniteSet(Pushing)
  BY <1>2, <1>3, FS_Subset
<1> QED BY <1>4, FS_CardinalityType

\* Nothing is queued in the beginning.
LEMMA InitQueue == Init => QueueInv
<1> SUFFICES ASSUME Init PROVE QueueInv
  OBVIOUS
<1>1. Pushing = {}
  BY DEF Init, Pushing
<1>2. Cardinality(Pushing) = 0
  BY <1>1, FS_EmptySet
<1>3. QueueTypes /\ WriterInv /\ queued =< Limit
  BY LimitAssumption DEF Init, QueueTypes, WriterInv
<1> QED BY <1>2, <1>3 DEF Init, QueueInv, Counted

\* A slot is reserved only below the limit, and counted at once.
LEMMA ReserveQueue ==
  ASSUME QueueInv, NEW x \in Senders, SendReserves(x)
  PROVE  QueueInv'
<1>0. UNCHANGED <<chan, writer, hand>> /\ at[x] = "reserve"
  BY DEF SendReserves, writing
<1>1. CASE queued < Limit
  <2>1. queued' = queued + 1 /\ at' = [at EXCEPT ![x] = "push"]
    BY <1>1 DEF SendReserves
  <2>2. Pushing' = Pushing \cup {x} /\ x \notin Pushing
    BY <1>0, <2>1 DEF Pushing, QueueInv, QueueTypes
  <2>3. Cardinality(Pushing') = Cardinality(Pushing) + 1
    BY <2>2, PushingFinite, FS_AddElement
  <2>4. QueueTypes' /\ queued' =< Limit
    BY <1>0, <1>1, <2>1, LimitAssumption DEF QueueInv, QueueTypes
  <2>5. Counted'
    BY <1>0, <2>1, <2>3, PushingFinite DEF QueueInv, QueueTypes, Counted
  <2> QED BY <1>0, <2>4, <2>5 DEF QueueInv, WriterInv
<1>2. CASE ~(queued < Limit)
  <2>1. queued' = queued /\ at' = [at EXCEPT ![x] = "full"]
    BY <1>2 DEF SendReserves
  <2>2. Pushing' = Pushing
    BY <1>0, <2>1 DEF Pushing, QueueInv, QueueTypes
  <2>3. QueueTypes'
    BY <1>0, <2>1 DEF QueueInv, QueueTypes
  <2> QED BY <1>0, <2>1, <2>2, <2>3 DEF QueueInv, WriterInv, Counted
<1> QED BY <1>1, <1>2

\* A message enters the channel on its sender's slot.
LEMMA PushQueue ==
  ASSUME QueueInv, NEW x \in Senders, SendPushes(x)
  PROVE  QueueInv'
<1>1. /\ at[x] = "push" /\ at' = [at EXCEPT ![x] = "out"]
      /\ chan' = IF writer = "done" THEN chan ELSE Append(chan, x)
      /\ UNCHANGED <<queued, writer, hand>>
  BY DEF SendPushes, sending
<1>2. Pushing' = Pushing \ {x} /\ x \in Pushing
  BY <1>1 DEF Pushing, QueueInv, QueueTypes
<1>3. Cardinality(Pushing') = Cardinality(Pushing) - 1
  BY <1>2, PushingFinite, FS_RemoveElement
<1>4. QueueTypes' /\ WriterInv' /\ queued' =< Limit
  BY <1>1 DEF QueueInv, QueueTypes, WriterInv
<1>5. Counted'
  <2>1. writer # "done" => Len(chan') = Len(chan) + 1
    BY <1>1 DEF QueueInv, QueueTypes
  <2>2. Len(chan) \in Nat
    BY DEF QueueInv, QueueTypes
  <2> QED BY <1>1, <1>3, <2>1, <2>2, PushingFinite DEF QueueInv, QueueTypes, Counted
<1> QED BY <1>4, <1>5 DEF QueueInv

\* Every other step of a sender or of the loop leaves queue and writer alone and
\* takes no slot.
LEMMA OtherQueue ==
  ASSUME QueueInv, UNCHANGED <<queued, chan, writer, hand>>,
         at' \in [Senders -> {"idle", "reserve", "full", "push", "out"}],
         \A x \in Senders : at'[x] = "push" <=> at[x] = "push"
  PROVE  QueueInv'
<1>1. Pushing' = Pushing
  BY DEF Pushing
<1> QED BY <1>1 DEF QueueInv, QueueTypes, WriterInv, Counted

\* The writer counts off each message it has taken, once.
LEMMA WriterQueue ==
  ASSUME QueueInv, WriterReceives \/ WriterCounts \/ WriterWrites \/ WriterFails \/ LoopAborts
  PROVE  QueueInv'
<1>0. UNCHANGED at
  BY DEF WriterReceives, WriterCounts, WriterWrites, WriterFails, LoopAborts
<1>1. Pushing' = Pushing
  BY <1>0 DEF Pushing
<1>2. CASE WriterReceives
  <2>1. /\ writer = "recv" /\ writer' = "count" /\ chan # <<>>
        /\ hand' = Head(chan) /\ chan' = Tail(chan) /\ queued' = queued
    BY <1>2 DEF WriterReceives, sending
  <2>2. hand' \in Senders /\ chan' \in Seq(Senders) /\ Len(chan) = Len(chan') + 1
    BY <2>1 DEF QueueInv, QueueTypes
  <2>3. hand' # None
    BY <2>2, NoneAssumption DEF Senders
  <2>4. QueueTypes' /\ WriterInv'
    BY <1>0, <2>1, <2>2, <2>3 DEF QueueInv, QueueTypes, WriterInv
  <2>5. Len(chan') \in Nat
    BY <2>2
  <2>6. Counted'
    BY <1>1, <2>1, <2>2, <2>5, PushingFinite DEF QueueInv, QueueTypes, Counted
  <2> QED BY <2>1, <2>4, <2>6 DEF QueueInv
<1>3. CASE WriterCounts
  <2>1. /\ writer = "count" /\ writer' = "write" /\ queued' = queued - 1
        /\ UNCHANGED <<chan, hand>>
    BY <1>3 DEF WriterCounts
  <2>2. Len(chan) \in Nat
    BY DEF QueueInv, QueueTypes
  <2>3. queued = Len(chan) + Cardinality(Pushing) + 1
    BY <2>1 DEF QueueInv, Counted
  <2>4. QueueTypes' /\ queued' =< Limit
    BY <1>0, <2>1, <2>2, <2>3, PushingFinite, LimitAssumption DEF QueueInv, QueueTypes
  <2>5. Counted' /\ WriterInv'
    BY <1>1, <2>1, <2>2, <2>3, PushingFinite DEF QueueInv, WriterInv, Counted
  <2> QED BY <2>4, <2>5 DEF QueueInv
<1>4. CASE WriterWrites
  <2>1. /\ writer = "write" /\ writer' = "recv" /\ hand' = None
        /\ UNCHANGED <<chan, queued>>
    BY <1>4 DEF WriterWrites, sending
  <2> QED BY <1>0, <1>1, <2>1 DEF QueueInv, QueueTypes, WriterInv, Counted
<1>5. CASE WriterFails \/ LoopAborts
  <2>1. /\ writer' = "done" /\ hand' = None /\ chan' = <<>>
        /\ UNCHANGED queued
    BY <1>5 DEF WriterFails, LoopAborts, sending
  <2> QED BY <1>0, <2>1 DEF QueueInv, QueueTypes, WriterInv, Counted
<1> QED BY <1>2, <1>3, <1>4, <1>5

\* Every step keeps the queue's invariant.
LEMMA StepQueue == QueueInv /\ [Next]_vars => QueueInv'
<1> SUFFICES ASSUME QueueInv, [Next]_vars PROVE QueueInv'
  OBVIOUS
<1> USE DEF sending, writing
<1>1. CASE UNCHANGED vars
  BY <1>1, OtherQueue DEF vars, QueueInv, QueueTypes
<1>2. ASSUME NEW x \in Senders, SendBegins(x) PROVE QueueInv'
  BY <1>2, OtherQueue DEF SendBegins, QueueInv, QueueTypes
<1>3. ASSUME NEW x \in Senders, SendOverflows(x) PROVE QueueInv'
  BY <1>3, OtherQueue DEF SendOverflows, QueueInv, QueueTypes
<1>4. CASE \E c \in Calls : CallTimeout(c) \/ resolve_response(c)
  BY <1>4, OtherQueue DEF CallTimeout, resolve_response, QueueInv, QueueTypes
<1>5. CASE LoopReplied
  BY <1>5, OtherQueue DEF LoopReplied, QueueInv, QueueTypes, Senders
<1>6. CASE LoopHead \/ LoopSelects \/ LoopNotified \/ LoopDetaches \/ LoopReads \/ LoopEof
  BY <1>6, OtherQueue
     DEF LoopHead, LoopSelects, LoopNotified, LoopDetaches, LoopReads, LoopEof, QueueInv, QueueTypes
<1> QED
  BY <1>1, <1>2, <1>3, <1>4, <1>5, <1>6, ReserveQueue, PushQueue, WriterQueue
  DEF Next, SendStep, LoopStep

\* CountCovers for every instance (Session::send's fetch_update and the writer's
\* fetch_sub): the counter is exact while there is a writer, so it cannot wrap.
THEOREM CounterIsExact == Spec => []CountCovers
<1>1. QueueInv => CountCovers
  BY DEF QueueInv, Counted, Pushing, CountCovers
<1> QED BY <1>1, InitQueue, StepQueue, PTL DEF Spec

\* QueueBound for every instance: concurrent senders never overshoot max_out_queue.
THEOREM QueueIsBounded == Spec => []QueueBound
<1>1. ASSUME QueueInv PROVE QueueBound
  <2>1. Len(chan) \in Nat
    BY <1>1 DEF QueueInv, QueueTypes
  <2>2. CASE writer = "done"
    BY <1>1, <2>2, LimitAssumption DEF QueueInv, WriterInv, QueueBound
  <2>3. CASE writer # "done"
    BY <1>1, <2>1, <2>3, PushingFinite, LimitAssumption
    DEF QueueInv, QueueTypes, WriterInv, Counted, QueueBound
  <2> QED BY <2>2, <2>3
<1> QED BY <1>1, InitQueue, StepQueue, PTL DEF Spec

-----------------------------------------------------------------------------
(* Calls and their answers *)

CallTypes ==
  /\ at \in [Senders -> {"idle", "reserve", "full", "push", "out"}]
  /\ result \in [Calls -> {"none", "answer", "timeout"}]

\* A call that has not begun has no result yet.
CallInv ==
  /\ CallTypes
  /\ \A c \in Calls : at[c] = "idle" => result[c] = "none"
  /\ PendingExact
  /\ AnswerIsOwn

\* Steps that neither begin nor end a call.
LEMMA OtherCalls ==
  ASSUME CallInv, UNCHANGED <<pending, result>>, given \subseteq given',
         at' \in [Senders -> {"idle", "reserve", "full", "push", "out"}],
         \A c \in Calls : at'[c] = "idle" <=> at[c] = "idle"
  PROVE  CallInv'
BY DEF CallInv, CallTypes, PendingExact, AnswerIsOwn

\* Every step keeps it: a call gets its entry when it begins, and loses it when it
\* gets its result.
LEMMA StepCalls == CallInv /\ [Next]_vars => CallInv'
<1> SUFFICES ASSUME CallInv, [Next]_vars PROVE CallInv'
  OBVIOUS
<1>0. Calls \subseteq Senders /\ Reply \notin Calls
  BY SendersAssumption DEF Senders
<1> USE DEF calling
<1>1. CASE UNCHANGED vars
  BY <1>1, OtherCalls DEF vars, CallInv, CallTypes
<1>2. ASSUME NEW x \in Senders, SendBegins(x) PROVE CallInv'
  <2>1. /\ at[x] = "idle" /\ at' \in [Senders -> {"idle", "reserve", "full", "push", "out"}]
        /\ at'[x] # "idle" /\ \A c \in Senders : c # x => at'[c] = at[c]
        /\ pending' = IF x \in Calls THEN pending \cup {x} ELSE pending
        /\ UNCHANGED <<result, given>>
    BY <1>2 DEF SendBegins, CallInv, CallTypes
  <2> QED BY <1>0, <2>1 DEF CallInv, CallTypes, PendingExact, AnswerIsOwn
<1>3. ASSUME NEW x \in Senders, SendReserves(x) \/ SendOverflows(x) \/ SendPushes(x) PROVE CallInv'
  BY <1>0, <1>3, OtherCalls DEF SendReserves, SendOverflows, SendPushes, CallInv, CallTypes
<1>4. ASSUME NEW c \in Calls, CallTimeout(c) PROVE CallInv'
  BY <1>4 DEF CallTimeout, CallInv, CallTypes, PendingExact, AnswerIsOwn
<1>5. ASSUME NEW c \in Calls, resolve_response(c) PROVE CallInv'
  BY <1>5 DEF resolve_response, CallInv, CallTypes, PendingExact, AnswerIsOwn
<1>6. CASE LoopReplied
  BY <1>0, <1>6, OtherCalls DEF LoopReplied, CallInv, CallTypes, Senders
<1>7. CASE \/ WriterReceives \/ WriterCounts \/ WriterWrites \/ WriterFails \/ LoopAborts
           \/ LoopHead \/ LoopSelects \/ LoopNotified \/ LoopDetaches \/ LoopReads \/ LoopEof
  <2>1. UNCHANGED <<at, pending, result>> /\ given \subseteq given'
    BY <1>7 DEF WriterReceives, WriterCounts, WriterWrites, WriterFails, LoopAborts,
                LoopHead, LoopSelects, LoopNotified, LoopDetaches, LoopReads, LoopEof
  <2> QED BY <2>1, OtherCalls DEF CallInv, CallTypes
<1> QED
  BY <1>1, <1>2, <1>3, <1>4, <1>5, <1>6, <1>7 DEF Next, SendStep, LoopStep

\* No call has begun in the beginning.
LEMMA InitCalls == Init => CallInv
BY SendersAssumption DEF Init, CallInv, CallTypes, PendingExact, AnswerIsOwn, Senders

\* PendingExact for every instance (Session::call): the map neither leaks an entry
\* nor loses one.
THEOREM PendingIsExact == Spec => []PendingExact
<1>1. CallInv => PendingExact
  BY DEF CallInv
<1> QED BY <1>1, InitCalls, StepCalls, PTL DEF Spec

\* AnswerIsOwn for every instance (Session::resolve_response): a call gets only the
\* answer to its own request.
THEOREM AnswersAreOwn == Spec => []AnswerIsOwn
<1>1. CallInv => AnswerIsOwn
  BY DEF CallInv
<1> QED BY <1>1, InitCalls, StepCalls, PTL DEF Spec
=============================================================================
