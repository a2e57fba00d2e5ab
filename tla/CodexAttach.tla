---------------------------- MODULE CodexAttach ----------------------------
(***************************************************************************)
(* Deliveries into one Codex thread: the retry loop deliver_via_codex and  *)
(* the cache of attach clients (crates/broker/src/core.rs), and the        *)
(* delivery engine CodexAttach::deliver (crates/adapter-codex/src/         *)
(* attach.rs), against an app-server that runs turns for its human, whose  *)
(* connections drop and whose answers get lost.                            *)
(*                                                                         *)
(* One step of a delivery is one call to the app-server with its answer,   *)
(* or one lock of the client cache or of the thread.                       *)
(***************************************************************************)
EXTENDS Naturals, FiniteSets

CONSTANTS
  Deliveries,   \* deliver_via_codex tasks for one thread
  Clients,      \* attach clients ever dialled, numbered (bound)
  Turns,        \* turns of the thread, numbered (bound)
  None          \* no client, no delivery, no turn

ASSUME NoneAssumption ==
  None \notin Deliveries /\ None \notin Clients /\ None \notin Turns

ASSUME NumbersAssumption == Clients \subseteq Nat /\ Turns \subseteq Nat

VARIABLES
  pc,         \* pc[d]: where delivery d stands
  client,     \* client[d]: the attach client it holds
  turn,       \* turn[d]: the turn it read as active, or polls
  resumed,    \* resumed[d]: deliver has used its one thread/resume
  refused,    \* refused[d]: a turn/steer was rejected (steer_refused)
  cache,      \* AttachCache.clients for this endpoint
  backoff,    \* AttachCache.dial_backoff for this endpoint has not passed
  dialled,    \* clients that have been connected
  up,         \* clients whose connection is open
  lock,       \* lock[c]: holder of client c's turn lock for the thread
  present,    \* the recipient's session is still attached and bound
  thread,     \* app-server: "loaded", "unloaded" or "gone"
  turnState,  \* app-server: turnState[k]
  content,    \* app-server: content[k], the deliveries turn k has as input
  given       \* given[d]: how often d's text entered a turn

engine == <<pc, client, turn, resumed, refused>>
pool   == <<cache, backoff, dialled, up>>
server == <<thread, turnState, content, given>>
vars   == <<engine, pool, lock, present, server>>

Locked    == {"read", "steer", "start", "resume", "restart", "poll"}
Pcs == {"check", "dial", "dialling", "lock", "evict", "processed", "failed"} \cup Locked

\* Every variable has its type: the control points of the two loops.
TypeOK ==
  /\ pc \in [Deliveries -> Pcs]
  /\ client \in [Deliveries -> Clients \cup {None}]
  /\ turn \in [Deliveries -> Turns \cup {None}]
  /\ resumed \in [Deliveries -> BOOLEAN]
  /\ refused \in [Deliveries -> BOOLEAN]
  /\ cache \in Clients \cup {None}
  /\ backoff \in BOOLEAN
  /\ dialled \subseteq Clients
  /\ up \subseteq Clients
  /\ lock \in [Clients -> Deliveries \cup {None}]
  /\ present \in BOOLEAN
  /\ thread \in {"loaded", "unloaded", "gone"}
  /\ turnState \in [Turns -> {"none", "dropped", "inProgress", "completed", "failed"}]
  /\ content \in [Turns -> SUBSET Deliveries]
  /\ given \in [Deliveries -> Nat]

Init ==
  /\ pc = [d \in Deliveries |-> "check"]
  /\ client = [d \in Deliveries |-> None]
  /\ turn = [d \in Deliveries |-> None]
  /\ resumed = [d \in Deliveries |-> FALSE]
  /\ refused = [d \in Deliveries |-> FALSE]
  /\ cache = None
  /\ backoff = FALSE
  /\ dialled = {}
  /\ up = {}
  /\ lock = [c \in Clients |-> None]
  /\ present = TRUE
  /\ thread = "loaded"
  /\ turnState = [k \in Turns |-> "none"]
  /\ content = [k \in Turns |-> {}]
  /\ given = [d \in Deliveries |-> 0]

Go(d, to) == pc' = [pc EXCEPT ![d] = to]

-----------------------------------------------------------------------------
(* deliver_via_codex and the client cache *)

\* Mutant: the loop does not look at the session.
Check_Blind(d) ==
  /\ pc[d] = "check"
  /\ Go(d, "dial")
  /\ UNCHANGED <<client, turn, resumed, refused, pool, lock, present, server>>

\* Head of the loop: the session is gone or replaced, or try (again).
Check(d) ==
  /\ pc[d] = "check"
  /\ Go(d, IF present THEN "dial" ELSE "failed")
  /\ UNCHANGED <<client, turn, resumed, refused, pool, lock, present, server>>

\* The lock of the cache is free: nobody dials.
CacheFree == \A d \in Deliveries : pc[d] # "dialling"

\* codex_attach_client, under the cache lock: the cached client ...
Cached(d) ==
  /\ pc[d] = "dial" /\ CacheFree
  /\ cache # None
  /\ client' = [client EXCEPT ![d] = cache]
  /\ Go(d, "lock")
  /\ UNCHANGED <<turn, resumed, refused, pool, lock, present, server>>

\* ... or the backoff has not passed or the token cannot be read: Unreachable ...
NoDial(d) ==
  /\ pc[d] = "dial" /\ CacheFree
  /\ cache = None
  /\ Go(d, "evict")
  /\ UNCHANGED <<client, turn, resumed, refused, pool, lock, present, server>>

\* ... or a dial, which keeps the cache lock until it ends ...
Dial(d) ==
  /\ pc[d] = "dial" /\ CacheFree
  /\ cache = None /\ ~backoff
  /\ Go(d, "dialling")
  /\ UNCHANGED <<client, turn, resumed, refused, pool, lock, present, server>>

\* ... with a client ...
DialOk(d) ==
  /\ pc[d] = "dialling"
  /\ \E c \in Clients :
       /\ c \notin dialled /\ \A b \in Clients : b < c => b \in dialled
       /\ dialled' = dialled \cup {c}
       /\ up' = up \cup {c}
       /\ cache' = c
       /\ client' = [client EXCEPT ![d] = c]
  /\ Go(d, "lock")
  /\ UNCHANGED <<turn, resumed, refused, backoff, lock, present, server>>

\* ... or without one, which sets the backoff: Unreachable.
DialFails(d) ==
  /\ pc[d] = "dialling"
  /\ backoff' = TRUE
  /\ Go(d, "evict")
  /\ UNCHANGED <<client, turn, resumed, refused, cache, dialled, up, lock, present, server>>

BackoffPasses ==
  /\ backoff
  /\ backoff' = FALSE
  /\ UNCHANGED <<engine, cache, dialled, up, lock, present, server>>

\* After Unreachable: drop whatever client is cached for the endpoint, sleep and
\* start over; an untracked copy ends here.
Evict(d) ==
  /\ pc[d] = "evict" /\ CacheFree
  /\ cache' = None
  /\ \E to \in {"check", "failed"} : Go(d, to)
  /\ UNCHANGED <<client, turn, resumed, refused, backoff, dialled, up, lock, present, server>>

-----------------------------------------------------------------------------
(* CodexAttach::deliver *)

\* Mutant: deliver does not wait for the thread's lock.
Acquire_NoWait(d) ==
  /\ pc[d] = "lock"
  /\ lock' = [lock EXCEPT ![client[d]] = d]
  /\ Go(d, "read")
  /\ UNCHANGED <<client, turn, resumed, refused, pool, present, server>>

\* thread_lock(thread_id).lock().await: one delivery per thread and client.
Acquire(d) ==
  /\ pc[d] = "lock"
  /\ lock[client[d]] = None
  /\ lock' = [lock EXCEPT ![client[d]] = d]
  /\ Go(d, "read")
  /\ UNCHANGED <<client, turn, resumed, refused, pool, present, server>>

\* deliver returns to the loop above, dropping the guard of the lock, the client
\* and its local variables.
Return(d, to) ==
  /\ lock' = [lock EXCEPT ![client[d]] = None]
  /\ client' = [client EXCEPT ![d] = None]
  /\ turn' = [turn EXCEPT ![d] = None]
  /\ resumed' = [resumed EXCEPT ![d] = FALSE]
  /\ refused' = [refused EXCEPT ![d] = FALSE]
  /\ Go(d, to)

Active == {k \in Turns : turnState[k] = "inProgress"}
Answers(d) == client[d] \in up

\* thread/read finds a turn it can steer ...
ReadBusy(d) ==
  /\ pc[d] = "read" /\ Answers(d) /\ thread = "loaded"
  /\ ~refused[d]
  /\ \E k \in Active : turn' = [turn EXCEPT ![d] = k]
  /\ Go(d, "steer")
  /\ UNCHANGED <<client, resumed, refused, pool, lock, present, server>>

\* ... or a busy thread without a turn to steer, or one that refused the steer,
\* which it reads again until the deadline passes ...
ReadDeadline(d) ==
  /\ pc[d] = "read" /\ Answers(d) /\ thread = "loaded"
  /\ Active # {}
  /\ Return(d, "failed")
  /\ UNCHANGED <<pool, present, server>>

\* ... or an idle one ("not materialized yet" included) ...
ReadIdle(d) ==
  /\ pc[d] = "read" /\ Answers(d) /\ thread = "loaded"
  /\ Active = {}
  /\ Go(d, "start")
  /\ UNCHANGED <<client, turn, resumed, refused, pool, lock, present, server>>

\* ... or an unloaded one, resumed once per deliver ...
ReadUnloaded(d) ==
  /\ pc[d] = "read" /\ Answers(d) /\ thread = "unloaded"
  /\ ~resumed[d]
  /\ resumed' = [resumed EXCEPT ![d] = TRUE]
  /\ Go(d, "resume")
  /\ UNCHANGED <<client, turn, refused, pool, lock, present, server>>

\* ... or an error no resume may follow: gone, unloaded again, unidentified ...
ReadRefused(d) ==
  /\ pc[d] = "read" /\ Answers(d)
  /\ Return(d, "failed")
  /\ UNCHANGED <<pool, present, server>>

\* ... or no answer arrives: nothing was injected, the loop may retry.
ReadLost(d) ==
  /\ pc[d] = "read"
  /\ Return(d, "evict")
  /\ UNCHANGED <<pool, present, server>>

\* thread/resume answers; after a failed read its loss is still retriable.
ResumeOk(d) ==
  /\ pc[d] \in {"resume", "restart"} /\ Answers(d) /\ thread # "gone"
  /\ thread' = "loaded"
  /\ Go(d, "read")
  /\ UNCHANGED <<client, turn, resumed, refused, pool, lock, present, turnState, content, given>>

ResumeRefused(d) ==
  /\ pc[d] \in {"resume", "restart"} /\ Answers(d)
  /\ Return(d, "failed")
  /\ UNCHANGED <<pool, present, server>>

ResumeLost(d) ==
  /\ pc[d] \in {"resume", "restart"}
  /\ Return(d, IF pc[d] = "resume" THEN "evict" ELSE "failed")
  /\ \/ UNCHANGED thread
     \/ Answers(d) /\ thread = "unloaded" /\ thread' = "loaded"
  /\ UNCHANGED <<pool, present, turnState, content, given>>

\* d's text becomes input of turn k.
Inject(d, k) ==
  /\ content' = [content EXCEPT ![k] = @ \cup {d}]
  /\ given' = [given EXCEPT ![d] = @ + 1]

\* turn/steer is accepted: the turn it named is still in progress ...
SteerOk(d) ==
  /\ pc[d] = "steer" /\ Answers(d)
  /\ turn[d] \in Active
  /\ Inject(d, turn[d])
  /\ Go(d, "poll")
  /\ UNCHANGED <<client, turn, resumed, refused, pool, lock, present, thread, turnState>>

\* ... or rejected (over, or not steerable): fall back to an idle turn/start ...
SteerRejected(d) ==
  /\ pc[d] = "steer" /\ Answers(d)
  /\ refused' = [refused EXCEPT ![d] = TRUE]
  /\ turn' = [turn EXCEPT ![d] = None]
  /\ Go(d, "read")
  /\ UNCHANGED <<client, resumed, pool, lock, present, server>>

\* Mutant: a steer without an answer is retried as unreachable.
SteerLost_Retries(d) ==
  /\ pc[d] = "steer"
  /\ \/ UNCHANGED server
     \/ /\ Answers(d) /\ turn[d] \in Active
        /\ Inject(d, turn[d]) /\ UNCHANGED <<thread, turnState>>
  /\ Return(d, "evict")
  /\ UNCHANGED <<pool, present>>

\* ... or its answer is lost or has no turn id: completion unknown, terminal.
SteerLost(d) ==
  /\ pc[d] = "steer"
  /\ \/ UNCHANGED server
     \/ /\ Answers(d) /\ turn[d] \in Active
        /\ Inject(d, turn[d]) /\ UNCHANGED <<thread, turnState>>
  /\ Return(d, "failed")
  /\ UNCHANGED <<pool, present>>

\* Turns have ids in the order they come in.
NextTurn(k) == turnState[k] = "none" /\ \A j \in Turns : j < k => turnState[j] # "none"

\* A turn the app-server starts for d; while another is in progress it accepts
\* the request and drops it (attach.rs:348).
Starts(d, k) ==
  /\ NextTurn(k)
  /\ IF Active = {}
     THEN turnState' = [turnState EXCEPT ![k] = "inProgress"] /\ Inject(d, k)
     ELSE turnState' = [turnState EXCEPT ![k] = "dropped"] /\ UNCHANGED <<content, given>>
  /\ UNCHANGED thread

StartOk(d, k) ==
  /\ pc[d] = "start" /\ Answers(d) /\ thread = "loaded"
  /\ Starts(d, k)
  /\ turn' = [turn EXCEPT ![d] = k]
  /\ Go(d, "poll")
  /\ UNCHANGED <<client, resumed, refused, pool, lock, present>>

\* turn/start finds the thread unloaded: one resume, then read again.
StartUnloaded(d) ==
  /\ pc[d] = "start" /\ Answers(d) /\ thread = "unloaded"
  /\ ~resumed[d]
  /\ resumed' = [resumed EXCEPT ![d] = TRUE]
  /\ Go(d, "restart")
  /\ UNCHANGED <<client, turn, refused, pool, lock, present, server>>

StartRefused(d) ==
  /\ pc[d] = "start" /\ Answers(d)
  /\ Return(d, "failed")
  /\ UNCHANGED <<pool, present, server>>

\* The answer to turn/start is lost or has no turn id: terminal.
StartLost(d) ==
  /\ pc[d] = "start"
  /\ \/ UNCHANGED server
     \/ /\ Answers(d) /\ thread = "loaded"
        /\ \E k \in Turns : Starts(d, k)
  /\ Return(d, "failed")
  /\ UNCHANGED <<pool, present>>

\* Mutant: a turn that is no longer in progress counts as completed.
PollCompleted_AnyEnd(d) ==
  /\ pc[d] = "poll" /\ Answers(d) /\ thread = "loaded"
  /\ turnState[turn[d]] # "inProgress"
  /\ Return(d, "processed")
  /\ UNCHANGED <<pool, present, server>>

\* The poll sees the turn completed ...
PollCompleted(d) ==
  /\ pc[d] = "poll" /\ Answers(d) /\ thread = "loaded"
  /\ turnState[turn[d]] = "completed"
  /\ Return(d, "processed")
  /\ UNCHANGED <<pool, present, server>>

\* Mutant: a turn that takes too long is steered again.
PollFailed_Steers(d) ==
  /\ pc[d] = "poll" /\ Answers(d)
  /\ turn[d] \in Active
  /\ Inject(d, turn[d])
  /\ UNCHANGED <<engine, pool, lock, present, thread, turnState>>

\* ... or ended otherwise, or fails, or gets no answer, or runs out of time.
PollFailed(d) ==
  /\ pc[d] = "poll"
  /\ Return(d, "failed")
  /\ UNCHANGED <<pool, present, server>>

-----------------------------------------------------------------------------
(* The app-server, its human and the network *)

HumanTurn(k) ==
  /\ thread = "loaded" /\ Active = {} /\ NextTurn(k)
  /\ turnState' = [turnState EXCEPT ![k] = "inProgress"]
  /\ UNCHANGED <<engine, pool, lock, present, thread, content, given>>

TurnEnds(k) ==
  /\ k \in Active
  /\ \E st \in {"completed", "failed"} : turnState' = [turnState EXCEPT ![k] = st]
  /\ UNCHANGED <<engine, pool, lock, present, thread, content, given>>

\* An idle thread unloads; its human loads it again; or it is deleted.
ThreadMoves ==
  /\ Active = {}
  /\ \/ thread = "loaded" /\ thread' = "unloaded"
     \/ thread = "unloaded" /\ thread' \in {"loaded", "gone"}
  /\ UNCHANGED <<engine, pool, lock, present, turnState, content, given>>

\* The connection of a client somebody has.
ConnectionDrops(c) ==
  /\ c \in up /\ (c = cache \/ \E d \in Deliveries : client[d] = c)
  /\ up' = up \ {c}
  /\ UNCHANGED <<engine, cache, backoff, dialled, lock, present, server>>

SessionLeaves ==
  /\ present
  /\ present' = FALSE
  /\ UNCHANGED <<engine, pool, lock, server>>

-----------------------------------------------------------------------------
\* The steps of a delivery that are bounded in time.
DeliveryStep(d) ==
  \/ Check(d) \/ Cached(d) \/ NoDial(d) \/ Dial(d) \/ Evict(d) \/ Acquire(d)
  \/ ReadBusy(d) \/ ReadDeadline(d) \/ ReadIdle(d) \/ ReadUnloaded(d)
  \/ ReadRefused(d) \/ ReadLost(d)
  \/ ResumeOk(d) \/ ResumeRefused(d) \/ ResumeLost(d)
  \/ SteerOk(d) \/ SteerRejected(d) \/ SteerLost(d)
  \/ (\E k \in Turns : StartOk(d, k)) \/ StartUnloaded(d) \/ StartRefused(d) \/ StartLost(d)
  \/ PollCompleted(d) \/ PollFailed(d)

\* A dial is not: the WebSocket handshake has no timeout (attach.rs:91-92).
DialEnds(d) == DialOk(d) \/ DialFails(d)

Environment ==
  \/ \E k \in Turns : HumanTurn(k) \/ TurnEnds(k)
  \/ ThreadMoves
  \/ BackoffPasses
  \/ \E c \in Clients : ConnectionDrops(c)
  \/ SessionLeaves

Next == (\E d \in Deliveries : DeliveryStep(d) \/ DialEnds(d)) \/ Environment

Spec == Init /\ [][Next]_vars

\* Every call to the app-server times out and every deadline passes, so a
\* delivery that can take a step takes one; but a dial need not end.
FairSpec == Spec /\ \A d \in Deliveries : WF_vars(DeliveryStep(d))

-----------------------------------------------------------------------------
(* Properties *)

\* Unreachable means "before any delivery commit point" (adapter-codex/src/
\* lib.rs:19-21): a delivery that may still be tried again has injected nothing.
CommitPoint ==
  \A d \in Deliveries : pc[d] \notin {"poll", "processed", "failed"} => given[d] = 0

\* However often calls are lost, threads unload and the loop retries, one
\* delivery puts its text into at most one turn (lib.rs:5-7).
InjectOnce == \A d \in Deliveries : given[d] =< 1

\* Processed is reported only for a message that is input of a completed turn,
\* never for a turn/start the app-server dropped.
ProcessedIsReal ==
  \A d \in Deliveries :
    pc[d] = "processed" => \E k \in Turns : turnState[k] = "completed" /\ d \in content[k]

\* thread_lock: no two deliveries of one attach client are inside deliver.
LockExclusive ==
  \A d1, d2 \in Deliveries :
    pc[d1] \in Locked /\ pc[d2] \in Locked /\ client[d1] = client[d2] => d1 = d2

\* "One delivery at a time into a given thread" (CX-2, attach.rs:64-66).  The
\* code breaks it: a delivery that comes back unreachable drops whichever
\* client is cached, also one a concurrent delivery has just dialled, and the
\* next dial brings a second set of locks for the same thread.
SerialDelivery ==
  \A d1, d2 \in Deliveries : pc[d1] \in Locked /\ pc[d2] \in Locked => d1 = d2

\* No store-and-forward (CX-5, core.rs:465-468): once the recipient's session
\* is gone, every delivery comes to an end, unless one dial hangs for ever, with
\* the lock of the cache that all the others need.
EndsAfterLeave ==
  ~present ~> \/ \A d \in Deliveries : pc[d] \in {"processed", "failed"}
              \/ [](\E d \in Deliveries : pc[d] = "dialling")
=============================================================================
