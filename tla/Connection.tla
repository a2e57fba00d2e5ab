----------------------------- MODULE Connection -----------------------------
(***************************************************************************)
(* One connection of the broker: handle_connection with its writer task    *)
(* (crates/broker/src/server.rs), and Session::send, call and              *)
(* resolve_response (core.rs), which any task may use at any time.         *)
(*                                                                         *)
(* A step is one atomic access to the counter, the overflow flag, the      *)
(* channel or the pending map.                                             *)
(***************************************************************************)
EXTENDS Naturals, Sequences, FiniteSets

CONSTANTS
  Calls,      \* broker-originated requests, each made by a task of its own
  Notes,      \* notifications, each sent by a task of its own
  Reply,      \* the connection loop as a sender of responses
  Limit,      \* BrokerConfig::max_out_queue
  MaxLines,   \* bound: lines the peer sends besides answers
  None        \* nothing in hand

ASSUME SendersAssumption == Calls \cap Notes = {} /\ Reply \notin Calls \cup Notes
ASSUME NoneAssumption == None \notin Calls \cup Notes \cup {Reply}
ASSUME LimitAssumption == Limit \in Nat \ {0} /\ MaxLines \in Nat
ASSUME FiniteAssumption == IsFiniteSet(Calls) /\ IsFiniteSet(Notes)

Senders == Calls \cup Notes \cup {Reply}

VARIABLES
  at,         \* at[x]: where sender x stands in Session::send
  queued,     \* Session.queued
  overflow,   \* Session.overflow
  permit,     \* a permit of overflow_notify is stored
  chan,       \* the out channel
  writer,     \* "recv", "count", "write", or "done" (receiver dropped)
  hand,       \* the message the writer holds
  loop,       \* "head", "enter", "select", "reply", "detach", "abort" or "gone"
  lines,      \* lines handled so far
  pending,    \* Session.pending
  result,     \* result[c]: what Session::call has returned
  given       \* messages the peer has read

sending  == <<queued, overflow, permit>>
writing  == <<chan, writer, hand>>
calling  == <<pending, result>>
vars     == <<at, sending, writing, loop, lines, calling, given>>

\* Every variable has its type: the control points of the loop and the writer.
TypeOK ==
  /\ at \in [Senders -> {"idle", "reserve", "full", "push", "out"}]
  /\ queued \in Nat
  /\ overflow \in BOOLEAN
  /\ permit \in BOOLEAN
  /\ chan \in Seq(Senders)
  /\ writer \in {"recv", "count", "write", "done"}
  /\ hand \in Senders \cup {None}
  /\ loop \in {"head", "enter", "select", "reply", "detach", "abort", "gone"}
  /\ lines \in 0..MaxLines
  /\ pending \subseteq Calls
  /\ result \in [Calls -> {"none", "answer", "timeout"}]
  /\ given \subseteq Senders

Init ==
  /\ at = [x \in Senders |-> "idle"]
  /\ queued = 0
  /\ overflow = FALSE
  /\ permit = FALSE
  /\ chan = <<>>
  /\ writer = "recv"
  /\ hand = None
  /\ loop = "head"
  /\ lines = 0
  /\ pending = {}
  /\ result = [c \in Calls |-> "none"]
  /\ given = {}

-----------------------------------------------------------------------------
(* Session::send *)

\* The overflow flag is read first: once it is set nothing is queued.
SendBegins(x) ==
  /\ at[x] = "idle"
  /\ IF x = Reply THEN loop = "reply" ELSE TRUE
  /\ at' = [at EXCEPT ![x] = IF overflow THEN "out" ELSE "reserve"]
  /\ pending' = IF x \in Calls THEN pending \cup {x} ELSE pending
  /\ UNCHANGED <<sending, writing, loop, lines, result, given>>

\* Mutant: the slot is taken without looking at the bound again.
SendReserves_Blind(x) ==
  /\ at[x] = "reserve"
  /\ queued' = queued + 1
  /\ at' = [at EXCEPT ![x] = "push"]
  /\ UNCHANGED <<overflow, permit, writing, loop, lines, calling, given>>

\* Mutant: the counter is raised before the bound is checked and never lowered.
SendReserves_NoUndo(x) ==
  /\ at[x] = "reserve"
  /\ queued' = queued + 1
  /\ at' = [at EXCEPT ![x] = IF queued < Limit THEN "push" ELSE "full"]
  /\ UNCHANGED <<overflow, permit, writing, loop, lines, calling, given>>

\* fetch_update: a slot is reserved atomically, or there is none.
SendReserves(x) ==
  /\ at[x] = "reserve"
  /\ queued' = IF queued < Limit THEN queued + 1 ELSE queued
  /\ at' = [at EXCEPT ![x] = IF queued < Limit THEN "push" ELSE "full"]
  /\ UNCHANGED <<overflow, permit, writing, loop, lines, calling, given>>

\* Mutant: notify_waiters, which stores no permit.
SendOverflows_NoPermit(x) ==
  /\ at[x] = "full"
  /\ overflow' = TRUE
  /\ permit' = (permit \/ (~overflow /\ loop = "select"))
  /\ at' = [at EXCEPT ![x] = "out"]
  /\ UNCHANGED <<queued, writing, loop, lines, calling, given>>

\* The message is dropped; the first to find the queue full stores the permit.
SendOverflows(x) ==
  /\ at[x] = "full"
  /\ overflow' = TRUE
  /\ permit' = (permit \/ ~overflow)
  /\ at' = [at EXCEPT ![x] = "out"]
  /\ UNCHANGED <<queued, writing, loop, lines, calling, given>>

\* out.send; a channel without receiver takes nothing.
SendPushes(x) ==
  /\ at[x] = "push"
  /\ chan' = IF writer = "done" THEN chan ELSE Append(chan, x)
  /\ at' = [at EXCEPT ![x] = "out"]
  /\ UNCHANGED <<sending, writer, hand, loop, lines, calling, given>>

-----------------------------------------------------------------------------
(* Session::call after its send, and resolve_response *)

\* Mutant: a call that times out leaves its entry behind.
CallTimeout_Leaks(c) ==
  /\ at[c] = "out"
  /\ result[c] = "none"
  /\ result' = [result EXCEPT ![c] = "timeout"]
  /\ UNCHANGED <<at, sending, writing, loop, lines, pending, given>>

\* DELIVER_TIMEOUT: the call gives up and removes its entry.
CallTimeout(c) ==
  /\ at[c] = "out"
  /\ result[c] = "none"
  /\ result' = [result EXCEPT ![c] = "timeout"]
  /\ pending' = pending \ {c}
  /\ UNCHANGED <<at, sending, writing, loop, lines, given>>

\* Mutant: the response goes to whichever call is pending.
resolve_response_Any(c) ==
  /\ loop = "select"
  /\ c \in given
  /\ loop' = "head"
  /\ \E d \in Calls :
       /\ pending' = pending \ {d}
       /\ result' = IF d \in pending THEN [result EXCEPT ![d] = "answer"] ELSE result
  /\ UNCHANGED <<at, sending, writing, lines, given>>

\* A response line from the peer, which answers what it has been given: the call
\* it names gets it, if it still waits.
resolve_response(c) ==
  /\ loop = "select"
  /\ c \in given
  /\ loop' = "head"
  /\ pending' = pending \ {c}
  /\ result' = IF c \in pending THEN [result EXCEPT ![c] = "answer"] ELSE result
  /\ UNCHANGED <<at, sending, writing, lines, given>>

-----------------------------------------------------------------------------
(* The writer task *)

WriterReceives ==
  /\ writer = "recv"
  /\ chan # <<>>
  /\ hand' = Head(chan)
  /\ chan' = Tail(chan)
  /\ writer' = "count"
  /\ UNCHANGED <<at, sending, loop, lines, calling, given>>

WriterCounts ==
  /\ writer = "count"
  /\ queued' = queued - 1
  /\ writer' = "write"
  /\ UNCHANGED <<at, overflow, permit, chan, hand, loop, lines, calling, given>>

\* write_all: the peer reads it ...
WriterWrites ==
  /\ writer = "write"
  /\ given' = given \cup {hand}
  /\ hand' = None
  /\ writer' = "recv"
  /\ UNCHANGED <<at, sending, chan, loop, lines, calling>>

\* ... or it fails, and the writer ends with everything still queued.
WriterFails ==
  /\ writer = "write"
  /\ writer' = "done"
  /\ hand' = None
  /\ chan' = <<>>
  /\ UNCHANGED <<at, sending, loop, lines, calling, given>>

-----------------------------------------------------------------------------
(* The connection loop *)

\* The flag is read at the head of the loop ...
LoopHead ==
  /\ loop = "head"
  /\ loop' = IF overflow THEN "detach" ELSE "enter"
  /\ UNCHANGED <<at, sending, writing, lines, calling, given>>

\* ... and only then does the loop wait in its select.
LoopSelects ==
  /\ loop = "enter"
  /\ loop' = "select"
  /\ UNCHANGED <<at, sending, writing, lines, calling, given>>

\* A line that is answered (request, parse error, wrong shape, oversized) or
\* not (blank, notification, response of another version) ...
LoopReads ==
  /\ loop = "select"
  /\ lines < MaxLines
  /\ lines' = lines + 1
  /\ \E next \in {"reply", "head"} : loop' = next
  /\ UNCHANGED <<at, sending, writing, calling, given>>

\* ... and when a response is sent, the loop goes on, or ends if the line was oversized.
LoopReplied ==
  /\ loop = "reply"
  /\ at[Reply] = "out"
  /\ at' = [at EXCEPT ![Reply] = "idle"]
  /\ \E next \in {"head", "detach"} : loop' = next
  /\ UNCHANGED <<sending, writing, lines, calling, given>>

\* overflow_notify.notified()
LoopNotified ==
  /\ loop = "select"
  /\ permit
  /\ permit' = FALSE
  /\ loop' = "detach"
  /\ UNCHANGED <<at, queued, overflow, writing, lines, calling, given>>

\* The peer closes the connection, or reading fails.
LoopEof ==
  /\ loop = "select"
  /\ loop' = "detach"
  /\ UNCHANGED <<at, sending, writing, lines, calling, given>>

LoopDetaches ==
  /\ loop = "detach"
  /\ loop' = IF overflow THEN "abort" ELSE "gone"
  /\ UNCHANGED <<at, sending, writing, lines, calling, given>>

\* writer.abort() closes the socket of a peer that stopped reading.
LoopAborts ==
  /\ loop = "abort"
  /\ loop' = "gone"
  /\ writer' = "done"
  /\ hand' = None
  /\ chan' = <<>>
  /\ UNCHANGED <<at, sending, lines, calling, given>>

-----------------------------------------------------------------------------
SendStep(x) == SendBegins(x) \/ SendReserves(x) \/ SendOverflows(x) \/ SendPushes(x)

LoopStep == LoopHead \/ LoopSelects \/ LoopReplied \/ LoopNotified \/ LoopDetaches \/ LoopAborts

Next ==
  \/ \E x \in Senders : SendStep(x)
  \/ \E c \in Calls : CallTimeout(c) \/ resolve_response(c)
  \/ WriterReceives \/ WriterCounts \/ WriterWrites \/ WriterFails
  \/ LoopStep \/ LoopReads \/ LoopEof

Spec == Init /\ [][Next]_vars

\* Tasks run when they can.  Nothing is assumed of the peer: it may neither read
\* (WriterWrites) nor send a line.
FairSpec ==
  /\ Spec
  /\ WF_vars(LoopStep)
  /\ \A x \in Senders : WF_vars(SendStep(x))

-----------------------------------------------------------------------------
(* Properties *)

\* Slow-reader defence (core.rs:49-53, 79-80 "concurrent senders must not
\* overshoot the bound"): whatever senders race and however the writer is
\* interleaved, at most Limit messages wait in the channel, and one more is in
\* the writer's hand, which counts a message off before it writes it.
QueueBound ==
  /\ Len(chan) =< Limit
  /\ Len(chan) + (IF hand = None THEN 0 ELSE 1) =< Limit + 1

\* The counter never falls below what is queued, so it cannot wrap around: every
\* message the writer takes has been counted.
CountCovers ==
  writer # "done" =>
    queued = Len(chan) + Cardinality({x \in Senders : at[x] = "push"})
             + (IF writer = "count" THEN 1 ELSE 0)

\* The pending map does not leak: an entry belongs to a call that still waits,
\* and a call that still waits has its entry.
PendingExact ==
  \A c \in Calls : c \in pending <=> at[c] # "idle" /\ result[c] = "none"

\* A call returns an answer only if the peer was given that very request.
AnswerIsOwn == \A c \in Calls : result[c] = "answer" => c \in given

\* "an idle peer that never sends another byte must still be torn down when its
\* outbound queue overflows" (server.rs:155-157).
OverflowTearsDown == overflow ~> loop = "gone"
=============================================================================
