-------------------------------- MODULE Shim --------------------------------
(***************************************************************************)
(* The shim of one agent session (crates/shim-claude/src/lib.rs): tool     *)
(* calls of the model travel over one broker connection that drops and is  *)
(* dialled again, the shim re-asserts the registration it carries, and     *)
(* deliveries are answered relayed or refused.  The broker is reduced to   *)
(* what it does with this session's requests and to who holds the name.    *)
(*                                                                         *)
(* A step is one arm of the select in connected_loop, one call the broker  *)
(* handles, or one step of the task behind a tool call.                    *)
(***************************************************************************)
EXTENDS Naturals, Sequences

CONSTANTS
  Calls,      \* tool calls of the session
  Msgs,       \* messages the broker delivers to the session
  Regs,       \* register parameters: "open", or "half" (no push path)
  MaxConns,   \* bound: connections dialled
  Again,      \* the request that re-asserts the binding
  None        \* no registration

ASSUME RegsAssumption == Regs \subseteq {"open", "half"} /\ None \notin Regs
ASSUME AgainAssumption == Again \notin Calls
ASSUME BoundAssumption == MaxConns \in Nat

VARIABLES
  link,      \* broker_loop: "dial", "up" (connected_loop) or "wait" (drain_calls_until)
  conns,     \* connections so far
  queue,     \* BrokerLink.calls
  kind,      \* kind[c]: what the tool call asks for
  tool,      \* tool[c]: what the task behind c knows
  pending,   \* connected_loop's pending
  wire,      \* requests on their way to the broker
  inbox,     \* responses and deliveries on their way to the shim
  binding,   \* the registration the shim carries across connections
  block,     \* delivery_block is set
  denied,    \* the re-registration of this connection was refused
  holder,    \* who holds the name: "nobody", "shim", "stale" (an earlier
             \* connection the broker has not detached yet) or "rival"
  reg,       \* the registration the broker has for this connection
  ran,       \* ran[c]: how often the broker carried c out
  via        \* via[m]: the registration m was relayed under

task   == <<kind, tool>>
flow   == <<queue, pending, wire, inbox>>
broker == <<holder, reg, ran>>
vars   == <<link, conns, task, flow, binding, block, denied, broker, via>>

Kinds    == Regs \cup {"send", "deregister", None}
ToolState == {"new", "waiting", "accepted", "ok", "refused", "unreachable"}
Requests == Calls \cup {Again}

\* Every variable has its type: the states of the shim's two loops.
TypeOK ==
  /\ link \in {"dial", "up", "wait"}
  /\ conns \in 0..MaxConns
  /\ queue \in Seq(Calls)
  /\ kind \in [Calls -> Kinds]
  /\ tool \in [Calls -> ToolState]
  /\ pending \subseteq Requests
  /\ wire \in Seq(Requests)
  /\ inbox \in Seq([to : Requests, ok : BOOLEAN] \cup [msg : Msgs, reg : Regs])
  /\ binding \in Regs \cup {None}
  /\ block \in BOOLEAN
  /\ denied \in BOOLEAN
  /\ holder \in {"nobody", "shim", "stale", "rival"}
  /\ reg \in Regs \cup {None}
  /\ ran \in [Calls -> Nat]
  /\ via \in [Msgs -> Regs \cup {None}]

Init ==
  /\ link = "dial"
  /\ conns = 0
  /\ queue = <<>>
  /\ kind = [c \in Calls |-> None]
  /\ tool = [c \in Calls |-> "new"]
  /\ pending = {}
  /\ wire = <<>>
  /\ inbox = <<>>
  /\ binding = None
  /\ block = FALSE
  /\ denied = FALSE
  /\ holder = "nobody"
  /\ reg = None
  /\ ran = [c \in Calls |-> 0]
  /\ via = [m \in Msgs |-> None]

-----------------------------------------------------------------------------
(* The task behind a tool call: handle_tool_call and BrokerLink::call *)

ToolCall(c, k) ==
  /\ tool[c] = "new"
  /\ tool' = [tool EXCEPT ![c] = "waiting"]
  /\ kind' = [kind EXCEPT ![c] = k]
  /\ queue' = Append(queue, c)
  /\ UNCHANGED <<link, conns, pending, wire, inbox, binding, block, denied, broker, via>>

\* CALL_TIMEOUT: the task gives up; the call stays where it is.
CallTimeout(c) ==
  /\ tool[c] = "waiting"
  /\ tool' = [tool EXCEPT ![c] = "unreachable"]
  /\ UNCHANGED <<link, conns, kind, flow, binding, block, denied, broker, via>>

\* The task takes the accepted result and, for a registration, notes whether
\* it has a push path; a deregistration clears the note.
ToolDone(c) ==
  /\ tool[c] = "accepted"
  /\ tool' = [tool EXCEPT ![c] = "ok"]
  /\ block' = CASE kind[c] \in Regs -> kind[c] = "half"
                [] kind[c] = "deregister" -> FALSE
                [] OTHER -> block
  /\ UNCHANGED <<link, conns, kind, flow, binding, denied, broker, via>>

\* Waiting tasks of the calls in S hear that the broker is unreachable.
Unreachable(S) ==
  tool' = [c \in Calls |-> IF c \in S /\ tool[c] = "waiting" THEN "unreachable" ELSE tool[c]]

-----------------------------------------------------------------------------
(* broker_loop *)

DialFails ==
  /\ link = "dial"
  /\ link' = "wait"
  /\ UNCHANGED <<conns, task, flow, binding, block, denied, broker, via>>

\* drain_calls_until: a call is answered at once ...
DrainCall ==
  /\ link = "wait"
  /\ queue # <<>>
  /\ queue' = Tail(queue)
  /\ Unreachable({Head(queue)})
  /\ UNCHANGED <<link, conns, kind, pending, wire, inbox, binding, block, denied, broker, via>>

\* Mutant: the broker is dialled again only when there is a call for it.
WaitEnds_OnDemand ==
  /\ link = "wait"
  /\ queue # <<>>
  /\ link' = "dial"
  /\ UNCHANGED <<conns, task, flow, binding, block, denied, broker, via>>

\* ... until the backoff has passed.
WaitEnds ==
  /\ link = "wait"
  /\ link' = "dial"
  /\ UNCHANGED <<conns, task, flow, binding, block, denied, broker, via>>

\* connected_loop begins: hello, then the registration the shim carries.
DialOk ==
  /\ link = "dial"
  /\ conns < MaxConns
  /\ conns' = conns + 1
  /\ link' = "up"
  /\ wire' = IF binding = None THEN <<>> ELSE <<Again>>
  /\ pending' = IF binding = None THEN {} ELSE {Again}
  /\ denied' = FALSE
  /\ UNCHANGED <<task, queue, inbox, binding, block, broker, via>>

\* Mutant: calls without an answer are sent again on the next connection.
Lose_Requeues(next) ==
  /\ link = "up"
  /\ conns < MaxConns
  /\ \E to \in {"wait", "dial"} : link' = to
  /\ \E c \in Calls : queue' = IF c \in pending THEN Append(queue, c) ELSE queue
  /\ UNCHANGED tool
  /\ wire' = <<>> /\ inbox' = <<>> /\ pending' = {}
  /\ holder' = next /\ reg' = None
  /\ UNCHANGED <<conns, kind, binding, block, denied, ran, via>>

\* The connection is lost and with it everything in transit; pending calls hear
\* about it.  After a stable connection the shim dials at once.
Lose(next) ==
  /\ link = "up"
  /\ conns < MaxConns
  /\ \E to \in {"wait", "dial"} : link' = to
  /\ Unreachable(pending)
  /\ wire' = <<>> /\ inbox' = <<>> /\ pending' = {}
  /\ holder' = next /\ reg' = None
  /\ UNCHANGED <<conns, kind, queue, binding, block, denied, ran, via>>

-----------------------------------------------------------------------------
(* connected_loop *)

\* A queued call goes out, whether or not its task still waits.
SendCall ==
  /\ link = "up"
  /\ queue # <<>>
  /\ queue' = Tail(queue)
  /\ wire' = Append(wire, Head(queue))
  /\ pending' = pending \cup {Head(queue)}
  /\ UNCHANGED <<link, conns, task, inbox, binding, block, denied, broker, via>>

\* Mutant: a deregistration leaves the binding.
Effect_Keeps(x, ok) ==
  IF x # Again /\ ok /\ kind[x] \in Regs THEN kind[x] ELSE binding

\* Mutant: any accepted call replaces the binding.
Effect_AnyCall(x, ok) == IF x = Again \/ ~ok THEN binding ELSE kind[x]

\* The binding after the response to x.
Effect(x, ok) ==
  IF x = Again \/ ~ok THEN binding
  ELSE CASE kind[x] \in Regs -> kind[x]
         [] kind[x] = "deregister" -> None
         [] OTHER -> binding

\* A response: the binding follows it even if the task has given up.
ReadResponse ==
  /\ link = "up" /\ inbox # <<>> /\ "to" \in DOMAIN Head(inbox)
  /\ LET x == Head(inbox).to   ok == Head(inbox).ok IN
       /\ pending' = pending \ {x}
       /\ binding' = Effect(x, ok)
       /\ denied' = (denied \/ (x = Again /\ ~ok))
       /\ tool' = IF x # Again /\ tool[x] = "waiting"
                  THEN [tool EXCEPT ![x] = IF ok THEN "accepted" ELSE "refused"] ELSE tool
  /\ inbox' = Tail(inbox)
  /\ UNCHANGED <<link, conns, kind, queue, wire, block, broker, via>>

\* handle_deliver: refused while delivery_block is set, else relayed.
handle_deliver ==
  /\ link = "up" /\ inbox # <<>> /\ "msg" \in DOMAIN Head(inbox)
  /\ via' = IF block THEN via ELSE [via EXCEPT ![Head(inbox).msg] = Head(inbox).reg]
  /\ inbox' = Tail(inbox)
  /\ UNCHANGED <<link, conns, task, queue, pending, wire, binding, block, denied, broker>>

-----------------------------------------------------------------------------
(* The broker *)

\* The requests of a connection are handled in order; each gets one response.
\* One that is in order may still be refused, for a bad name or a store error.
BrokerHandles ==
  /\ link = "up"
  /\ wire # <<>>
  /\ LET x == Head(wire)
         k == IF x = Again THEN binding ELSE kind[x]
         valid == holder = IF k \in Regs THEN "nobody" ELSE "shim"
     IN \E ok \in {valid, FALSE} :
          /\ inbox' = Append(inbox, [to |-> x, ok |-> ok])
          /\ ran' = IF ok /\ x # Again THEN [ran EXCEPT ![x] = @ + 1] ELSE ran
          /\ CASE ok /\ k \in Regs -> holder' = "shim" /\ reg' = k
               [] ok /\ k = "deregister" -> holder' = "nobody" /\ reg' = None
               [] OTHER -> UNCHANGED <<holder, reg>>
  /\ wire' = Tail(wire)
  /\ UNCHANGED <<link, conns, task, queue, pending, binding, block, denied, via>>

\* A message/deliver request to the session that holds the name.
Offer(m) ==
  /\ link = "up" /\ holder = "shim"
  /\ via[m] = None
  /\ \A i \in DOMAIN inbox : "msg" \in DOMAIN inbox[i] => inbox[i].msg # m
  /\ inbox' = Append(inbox, [msg |-> m, reg |-> reg])
  /\ UNCHANGED <<link, conns, task, queue, pending, wire, binding, block, denied, broker, via>>

\* The connection drops; the broker finds out later (Detach).
ConnectionDrops == Lose(IF holder = "shim" THEN "stale" ELSE holder)

\* The broker restarts: no claims are left.
BrokerRestarts == Lose("nobody")

Detach ==
  /\ holder = "stale"
  /\ holder' = "nobody"
  /\ UNCHANGED <<link, conns, task, flow, binding, block, denied, reg, ran, via>>

\* Another session registers the name, or lets go of it.
Rival ==
  /\ \/ holder = "nobody" /\ holder' = "rival"
     \/ holder = "rival" /\ holder' = "nobody"
  /\ UNCHANGED <<link, conns, task, flow, binding, block, denied, reg, ran, via>>

-----------------------------------------------------------------------------
Next ==
  \/ \E c \in Calls : \/ \E k \in Kinds \ {None} : ToolCall(c, k)
                      \/ CallTimeout(c) \/ ToolDone(c)
  \/ DialFails \/ DialOk \/ DrainCall \/ WaitEnds
  \/ SendCall \/ ReadResponse \/ handle_deliver
  \/ BrokerHandles
  \/ \E m \in Msgs : Offer(m)
  \/ ConnectionDrops \/ BrokerRestarts
  \/ Detach \/ Rival

Spec == Init /\ [][Next]_vars

\* Both loops run whenever they can and timers fire; the broker answers what it
\* reads; a broker that is dialled again and again is reached in the end.
FairSpec ==
  /\ Spec
  /\ WF_vars(WaitEnds) /\ SF_vars(DialOk)
  /\ WF_vars(ReadResponse) /\ WF_vars(handle_deliver) /\ WF_vars(BrokerHandles)

-----------------------------------------------------------------------------
(* Properties *)

\* No call is carried out twice, however connections come and go (the shim
\* never queues, CL-3), and what the model hears as a result is true: an
\* accepted call was carried out, a refused one was not.
AnswersTrue ==
  \A c \in Calls : /\ ran[c] =< 1
                   /\ tool[c] \in {"accepted", "ok"} => ran[c] = 1
                   /\ tool[c] = "refused" => ran[c] = 0

\* The shim carries the binding (CL-6): whenever no registration call is
\* unanswered and the re-registration was not refused, the registration it
\* would re-assert is the one the broker has, also when the model's own call
\* timed out.
CarriesBinding ==
  /\ link = "up" /\ ~denied
  /\ \A x \in pending : x # Again /\ kind[x] = "send"
  => binding = reg

\* A shim that carries a binding, and whose re-registrations are not denied from
\* then on, has it registered again in the end, however many connections it
\* takes, unless the session deregisters.  That a re-registration "cannot be
\* denied" (session-lifecycle.md:24) is not claimed: another session may have
\* taken the name, the broker may still hold the shim's own lost connection for
\* its owner, or the store may fail, and a denied shim does not try again while
\* it stays connected.
Rebinds == (binding # None /\ []~denied) ~> (reg # None \/ binding = None)

\* "Deliveries then FAIL with this reason instead of acking a relayed the
\* harness would silently discard" (lib.rs:166-167): nothing is relayed under a
\* registration without a push path, except while the tool call that made the
\* registration is still on its way back.  The code breaks it: a tool call that
\* timed out does not set delivery_block, though its registration may be
\* accepted later.
NoSilentLoss ==
  [][\A m \in Msgs : via[m] = None /\ via'[m] = "half" =>
       \E c \in Calls : kind[c] = "half" /\ tool[c] \in {"waiting", "accepted"}]_vars
=============================================================================
