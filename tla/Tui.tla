-------------------------------- MODULE Tui --------------------------------
(***************************************************************************)
(* The terminal client (crates/workplace/src/tui.rs).  One UI loop eats a  *)
(* queue of keys, lines and prompts; every broker call is a spawned task   *)
(* of its own, matched to its answer by id through the pending map, with a *)
(* timeout of 30 s.  Channel deletion takes two commands, /delete and      *)
(* /confirm, with the broker's token kept in between by the UI loop.       *)
(* The broker's side of these commands is the one of core/rpc.rs.          *)
(***************************************************************************)
EXTENDS Naturals, Sequences, FiniteSets

CONSTANTS
  Names,      \* channel names
  Named,      \* Named[i]: the name of channel i when the session opens
  Spoken,     \* the names the operator uses
  MaxTyped,   \* bound: the weight of the commands the operator enters
  MaxRenames, \* bound: renames by another admin
  None        \* no name, no token

Ids == DOMAIN Named
Calls == 1 .. MaxTyped   \* Client::next_id: a command makes one call at most

VARIABLES
  link,      \* "closed": no session yet; "up"; "cut": the broker is gone;
             \* "lost": and the reader has seen it; "quit": the program has ended
  ui,        \* the Ui channel, in order
  pend,      \* App::pending_delete: [chan, token], or None
  task,      \* task[k]: the spawned call k
  pending,   \* Client::pending: the calls that await an answer
  wire,      \* requests on their way to the broker
  back,      \* answers on their way to the reader
  name,      \* name[i]: the current name of channel i, None once deleted
  tokens,    \* the broker's confirmation tokens, named by their request
  stopping,  \* the broker has accepted daemon/shutdown
  typed,     \* typed[c]: how often the operator has entered the /delete or /confirm c
  left,      \* the weight of the commands the operator may still enter
  gone,      \* gone[n]: the tombstones that name n
  told,      \* told[n]: the confirmations of n reported to the operator as done
  renames    \* renames by another admin so far

vars == <<link, ui, pend, task, pending, wire, back, name, tokens, stopping,
          typed, left, told, gone, renames>>
client == <<pend, task, pending>>
broker == <<name, tokens, stopping, gone, renames>>
entered == <<typed, left, told>>

Deletion == [cmd : {"delete", "confirm"}, chan : Spoken]
Command == Deletion \cup [cmd : {"call", "local", "shutdown", "quit"}, chan : {None}]
Enter(cmd, chan) == [cmd |-> cmd, chan |-> chan]
Prompt == [chan : Names, token : Calls]

\* A spawned call: how far it is, its parameters, and whether its answer is a result.
Task(at, cmd, chan, tok, ok) ==
  [at |-> at, cmd |-> cmd, chan |-> chan, token |-> tok, ok |-> ok]
Idle == Task("none", "none", None, None, FALSE)
Done == Task("done", "none", None, None, FALSE)

Init ==
  /\ link = "closed"
  /\ ui = << >> /\ wire = << >> /\ back = << >>
  /\ pend = None
  /\ task = [k \in Calls |-> Idle]
  /\ pending = {}
  /\ name = Named
  /\ tokens = {}
  /\ stopping = FALSE
  /\ typed = [c \in Deletion |-> 0] /\ left \in {0, MaxTyped}
  /\ gone = [n \in Names |-> 0] /\ told = gone
  /\ renames = 0

Open == link \in {"up", "cut", "lost"}
Post(e) == ui' = Append(ui, e)
Line == [kind |-> "line"]

\* The handshake of tui::run is over and the event loop runs.
Opens ==
  /\ link = "closed"
  /\ link' = "up"
  /\ UNCHANGED <<ui, client, wire, back, broker, entered>>

-----------------------------------------------------------------------------
(* The operator and the UI loop *)

\* Bound: a command that is no part of a deletion counts twice.
Weight(c) == IF c \in Deletion THEN 1 ELSE 2

\* handle_key: the key that ends a command enters the Ui channel.
Types(c) ==
  /\ Open
  /\ left >= Weight(c)
  /\ left' = left - Weight(c)
  /\ typed' = [d \in Deletion |-> IF d = c THEN typed[d] + 1 ELSE typed[d]]
  /\ Post([kind |-> "enter", command |-> c])
  /\ UNCHANGED <<link, client, wire, back, broker, told>>

Unspawned == {k \in Calls : task[k].at = "none"}

\* spawn_rpc: the call takes the next id.
Spawn(cmd, chan, tok) ==
  \E k \in Unspawned :
    /\ \A j \in Unspawned : k <= j
    /\ task' = [task EXCEPT ![k] = Task("spawned", cmd, chan, tok, FALSE)]

\* Mutant: /confirm takes what is pending, whatever name was typed.
Confirm_Untyped(typedName) ==
  /\ pend' = None
  /\ IF pend # None THEN Spawn("confirm", pend.chan, pend.token) ELSE UNCHANGED task

\* /confirm takes the pending deletion in any case, and goes on if the name
\* that was typed is the one the prompt named.
Confirm(typedName) ==
  /\ pend' = None
  /\ IF pend # None /\ pend.chan = typedName THEN Spawn("confirm", pend.chan, pend.token)
     ELSE UNCHANGED task

\* run_command: the commands that only change the App ("local") push their line
\* themselves, all others run as tasks.
RunCommand(c) ==
  CASE c.cmd = "local" -> UNCHANGED <<pend, task>>
    [] c.cmd = "confirm" -> Confirm(c.chan)
    [] OTHER -> Spawn(c.cmd, c.chan, None) /\ UNCHANGED pend

\* event_loop, one event.
UiStep ==
  /\ Open
  /\ ui # << >>
  /\ Head(ui) # [kind |-> "enter", command |-> Enter("quit", None)]
  /\ LET e == Head(ui)
     IN  CASE e.kind = "enter" -> RunCommand(e.command)
           [] e.kind = "prompt" -> pend' = e.prompt /\ UNCHANGED task
           [] OTHER -> UNCHANGED <<pend, task>>
  /\ ui' = Tail(ui)
  /\ UNCHANGED <<link, pending, wire, back, broker, entered>>

\* ... or the last one: the program ends with all its tasks, and the broker
\* still reads what was sent.
Quits ==
  /\ Open
  /\ ui # << >>
  /\ Head(ui) = [kind |-> "enter", command |-> Enter("quit", None)]
  /\ link' = "quit"
  /\ ui' = << >> /\ back' = << >>
  /\ pend' = None
  /\ task' = [k \in Calls |-> Idle]
  /\ pending' = {}
  /\ left' = 0
  /\ UNCHANGED <<wire, broker, typed, told>>

-----------------------------------------------------------------------------
(* Tasks, writer and reader *)

Request(k) == [call |-> k, cmd |-> task[k].cmd, chan |-> task[k].chan, token |-> task[k].token]

\* Client::call enters the pending map, then sends.
TaskStarts(k) ==
  /\ Open
  /\ task[k].at = "spawned"
  /\ task' = [task EXCEPT ![k] =
                Task("waiting", task[k].cmd, task[k].chan, task[k].token, FALSE)]
  /\ pending' = pending \cup {k}
  /\ wire' = IF link = "up" THEN Append(wire, Request(k)) ELSE wire
  /\ UNCHANGED <<link, ui, pend, back, broker, entered>>

\* Mutant: the answer goes to the oldest call that waits, not to the one it names.
Addressee_Oldest(r) ==
  IF pending = {} THEN {} ELSE {CHOOSE k \in pending : \A j \in pending : k <= j}

\* The pending call that an answer names; nobody, if that call has timed out.
Addressee(r) == pending \cap {r.call}

\* The reader hands an answer over.
ReaderResponds ==
  /\ Open
  /\ back # << >>
  /\ LET r == Head(back)
     IN  /\ task' = [k \in Calls |->
                      IF k \in Addressee(r)
                      THEN Task("answered", task[k].cmd, task[k].chan, task[k].token, r.ok)
                      ELSE task[k]]
         /\ pending' = pending \ Addressee(r)
  /\ back' = Tail(back)
  /\ UNCHANGED <<link, ui, pend, wire, broker, entered>>

\* The task prints its result; /delete hands the token to the UI loop.  (A result
\* that does not parse, for which send, status, history and who print nothing, is
\* not one the broker of the same build gives.)
TaskEnds(k) ==
  /\ Open
  /\ task[k].at = "answered"
  /\ task' = [task EXCEPT ![k] = Done]
  /\ told' = IF task[k].cmd = "confirm" /\ task[k].ok
             THEN [told EXCEPT ![task[k].chan] = @ + 1] ELSE told
  /\ Post(IF task[k].cmd = "delete" /\ task[k].ok
          THEN [kind |-> "prompt", prompt |-> [chan |-> task[k].chan, token |-> k]]
          ELSE Line)
  /\ UNCHANGED <<link, pend, pending, wire, back, broker, typed, left>>

\* Mutant: the timeout is armed only while the connection stands.
TaskTimesOut_WhileUp(k) ==
  /\ link = "up"
  /\ task[k].at = "waiting"
  /\ task' = [task EXCEPT ![k] = Done]
  /\ pending' = pending \ {k}
  /\ Post(Line)
  /\ UNCHANGED <<link, pend, wire, back, broker, entered>>

\* 30 s without an answer.
TaskTimesOut(k) ==
  /\ Open
  /\ task[k].at = "waiting"
  /\ task' = [task EXCEPT ![k] = Done]
  /\ pending' = pending \ {k}
  /\ Post(Line)
  /\ UNCHANGED <<link, pend, wire, back, broker, entered>>

\* The broker is gone with its tokens and with what it has not read.
LinkDrops ==
  /\ link' = IF link = "up" THEN "cut" ELSE link
  /\ wire' = << >>
  /\ tokens' = {} /\ stopping' = FALSE
  /\ UNCHANGED <<ui, client, back, name, gone, renames, entered>>

\* The reader meets the end of the stream, maybe before the last answers.
ReaderEnds ==
  /\ link = "cut"
  /\ link' = "lost"
  /\ back' = << >>
  /\ Post([kind |-> "lost"])
  /\ UNCHANGED <<client, wire, broker, entered>>

-----------------------------------------------------------------------------
(* The broker *)

Bears(n) == {i \in Ids : name[i] = n}
Answer(r, ok) ==
  back' = IF link = "up" THEN Append(back, [call |-> r.call, ok |-> ok]) ELSE back

\* delete_request binds a token to the channel's id and name.
delete_request(r) ==
  /\ tokens' = tokens \cup [token : {r.call}, id : Bears(r.chan), name : {r.chan}]
  /\ Answer(r, Bears(r.chan) # {})
  /\ UNCHANGED <<name, stopping, gone, renames>>

\* The token that a confirmation consumes is good for the channel that still
\* bears the name it was given for.
Confirmed(r) == {t \in tokens : t.token = r.token /\ t.name = r.chan /\ t.id \in Bears(t.name)}

\* delete_confirm: refused if the token's 30 s are over, which may be at any time.
\* Its check and its transaction are one step: a rename between them lets a channel
\* go under a name nobody confirmed, which the code does not prevent.
delete_confirm(r) ==
  /\ tokens' = {t \in tokens : t.token # r.token}
  /\ \/ /\ Answer(r, FALSE)
        /\ UNCHANGED <<name, gone>>
     \/ \E t \in Confirmed(r) :
          /\ name' = [name EXCEPT ![t.id] = None]
          /\ gone' = [gone EXCEPT ![t.name] = @ + 1]
          /\ Answer(r, TRUE)
  /\ UNCHANGED <<stopping, renames>>

\* Any other command is answered; daemon/shutdown takes effect later.
Serves(r) ==
  CASE r.cmd = "delete" -> delete_request(r)
    [] r.cmd = "confirm" -> delete_confirm(r)
    [] OTHER -> /\ stopping' = (stopping \/ r.cmd = "shutdown")
                /\ Answer(r, TRUE)
                /\ UNCHANGED <<name, tokens, gone, renames>>

\* dispatch takes the requests of a connection in order, and refuses them once
\* the shutdown has begun.
BrokerHandles ==
  /\ link \in {"up", "quit"}
  /\ wire # << >>
  /\ wire' = Tail(wire)
  /\ LET r == Head(wire)
     IN  \/ Serves(r)
         \/ /\ stopping
            /\ Answer(r, FALSE)
            /\ UNCHANGED broker
  /\ UNCHANGED <<link, ui, client, entered>>

\* Another admin gives a channel a free name.
OtherRenames(i, n) ==
  /\ link = "up"
  /\ renames < MaxRenames
  /\ name[i] # None /\ Bears(n) = {}
  /\ name' = [name EXCEPT ![i] = n]
  /\ renames' = renames + 1
  /\ UNCHANGED <<link, ui, client, wire, back, tokens, stopping, gone, entered>>

-----------------------------------------------------------------------------
Step ==
  \/ UiStep \/ Quits \/ ReaderResponds \/ ReaderEnds \/ BrokerHandles
  \/ \E k \in Calls : TaskStarts(k) \/ TaskEnds(k) \/ TaskTimesOut(k)

Environment ==
  \/ \E c \in Command : Types(c)
  \/ \E i \in Ids, n \in Names : OtherRenames(i, n)

Next == Opens \/ LinkDrops \/ Step \/ Environment

\* The runtime polls the UI loop, the reader and every task; the timer of a call
\* fires.  Nothing is assumed of the broker.
Fairness ==
  /\ WF_vars(UiStep \/ Quits) /\ WF_vars(ReaderResponds) /\ WF_vars(ReaderEnds)
  /\ \A k \in Calls : WF_vars(TaskStarts(k)) /\ WF_vars(TaskEnds(k)) /\ WF_vars(TaskTimesOut(k))

Spec == Init /\ [][Next]_vars /\ Fairness

-----------------------------------------------------------------------------
(* Properties *)

\* "The TUI requires typing the channel name verbatim" (rpc-surface.md:82, tui.rs
\* 675-709, rpc.rs 689-728): however prompts, renames, expiries and late answers
\* interleave, every channel that goes bears, when the broker checks its token, the
\* name of a /delete and of a /confirm of its own that the operator entered.
DeleteIntended ==
  \A n \in Names :
    gone[n] > 0 =>
      n \in Spoken /\ \A cmd \in {"delete", "confirm"} : gone[n] <= typed[Enter(cmd, n)]

\* The pending map (tui.rs 46-73, 154-166) holds the calls that wait and no other, so
\* a timed-out call leaves nothing behind; and a late answer ends no other call: a
\* confirmation is reported as done only where a channel of that name was deleted.
CallsExact ==
  /\ pending = {k \in Calls : task[k].at = "waiting"}
  /\ \A n \in Names : told[n] <= gone[n]

\* Every command that becomes a call ends with a line or a prompt for the operator,
\* also when the connection is lost while it waits, unless the operator leaves (or
\* the broker answers with a result this build cannot parse).
EveryCommandAnswered ==
  \A k \in Calls : (task[k].at # "none") ~> (task[k].at = "done" \/ link = "quit")
=============================================================================
