----------------------------- MODULE ShimProofs -----------------------------
(***************************************************************************)
(* The shim's answers and the binding it carries, for every set of calls   *)
(* and messages and every number of connections.                           *)
(*                                                                         *)
(* A call is in one place at a time: queued, on the wire or answered in    *)
(* the inbox; a call that has left all three is never handled again.  The  *)
(* registration the broker has is the effect of the last registration or   *)
(* deregistration whose response the shim has yet to read, and the binding *)
(* once it has read them all.                                              *)
(***************************************************************************)
EXTENDS Shim, TLAPS

\* The response to a request, and one that changes the binding.
Response(e) == "to" \in DOMAIN e
Effective(e) ==
  Response(e) /\ e.ok /\ e.to # Again /\ kind[e.to] \in Regs \cup {"deregister"}
Rebinding(e) == IF kind[e.to] \in Regs THEN kind[e.to] ELSE None

\* A queued call has not been sent, and is queued once.
QueuedOnce ==
  /\ \A i \in DOMAIN queue : /\ ran[queue[i]] = 0
                             /\ queue[i] \notin pending
                             /\ tool[queue[i]] \in {"waiting", "unreachable"}
  /\ \A i, j \in DOMAIN queue : i # j => queue[i] # queue[j]

\* A request on the wire is pending, not handled, and there once.
WiredOnce ==
  /\ \A i \in DOMAIN wire : wire[i] \in pending /\ (wire[i] # Again => ran[wire[i]] = 0)
  /\ \A i, j \in DOMAIN wire : i # j => wire[i] # wire[j]

\* A response is to a pending request, true, and the only one.
AnsweredOnce ==
  /\ \A i \in DOMAIN inbox : Response(inbox[i]) =>
       /\ inbox[i].to \in pending
       /\ inbox[i].to # Again => ran[inbox[i].to] = (IF inbox[i].ok THEN 1 ELSE 0)
  /\ \A i, j \in DOMAIN inbox :
       Response(inbox[i]) /\ Response(inbox[j]) /\ i # j => inbox[i].to # inbox[j].to
  /\ \A i \in DOMAIN inbox, j \in DOMAIN wire :
       Response(inbox[i]) => inbox[i].to # wire[j]

\* What the task behind a call knows fits where the call is.
TasksFit ==
  /\ \A c \in Calls : c \in pending => tool[c] \in {"waiting", "unreachable"}
  /\ \A c \in Calls : tool[c] = "new" => ran[c] = 0

\* Without a connection nothing is in transit; the name is held by this
\* connection only under a registration.
Connected ==
  /\ link # "up" => wire = <<>> /\ inbox = <<>> /\ pending = {} /\ reg = None
  /\ holder = "shim" => reg \in Regs

\* The re-registration is handled before anything else is answered.
AgainFirst ==
  \A i \in DOMAIN wire : wire[i] = Again =>
    /\ i = 1 /\ binding \in Regs
    /\ \A j \in DOMAIN inbox : ~Response(inbox[j])

\* What is left to read ends in the registration the broker has.
Converges ==
  link = "up" =>
    /\ \A i \in DOMAIN inbox :
         Effective(inbox[i]) /\ (\A j \in DOMAIN inbox : j > i => ~Effective(inbox[j]))
           => reg = Rebinding(inbox[i])
    /\ /\ \A i \in DOMAIN inbox : ~Effective(inbox[i])
       /\ ~denied
       /\ \A i \in DOMAIN wire : wire[i] # Again
       /\ \A i \in DOMAIN inbox : Response(inbox[i]) /\ inbox[i].to = Again => inbox[i].ok
       => binding = reg

ShimInv ==
  /\ TypeOK /\ QueuedOnce /\ WiredOnce /\ AnsweredOnce /\ TasksFit /\ AnswersTrue
  /\ Connected /\ AgainFirst /\ Converges

\* What is on its way to the shim.
Entries == [to : Requests, ok : BOOLEAN] \cup [msg : Msgs, reg : Regs]

-----------------------------------------------------------------------------
\* An entry of the inbox is a response or a delivery.
LEMMA EntryShape ==
  ASSUME NEW e \in Entries
  PROVE  /\ Response(e) => e.to \in Requests /\ e.ok \in BOOLEAN
         /\ "msg" \in DOMAIN e => e.msg \in Msgs /\ e.reg \in Regs /\ ~Response(e)
BY DEF Entries, Response

\* The invariant holds before the first connection.
LEMMA InitInv == Init => ShimInv
<1> SUFFICES ASSUME Init PROVE ShimInv  OBVIOUS
<1>1. TypeOK
  <2>1. queue \in Seq(Calls) /\ wire \in Seq(Requests) /\ inbox \in Seq(Entries)
    BY DEF Init
  <2>2. block \in BOOLEAN /\ denied \in BOOLEAN
    BY DEF Init
  <2>3. kind \in [Calls -> Kinds] /\ tool \in [Calls -> ToolState]
    BY DEF Init, Kinds, ToolState
  <2>4. conns \in 0 .. MaxConns
    BY BoundAssumption DEF Init
  <2> QED BY <2>1, <2>2, <2>3, <2>4 DEF Init, TypeOK, Entries
<1>2. QueuedOnce /\ WiredOnce /\ AnsweredOnce
  BY DEF Init, QueuedOnce, WiredOnce, AnsweredOnce
<1>3. TasksFit /\ AnswersTrue /\ Connected /\ AgainFirst /\ Converges
  BY DEF Init, TasksFit, AnswersTrue, Connected, AgainFirst, Converges
<1> QED BY <1>1, <1>2, <1>3 DEF ShimInv

\* A new call joins the queue: it was in no place before.
LEMMA ToolCallInv ==
  ASSUME ShimInv, NEW c \in Calls, NEW k \in Kinds \ {None}, ToolCall(c, k)
  PROVE  ShimInv'
<1> USE DEF ShimInv
<1>1. TypeOK'
  BY DEF ToolCall, TypeOK, Kinds, ToolState, broker
<1>2. c \notin pending /\ ran[c] = 0
  BY DEF ToolCall, TasksFit, TypeOK
<1>3. \A i \in DOMAIN queue : queue[i] # c
  BY DEF ToolCall, QueuedOnce, TypeOK
<1>4. QueuedOnce'
  <2>1. /\ Len(queue) \in Nat /\ DOMAIN queue = 1 .. Len(queue)
        /\ DOMAIN queue' = 1 .. Len(queue) + 1
        /\ \A i \in 1 .. Len(queue) : queue'[i] = queue[i]
        /\ queue'[Len(queue) + 1] = c
    BY DEF ToolCall, TypeOK
  <2>2. \A i \in DOMAIN queue' : i \in DOMAIN queue \/ (i = Len(queue) + 1 /\ queue'[i] = c)
    BY <2>1
  <2>3. \A x \in Calls : x # c => tool'[x] = tool[x]
    BY DEF ToolCall, TypeOK
  <2>4. tool'[c] = "waiting" /\ ran' = ran /\ pending' = pending
    BY DEF ToolCall, TypeOK, broker
  <2>5. \A i \in DOMAIN queue : queue[i] \in Calls
    BY DEF TypeOK
  <2> QED BY <1>2, <1>3, <2>1, <2>2, <2>3, <2>4, <2>5 DEF QueuedOnce
<1>5. WiredOnce' /\ Connected' /\ AgainFirst'
  BY DEF ToolCall, WiredOnce, Connected, AgainFirst, Response, broker
<1>6. AnsweredOnce'
  BY DEF ToolCall, AnsweredOnce, Response, broker
<1>7. TasksFit' /\ AnswersTrue'
  BY <1>2 DEF ToolCall, TasksFit, AnswersTrue, TypeOK, broker
<1>8. Converges'
  <2>1. \A i \in DOMAIN inbox : Response(inbox[i]) /\ inbox[i].to # Again =>
          kind'[inbox[i].to] = kind[inbox[i].to]
    BY <1>2 DEF ToolCall, AnsweredOnce, Response, TypeOK, Requests
  <2>2. inbox' = inbox /\ wire' = wire /\ UNCHANGED <<link, reg, binding, denied>>
    BY DEF ToolCall, broker
  <2> QED BY <2>1, <2>2 DEF Converges, Effective, Response, Rebinding
<1> QED BY <1>1, <1>4, <1>5, <1>6, <1>7, <1>8

\* A task that gives up, or takes its result, leaves its call where it is.
LEMMA TaskInv ==
  ASSUME ShimInv, NEW c \in Calls, CallTimeout(c) \/ ToolDone(c)
  PROVE  ShimInv'
<1> USE DEF ShimInv
<1>1. TypeOK'
  <2>1. CASE CallTimeout(c)
    BY <2>1 DEF CallTimeout, TypeOK, ToolState, flow, broker
  <2>2. CASE ToolDone(c)
    BY <2>2 DEF ToolDone, TypeOK, ToolState, flow, broker
  <2> QED BY <2>1, <2>2
<1>2. /\ UNCHANGED <<link, kind, queue, pending, wire, inbox, binding, denied, holder, reg, ran>>
      /\ \/ tool[c] = "waiting" /\ tool' = [tool EXCEPT ![c] = "unreachable"]
         \/ tool[c] = "accepted" /\ tool' = [tool EXCEPT ![c] = "ok"]
  BY DEF CallTimeout, ToolDone, flow, broker
<1>3. QueuedOnce'
  <2>1. \A x \in Calls : tool[x] \in {"waiting", "unreachable"} =>
                         tool'[x] \in {"waiting", "unreachable"}
    BY <1>2 DEF TypeOK
  <2>2. \A i \in DOMAIN queue : queue[i] \in Calls
    BY DEF TypeOK
  <2> QED BY <1>2, <2>1, <2>2 DEF QueuedOnce
<1>4. WiredOnce' /\ AnsweredOnce' /\ Connected' /\ AgainFirst'
  BY <1>2 DEF WiredOnce, AnsweredOnce, Connected, AgainFirst, Response
<1>5. TasksFit' /\ AnswersTrue'
  BY <1>2 DEF TasksFit, AnswersTrue, TypeOK
<1>6. Converges'
  BY <1>2 DEF Converges, Effective, Response, Rebinding
<1> QED BY <1>1, <1>3, <1>4, <1>5, <1>6

\* A failed dial, the end of the backoff, and what others do with the name
\* move nothing of the shim's.
LEMMA QuietInv ==
  ASSUME ShimInv, DialFails \/ WaitEnds \/ Detach \/ Rival
  PROVE  ShimInv'
<1> USE DEF ShimInv
<1>1. /\ UNCHANGED <<conns, kind, tool, queue, pending, wire, inbox, binding, block, denied,
                    reg, ran, via>>
      /\ link' = link \/ (link # "up" /\ link' \in {"wait", "dial"})
      /\ holder' = holder \/ holder' \in {"nobody", "rival"}
  BY DEF DialFails, WaitEnds, Detach, Rival, task, flow, broker
<1>2. TypeOK' /\ QueuedOnce' /\ WiredOnce'
  BY <1>1 DEF TypeOK, QueuedOnce, WiredOnce
<1>3. AnsweredOnce' /\ TasksFit' /\ AnswersTrue'
  BY <1>1 DEF AnsweredOnce, Response, TasksFit, AnswersTrue
<1>4. Connected' /\ AgainFirst'
  BY <1>1 DEF Connected, AgainFirst, Response
<1>5. Converges'
  BY <1>1 DEF Converges, Effective, Response, Rebinding
<1> QED BY <1>2, <1>3, <1>4, <1>5

\* A connection begins with the binding alone on the wire.
LEMMA DialOkInv == ASSUME ShimInv, DialOk PROVE ShimInv'
<1> USE DEF ShimInv
<1>1. /\ link = "dial" /\ link' = "up" /\ inbox' = <<>> /\ reg = None /\ pending = {}
      /\ UNCHANGED <<kind, tool, queue, binding, block, holder, reg, ran, via>>
      /\ denied' = FALSE
  BY DEF DialOk, Connected, task, broker
<1>2. \/ binding = None /\ wire' = <<>> /\ pending' = {}
      \/ binding \in Regs /\ wire' = <<Again>> /\ pending' = {Again}
  BY DEF DialOk, TypeOK
<1>3. TypeOK'
  <2>1. conns' \in 0 .. MaxConns
    BY BoundAssumption DEF DialOk, TypeOK
  <2>2. Again \in Requests
    BY DEF Requests
  <2>3. wire' \in Seq(Requests) /\ pending' \subseteq Requests
    <3>1. <<>> \in Seq(Requests) /\ <<Again>> \in Seq(Requests)
      BY <2>2
    <3> QED BY <1>2, <2>2, <3>1
  <2>4. denied' \in BOOLEAN /\ inbox' = inbox
    BY <1>1 DEF DialOk
  <2>5. link' \in {"dial", "up", "wait"}
    BY <1>1
  <2> QED BY <1>1, <2>1, <2>3, <2>4, <2>5 DEF TypeOK
<1>4. QueuedOnce'
  BY <1>1, <1>2, AgainAssumption DEF QueuedOnce, TypeOK
<1>5. WiredOnce' /\ AnsweredOnce'
  BY <1>1, <1>2 DEF WiredOnce, AnsweredOnce
<1>6. TasksFit' /\ AnswersTrue' /\ Connected'
  BY <1>1, <1>2, AgainAssumption DEF TasksFit, AnswersTrue, Connected
<1>7. AgainFirst' /\ Converges'
  BY <1>1, <1>2 DEF AgainFirst, Converges
<1> QED BY <1>3, <1>4, <1>5, <1>6, <1>7

\* Calls that hear that the broker is unreachable were waiting.
LEMMA UnreachableTool ==
  ASSUME TypeOK, NEW S, Unreachable(S)
  PROVE  /\ tool' \in [Calls -> ToolState]
         /\ \A c \in Calls : tool'[c] = tool[c] \/ (tool[c] = "waiting" /\ tool'[c] = "unreachable")
BY DEF Unreachable, TypeOK, ToolState

\* Between connections a queued call is answered and dropped.
LEMMA DrainCallInv == ASSUME ShimInv, DrainCall PROVE ShimInv'
<1> USE DEF ShimInv
<1>1. /\ tool' \in [Calls -> ToolState]
      /\ \A c \in Calls : tool'[c] = tool[c] \/ (tool[c] = "waiting" /\ tool'[c] = "unreachable")
  BY UnreachableTool DEF DrainCall
<1>2. /\ UNCHANGED <<link, conns, kind, pending, wire, inbox, binding, block, denied, holder,
                    reg, ran, via>>
      /\ queue # <<>> /\ queue' = Tail(queue)
  BY DEF DrainCall, broker
<1>3. TypeOK' /\ QueuedOnce'
  <2>1. /\ queue' \in Seq(Calls)
        /\ \A i \in DOMAIN queue' : i + 1 \in DOMAIN queue /\ queue'[i] = queue[i + 1]
    BY <1>2 DEF TypeOK
  <2>2. TypeOK'
    BY <1>1, <1>2, <2>1 DEF TypeOK
  <2>3. \A i, j \in DOMAIN queue' : i + 1 = j + 1 => i = j
    <3>1. DOMAIN queue' = 1 .. Len(queue') /\ Len(queue') \in Nat
      BY <2>1
    <3> QED BY <3>1
  <2>4. \A i \in DOMAIN queue : queue[i] \in Calls
    BY DEF TypeOK
  <2> QED BY <1>1, <1>2, <2>1, <2>2, <2>3, <2>4 DEF QueuedOnce
<1>4. WiredOnce' /\ AnsweredOnce' /\ Connected' /\ AgainFirst'
  BY <1>2 DEF WiredOnce, AnsweredOnce, Connected, AgainFirst, Response
<1>5. TasksFit' /\ AnswersTrue'
  BY <1>1, <1>2 DEF TasksFit, AnswersTrue
<1>6. Converges'
  BY <1>2 DEF Converges, Effective, Response, Rebinding
<1> QED BY <1>3, <1>4, <1>5, <1>6

\* With the connection go the requests and the responses in transit.
LEMMA LoseInv ==
  ASSUME ShimInv, NEW next \in {"nobody", "stale", "rival"}, Lose(next)
  PROVE  ShimInv'
<1> USE DEF ShimInv
<1>1. /\ tool' \in [Calls -> ToolState]
      /\ \A c \in Calls : tool'[c] = tool[c] \/ (tool[c] = "waiting" /\ tool'[c] = "unreachable")
  BY UnreachableTool DEF Lose
<1>2. /\ UNCHANGED <<conns, kind, queue, binding, block, denied, ran, via>>
      /\ link' \in {"wait", "dial"} /\ wire' = <<>> /\ inbox' = <<>> /\ pending' = {}
      /\ holder' = next /\ reg' = None
  BY DEF Lose
<1>3. TypeOK' /\ QueuedOnce'
  BY <1>1, <1>2 DEF TypeOK, QueuedOnce
<1>4. WiredOnce' /\ AnsweredOnce' /\ Connected' /\ AgainFirst' /\ Converges'
  BY <1>2 DEF WiredOnce, AnsweredOnce, Connected, AgainFirst, Converges
<1>5. TasksFit' /\ AnswersTrue'
  BY <1>1, <1>2 DEF TasksFit, AnswersTrue
<1> QED BY <1>3, <1>4, <1>5

\* A queued call goes out behind everything that is on the wire.
LEMMA SendCallInv == ASSUME ShimInv, SendCall PROVE ShimInv'
<1> USE DEF ShimInv
<1> PICK c \in Calls : c = Head(queue)
  BY DEF SendCall, TypeOK
<1>1. /\ queue # <<>> /\ queue' = Tail(queue) /\ wire' = Append(wire, c)
      /\ pending' = pending \cup {c} /\ link = "up"
      /\ UNCHANGED <<link, conns, kind, tool, inbox, binding, block, denied, holder, reg, ran, via>>
  BY DEF SendCall, task, broker
<1>2. c # Again /\ c \notin pending /\ ran[c] = 0 /\ tool[c] \in {"waiting", "unreachable"}
  <2>1. 1 \in DOMAIN queue /\ queue[1] = c
    BY <1>1 DEF TypeOK
  <2> QED BY <2>1, AgainAssumption DEF QueuedOnce
<1>3. /\ queue' \in Seq(Calls)
      /\ \A i \in DOMAIN queue' : i + 1 \in DOMAIN queue /\ queue'[i] = queue[i + 1] /\ i + 1 # 1
  BY <1>1 DEF TypeOK
<1>4. TypeOK'
  BY <1>1, <1>3 DEF TypeOK, Requests
<1>5. QueuedOnce'
  <2>1. \A i, j \in DOMAIN queue' : i + 1 = j + 1 => i = j
    <3>1. DOMAIN queue' = 1 .. Len(queue') /\ Len(queue') \in Nat
      BY <1>3
    <3> QED BY <3>1
  <2>2. 1 \in DOMAIN queue /\ queue[1] = c
    BY <1>1 DEF TypeOK
  <2> QED BY <1>1, <1>3, <2>1, <2>2 DEF QueuedOnce
<1>6. /\ wire \in Seq(Requests) /\ Len(wire) \in Nat /\ DOMAIN wire = 1 .. Len(wire)
      /\ DOMAIN wire' = 1 .. Len(wire) + 1
      /\ \A i \in DOMAIN wire : wire'[i] = wire[i]
      /\ wire'[Len(wire) + 1] = c
  BY <1>1 DEF TypeOK, Requests
<1>7. \A i \in DOMAIN wire' : i \in DOMAIN wire \/ i = Len(wire) + 1
  BY <1>6
<1>8. WiredOnce'
  BY <1>1, <1>2, <1>6, <1>7 DEF WiredOnce
<1>9. AnsweredOnce'
  BY <1>1, <1>2, <1>6, <1>7 DEF AnsweredOnce, Response
<1>10. TasksFit' /\ AnswersTrue'
  BY <1>1, <1>2 DEF TasksFit, AnswersTrue
<1>11. Connected' /\ AgainFirst'
  BY <1>1, <1>2, <1>6, <1>7 DEF Connected, AgainFirst, Response
<1>12. Converges'
  <2>1. (\A i \in DOMAIN wire' : wire'[i] # Again) => \A i \in DOMAIN wire : wire[i] # Again
    BY <1>6
  <2> QED BY <1>1, <2>1 DEF Converges, Effective, Response, Rebinding
<1> QED BY <1>4, <1>5, <1>8, <1>9, <1>10, <1>11, <1>12

\* What is left of the inbox after its head.
LEMMA InboxTail ==
  ASSUME TypeOK, inbox # <<>>, inbox' = Tail(inbox)
  PROVE  /\ 1 \in DOMAIN inbox /\ inbox[1] = Head(inbox) /\ inbox[1] \in Entries
         /\ inbox' \in Seq(Entries)
         /\ \A i \in DOMAIN inbox' : /\ i \in Nat /\ i + 1 \in DOMAIN inbox
                                     /\ i + 1 # 1 /\ inbox'[i] = inbox[i + 1]
         /\ \A i \in DOMAIN inbox : i \in Nat /\ (i # 1 => i - 1 \in DOMAIN inbox')
<1>1. inbox \in Seq(Entries)
  BY DEF TypeOK, Entries
<1> HIDE DEF Entries
<1>2. Len(inbox) \in Nat /\ DOMAIN inbox = 1 .. Len(inbox) /\ Len(inbox) > 0
  BY <1>1
<1>3. Len(inbox') = Len(inbox) - 1 /\ DOMAIN inbox' = 1 .. Len(inbox) - 1
  BY <1>1, <1>2
<1> QED BY <1>1, <1>2, <1>3

\* When the head has been read, the last registration still to be read is as
\* before, or the head was the last.
LEMMA TailConverges ==
  ASSUME TypeOK, Converges, link = "up", inbox # <<>>, inbox' = Tail(inbox),
         UNCHANGED <<kind, reg>>
  PROVE  /\ \A i \in DOMAIN inbox' :
              /\ Effective(inbox[i])'
              /\ \A j \in DOMAIN inbox' : j > i => ~Effective(inbox[j])'
              => reg' = Rebinding(inbox[i])'
         /\ (\A i \in DOMAIN inbox' : ~Effective(inbox[i])') =>
              \/ Effective(inbox[1]) /\ reg = Rebinding(inbox[1])
              \/ \A i \in DOMAIN inbox : ~Effective(inbox[i])
<1>1. /\ 1 \in DOMAIN inbox
      /\ \A i \in DOMAIN inbox' : i \in Nat /\ i + 1 \in DOMAIN inbox /\ inbox'[i] = inbox[i + 1]
      /\ \A i \in DOMAIN inbox : i \in Nat /\ (i # 1 => i - 1 \in DOMAIN inbox')
  BY InboxTail
<1>2. \A i \in DOMAIN inbox' : /\ Effective(inbox[i])' <=> Effective(inbox[i + 1])
                              /\ Rebinding(inbox[i])' = Rebinding(inbox[i + 1])
  BY <1>1 DEF Effective, Response, Rebinding
<1>3. \A j \in DOMAIN inbox : j # 1 => /\ j - 1 \in DOMAIN inbox' /\ (j - 1) + 1 = j
                                      /\ Effective(inbox[j]) <=> Effective(inbox[j - 1])'
  <2>1. \A j \in DOMAIN inbox : j # 1 => j - 1 \in DOMAIN inbox' /\ (j - 1) + 1 = j
    BY <1>1
  <2> QED BY <1>2, <2>1
<1>4. \A i \in DOMAIN inbox : Effective(inbox[i]) /\ (\A j \in DOMAIN inbox : j > i => ~Effective(inbox[j]))
           => reg = Rebinding(inbox[i])
  BY DEF Converges
<1>5. ASSUME NEW i \in DOMAIN inbox', Effective(inbox[i])',
             \A j \in DOMAIN inbox' : j > i => ~Effective(inbox[j])'
      PROVE  reg' = Rebinding(inbox[i])'
  <2>1. \A j \in DOMAIN inbox : j > i + 1 => j # 1 /\ j - 1 > i
    BY <1>1
  <2>2. \A j \in DOMAIN inbox : j > i + 1 => ~Effective(inbox[j])
    BY <1>3, <1>5, <2>1
  <2> QED BY <1>1, <1>2, <1>4, <1>5, <2>2
<1>6. ASSUME \A i \in DOMAIN inbox' : ~Effective(inbox[i])', Effective(inbox[1])
      PROVE  reg = Rebinding(inbox[1])
  <2>1. \A j \in DOMAIN inbox : j > 1 => j # 1
    BY <1>1
  <2> QED BY <1>1, <1>3, <1>4, <1>6, <2>1
<1> QED BY <1>3, <1>5, <1>6

\* Reading a delivery touches neither requests nor the registration.
LEMMA DeliverInv == ASSUME ShimInv, handle_deliver PROVE ShimInv'
<1> USE DEF ShimInv
<1> PICK e : e = Head(inbox)
  OBVIOUS
<1>1. /\ link = "up" /\ inbox # <<>> /\ "msg" \in DOMAIN e /\ inbox' = Tail(inbox)
      /\ UNCHANGED <<link, conns, kind, tool, queue, pending, wire, binding, block, denied,
                    holder, reg, ran>>
      /\ via' = IF block THEN via ELSE [via EXCEPT ![e.msg] = e.reg]
  BY DEF handle_deliver, task, broker
<1>2. /\ 1 \in DOMAIN inbox /\ inbox[1] = e /\ e \in Entries
      /\ inbox' \in Seq(Entries)
      /\ \A i \in DOMAIN inbox' : /\ i \in Nat /\ i + 1 \in DOMAIN inbox
                                  /\ i + 1 # 1 /\ inbox'[i] = inbox[i + 1]
      /\ \A i \in DOMAIN inbox : i \in Nat /\ (i # 1 => i - 1 \in DOMAIN inbox')
  BY <1>1, InboxTail
<1>3. ~Response(e) /\ e.msg \in Msgs /\ e.reg \in Regs
  BY <1>1, <1>2, EntryShape
<1>4. TypeOK'
  <2>1. via' \in [Msgs -> Regs \cup {None}]
    BY <1>1, <1>3 DEF TypeOK
  <2> QED BY <1>1, <1>2, <2>1 DEF TypeOK, Entries
<1>5. QueuedOnce' /\ WiredOnce' /\ TasksFit' /\ AnswersTrue' /\ Connected'
  BY <1>1 DEF QueuedOnce, WiredOnce, TasksFit, AnswersTrue, Connected
<1>6. AnsweredOnce' /\ AgainFirst'
  BY <1>1, <1>2 DEF AnsweredOnce, AgainFirst, Response
<1>7. Converges'
  <2>1. ~Effective(inbox[1]) /\ ~Response(inbox[1])
    BY <1>2, <1>3 DEF Effective
  <2>2. (\A i \in DOMAIN inbox' : Response(inbox[i])' /\ inbox'[i].to = Again => inbox'[i].ok) =>
        \A i \in DOMAIN inbox : Response(inbox[i]) /\ inbox[i].to = Again => inbox[i].ok
    <3>1. \A i \in DOMAIN inbox : i # 1 => i - 1 \in DOMAIN inbox' /\ inbox'[i - 1] = inbox[i]
      BY <1>2
    <3> QED BY <2>1, <3>1 DEF Response
  <2> HIDE DEF Response, Effective, Rebinding
  <2> QED BY <1>1, <2>1, <2>2, TailConverges DEF Converges
<1> QED BY <1>4, <1>5, <1>6, <1>7

\* Reading a response ends its request; the binding follows what it says.
LEMMA ReadInv == ASSUME ShimInv, ReadResponse PROVE ShimInv'
<1> USE DEF ShimInv
<1> PICK e : e = Head(inbox)
  OBVIOUS
<1> PICK x, ok : x = e.to /\ ok = e.ok
  OBVIOUS
<1>1. /\ link = "up" /\ inbox # <<>> /\ Response(e) /\ inbox' = Tail(inbox)
      /\ UNCHANGED <<link, conns, kind, queue, wire, block, holder, reg, ran, via>>
      /\ pending' = pending \ {x}
      /\ binding' = Effect(x, ok)
      /\ denied' = (denied \/ (x = Again /\ ~ok))
      /\ tool' = IF x # Again /\ tool[x] = "waiting"
                 THEN [tool EXCEPT ![x] = IF ok THEN "accepted" ELSE "refused"] ELSE tool
  BY DEF ReadResponse, Response, broker
<1>2. /\ 1 \in DOMAIN inbox /\ inbox[1] = e /\ e \in Entries
      /\ inbox' \in Seq(Entries)
      /\ \A i \in DOMAIN inbox' : /\ i \in Nat /\ i + 1 \in DOMAIN inbox
                                  /\ i + 1 # 1 /\ inbox'[i] = inbox[i + 1]
      /\ \A i \in DOMAIN inbox : i \in Nat /\ (i # 1 => i - 1 \in DOMAIN inbox')
  BY <1>1, InboxTail
<1>3. x \in Requests /\ ok \in BOOLEAN
  BY <1>1, <1>2, EntryShape
<1>4. /\ x \in pending
      /\ x # Again => x \in Calls /\ ran[x] = (IF ok THEN 1 ELSE 0)
                      /\ tool[x] \in {"waiting", "unreachable"}
  BY <1>1, <1>2, <1>3 DEF AnsweredOnce, TasksFit, Requests
<1>5. TypeOK'
  <2>1. binding' \in Regs \cup {None}
    BY <1>1 DEF Effect, TypeOK
  <2>2. tool' \in [Calls -> ToolState]
    BY <1>1, <1>4 DEF TypeOK, ToolState
  <2>3. denied' \in BOOLEAN
    BY <1>1
  <2> QED BY <1>1, <1>2, <2>1, <2>2, <2>3 DEF TypeOK, Entries
<1>6. QueuedOnce'
  <2>1. \A i \in DOMAIN queue : queue[i] # x
    BY <1>4 DEF QueuedOnce
  <2>2. \A c \in Calls : c # x => tool'[c] = tool[c]
    BY <1>1 DEF TypeOK
  <2>3. \A i \in DOMAIN queue : queue[i] \in Calls
    BY DEF TypeOK
  <2> QED BY <1>1, <2>1, <2>2, <2>3 DEF QueuedOnce
<1>7. WiredOnce' /\ Connected'
  BY <1>1, <1>2 DEF WiredOnce, AnsweredOnce, Connected
<1>8. AnsweredOnce'
  <2>1. \A i, j \in DOMAIN inbox' : i + 1 = j + 1 => i = j
    BY <1>2
  <2> QED BY <1>1, <1>2, <2>1 DEF AnsweredOnce, Response
<1>9. TasksFit' /\ AnswersTrue'
  BY <1>1, <1>4 DEF TasksFit, AnswersTrue, TypeOK
<1>10. AgainFirst'
  BY <1>1, <1>2 DEF AgainFirst, Response
<1>11. Converges'
  <2>1. /\ Effective(inbox[1]) => binding' = Rebinding(inbox[1])
        /\ ~Effective(inbox[1]) => binding' = binding
    <3>1. Effective(e) <=> ok /\ x # Again /\ kind[x] \in Regs \cup {"deregister"}
      BY <1>1 DEF Effective
    <3>2. CASE kind[x] \in Regs
      BY <1>1, <1>2, <3>1, <3>2, RegsAssumption DEF Rebinding, Effect
    <3>3. CASE kind[x] \notin Regs
      BY <1>1, <1>2, <3>1, <3>3 DEF Rebinding, Effect
    <3> QED BY <3>2, <3>3
  <2>2. ~denied' => /\ ~denied
                    /\ Response(inbox[1]) /\ inbox[1].to = Again => inbox[1].ok
    BY <1>1, <1>2
  <2>3. (\A i \in DOMAIN inbox' : Response(inbox[i])' /\ inbox'[i].to = Again => inbox'[i].ok)
          /\ ~denied' =>
        \A i \in DOMAIN inbox : Response(inbox[i]) /\ inbox[i].to = Again => inbox[i].ok
    <3>1. \A i \in DOMAIN inbox : i # 1 => i - 1 \in DOMAIN inbox' /\ inbox'[i - 1] = inbox[i]
      BY <1>2
    <3> QED BY <2>2, <3>1 DEF Response
  <2> QED BY <1>1, <2>1, <2>2, <2>3, TailConverges DEF Converges
<1> QED BY <1>5, <1>6, <1>7, <1>8, <1>9, <1>10, <1>11

\* What the inbox holds after an entry has joined it.
LEMMA InboxAppend ==
  ASSUME TypeOK, NEW e \in Entries, inbox' = Append(inbox, e)
  PROVE  /\ inbox' \in Seq(Entries)
         /\ Len(inbox) \in Nat /\ DOMAIN inbox = 1 .. Len(inbox)
         /\ \A i \in DOMAIN inbox : i \in DOMAIN inbox' /\ inbox'[i] = inbox[i]
         /\ Len(inbox) + 1 \in DOMAIN inbox' /\ inbox'[Len(inbox) + 1] = e
         /\ \A i \in DOMAIN inbox' : i \in DOMAIN inbox \/ i = Len(inbox) + 1
<1>1. inbox \in Seq(Entries)
  BY DEF TypeOK, Entries
<1> QED BY <1>1

\* A delivery joins the inbox under the registration the broker has.
LEMMA OfferInv == ASSUME ShimInv, NEW m \in Msgs, Offer(m) PROVE ShimInv'
<1> USE DEF ShimInv
<1> PICK e : e = [msg |-> m, reg |-> reg]
  OBVIOUS
<1>1. /\ link = "up" /\ holder = "shim" /\ inbox' = Append(inbox, e)
      /\ UNCHANGED <<link, conns, kind, tool, queue, pending, wire, binding, block, denied,
                    holder, reg, ran, via>>
  BY DEF Offer, task, broker
<1>2. e \in Entries /\ ~Response(e)
  BY <1>1 DEF Connected, Entries, Response
<1>3. /\ inbox' \in Seq(Entries)
      /\ Len(inbox) \in Nat /\ DOMAIN inbox = 1 .. Len(inbox)
      /\ \A i \in DOMAIN inbox : i \in DOMAIN inbox' /\ inbox'[i] = inbox[i]
      /\ Len(inbox) + 1 \in DOMAIN inbox' /\ inbox'[Len(inbox) + 1] = e
      /\ \A i \in DOMAIN inbox' : i \in DOMAIN inbox \/ i = Len(inbox) + 1
  BY <1>1, <1>2, InboxAppend
<1>4. \A i \in DOMAIN inbox' : Response(inbox'[i]) => i \in DOMAIN inbox
  BY <1>2, <1>3
<1>5. TypeOK'
  BY <1>1, <1>3 DEF TypeOK, Entries
<1>6. QueuedOnce' /\ WiredOnce' /\ TasksFit' /\ AnswersTrue' /\ Connected'
  BY <1>1 DEF QueuedOnce, WiredOnce, TasksFit, AnswersTrue, Connected
<1>7. AnsweredOnce' /\ AgainFirst'
  BY <1>1, <1>3, <1>4 DEF AnsweredOnce, AgainFirst, Response
<1>8. Converges'
  <2>1. /\ \A i \in DOMAIN inbox' : Effective(inbox[i])' => i \in DOMAIN inbox
        /\ \A i \in DOMAIN inbox : /\ Effective(inbox[i])' <=> Effective(inbox[i])
                                   /\ Rebinding(inbox[i])' = Rebinding(inbox[i])
    BY <1>1, <1>3, <1>4 DEF Effective, Response, Rebinding
  <2>2. \A i \in DOMAIN inbox : Response(inbox[i]) => /\ Response(inbox[i])'
                                                       /\ inbox'[i].to = inbox[i].to
                                                       /\ inbox'[i].ok = inbox[i].ok
    BY <1>3 DEF Response
  <2> QED BY <1>1, <1>3, <2>1, <2>2 DEF Converges
<1> QED BY <1>5, <1>6, <1>7, <1>8

\* Converges for the next inbox, when no call changes its kind.
LEMMA NextConverges ==
  ASSUME UNCHANGED kind,
         \A i \in DOMAIN inbox' :
           Effective(inbox'[i]) /\ (\A j \in DOMAIN inbox' : j > i => ~Effective(inbox'[j]))
             => reg' = Rebinding(inbox'[i]),
         /\ \A i \in DOMAIN inbox' : ~Effective(inbox'[i])
         /\ ~denied'
         /\ \A i \in DOMAIN wire' : wire'[i] # Again
         /\ \A i \in DOMAIN inbox' : Response(inbox'[i]) /\ inbox'[i].to = Again => inbox'[i].ok
         => binding' = reg'
  PROVE  Converges'
BY DEF Converges, Effective, Rebinding, Response

\* The broker answers the head of the wire; a registration or deregistration
\* that it carries out becomes the last one to be read.
LEMMA HandlesInv == ASSUME ShimInv, BrokerHandles PROVE ShimInv'
<1> USE DEF ShimInv
<1> PICK x \in Requests : x = Head(wire)
  BY DEF BrokerHandles, TypeOK
<1> PICK k : k = IF x = Again THEN binding ELSE kind[x]
  OBVIOUS
<1>1. PICK ok \in BOOLEAN :
        /\ inbox' = Append(inbox, [to |-> x, ok |-> ok])
        /\ ran' = IF ok /\ x # Again THEN [ran EXCEPT ![x] = @ + 1] ELSE ran
        /\ CASE ok /\ k \in Regs -> holder' = "shim" /\ reg' = k
             [] ok /\ k = "deregister" -> holder' = "nobody" /\ reg' = None
             [] OTHER -> UNCHANGED <<holder, reg>>
  BY DEF BrokerHandles
<1> PICK e : e = [to |-> x, ok |-> ok]
  OBVIOUS
<1>2. /\ link = "up" /\ wire # <<>> /\ wire' = Tail(wire) /\ inbox' = Append(inbox, e)
      /\ UNCHANGED <<link, conns, kind, tool, queue, pending, binding, block, denied, via>>
  BY <1>1 DEF BrokerHandles, task
<1>3. /\ ok /\ k \in Regs => holder' = "shim" /\ reg' = k
      /\ ok /\ k = "deregister" => holder' = "nobody" /\ reg' = None
      /\ ~(ok /\ k \in Regs \cup {"deregister"}) => holder' = holder /\ reg' = reg
  BY <1>1, RegsAssumption
<1>4. e \in Entries /\ Response(e) /\ e.to = x /\ e.ok = ok
  BY DEF Entries, Response
<1>5. /\ inbox' \in Seq(Entries)
      /\ Len(inbox) \in Nat /\ DOMAIN inbox = 1 .. Len(inbox)
      /\ \A i \in DOMAIN inbox : i \in DOMAIN inbox' /\ inbox'[i] = inbox[i]
      /\ Len(inbox) + 1 \in DOMAIN inbox' /\ inbox'[Len(inbox) + 1] = e
      /\ \A i \in DOMAIN inbox' : i \in DOMAIN inbox \/ i = Len(inbox) + 1
  BY <1>2, <1>4, InboxAppend
<1>6. /\ 1 \in DOMAIN wire /\ wire[1] = x
      /\ wire' \in Seq(Requests)
      /\ \A i \in DOMAIN wire' : /\ i \in Nat /\ i + 1 \in DOMAIN wire
                                 /\ i + 1 # 1 /\ wire'[i] = wire[i + 1]
      /\ \A i \in DOMAIN wire : i \in Nat /\ (i # 1 => i - 1 \in DOMAIN wire')
  <2>1. wire \in Seq(Requests)
    BY DEF TypeOK
  <2>2. Len(wire) \in Nat /\ DOMAIN wire = 1 .. Len(wire) /\ Len(wire) > 0
    BY <1>2, <2>1
  <2>3. Len(wire') = Len(wire) - 1 /\ DOMAIN wire' = 1 .. Len(wire) - 1
    BY <1>2, <2>1, <2>2
  <2> QED BY <1>2, <2>1, <2>2, <2>3
<1>7. /\ x \in pending
      /\ x # Again => x \in Calls /\ ran[x] = 0 /\ tool[x] \in {"waiting", "unreachable"}
  BY <1>6 DEF WiredOnce, TasksFit, Requests
<1>8. /\ ran' \in [Calls -> Nat]
      /\ \A c \in Calls : c # x => ran'[c] = ran[c]
      /\ x # Again => ran'[x] = IF ok THEN 1 ELSE 0
  BY <1>1, <1>7 DEF TypeOK
<1>9. \A i \in DOMAIN wire' : wire'[i] \in Requests /\ wire'[i] # x
  BY <1>6 DEF WiredOnce
<1>10. TypeOK'
  <2>1. reg' \in Regs \cup {None} /\ holder' \in {"nobody", "shim", "stale", "rival"}
    BY <1>3 DEF TypeOK
  <2> QED BY <1>2, <1>5, <1>6, <1>8, <2>1 DEF TypeOK, Entries
<1>11. QueuedOnce'
  <2>1. \A i \in DOMAIN queue : queue[i] \in Calls /\ queue[i] # x
    BY <1>7 DEF QueuedOnce, TypeOK
  <2> QED BY <1>2, <1>8, <2>1 DEF QueuedOnce
<1>12. WiredOnce'
  <2>1. \A i, j \in DOMAIN wire' : i + 1 = j + 1 => i = j
    BY <1>6
  <2>2. \A i \in DOMAIN wire' : wire'[i] # Again => ran'[wire'[i]] = ran[wire'[i]]
    BY <1>8, <1>9 DEF Requests
  <2>3. \A i \in DOMAIN wire' : wire'[i] \in pending' /\ (wire'[i] # Again => ran'[wire'[i]] = 0)
    BY <1>2, <1>6, <2>2 DEF WiredOnce
  <2>4. \A i, j \in DOMAIN wire' : i # j => wire'[i] # wire'[j]
    BY <1>6, <2>1 DEF WiredOnce
  <2> QED BY <2>3, <2>4 DEF WiredOnce
<1>13. AnsweredOnce'
  <2>1. \A i \in DOMAIN inbox : Response(inbox[i]) => inbox[i].to # x
    BY <1>6 DEF AnsweredOnce
  <2>2. \A i \in DOMAIN inbox : Response(inbox[i]) /\ inbox[i].to # Again => inbox[i].to \in Calls
    BY DEF AnsweredOnce, TypeOK, Requests
  <2>3. \A i \in DOMAIN inbox' : Response(inbox[i])' =>
          /\ inbox'[i].to \in pending
          /\ inbox'[i].to # Again => ran'[inbox'[i].to] = (IF inbox'[i].ok THEN 1 ELSE 0)
    <3> SUFFICES ASSUME NEW i \in DOMAIN inbox', Response(inbox[i])'
                 PROVE  /\ inbox'[i].to \in pending
                        /\ inbox'[i].to # Again =>
                             ran'[inbox'[i].to] = (IF inbox'[i].ok THEN 1 ELSE 0)
      OBVIOUS
    <3>1. CASE i \in DOMAIN inbox
      <4>1. inbox'[i] = inbox[i] /\ Response(inbox[i])
        BY <1>5, <3>1 DEF Response
      <4>2. /\ inbox[i].to \in pending
            /\ inbox[i].to # Again => ran[inbox[i].to] = (IF inbox[i].ok THEN 1 ELSE 0)
        BY <3>1, <4>1 DEF AnsweredOnce
      <4>3. inbox[i].to # Again => ran'[inbox[i].to] = ran[inbox[i].to]
        BY <1>8, <2>1, <2>2, <3>1, <4>1
      <4> QED BY <4>1, <4>2, <4>3
    <3>2. CASE i \notin DOMAIN inbox
      <4>1. inbox'[i] = e
        BY <1>5, <3>2
      <4> QED BY <1>4, <1>7, <1>8, <4>1
    <3> QED BY <3>1, <3>2
  <2>4. \A i, j \in DOMAIN inbox' :
          Response(inbox[i])' /\ Response(inbox[j])' /\ i # j => inbox'[i].to # inbox'[j].to
    BY <1>4, <1>5, <2>1 DEF AnsweredOnce, Response
  <2>5. \A i \in DOMAIN inbox', j \in DOMAIN wire' : Response(inbox[i])' => inbox'[i].to # wire'[j]
    <3> SUFFICES ASSUME NEW i \in DOMAIN inbox', NEW j \in DOMAIN wire', Response(inbox[i])'
                 PROVE  inbox'[i].to # wire'[j]
      OBVIOUS
    <3>1. CASE i \in DOMAIN inbox
      BY <1>5, <1>6, <3>1 DEF AnsweredOnce, Response
    <3>2. CASE i \notin DOMAIN inbox
      BY <1>4, <1>5, <1>9, <3>2
    <3> QED BY <3>1, <3>2
  <2> QED BY <1>2, <2>3, <2>4, <2>5 DEF AnsweredOnce
<1>14. TasksFit' /\ AnswersTrue'
  <2>1. \A c \in Calls : ran'[c] = ran[c] \/ (c = x /\ x # Again /\ ran'[c] \in {0, 1})
    BY <1>8, AgainAssumption
  <2>2. TasksFit'
    BY <1>2, <1>7, <2>1 DEF TasksFit
  <2>3. AnswersTrue'
    BY <1>2, <1>7, <2>1 DEF AnswersTrue
  <2> QED BY <2>2, <2>3
<1>15. Connected'
  BY <1>2, <1>3 DEF Connected
<1>16. AgainFirst'
  <2>1. \A i \in DOMAIN wire' : wire'[i] # Again
    BY <1>6 DEF AgainFirst
  <2> QED BY <2>1 DEF AgainFirst
<1>17. Converges'
  <2> PICK n : n = Len(inbox) + 1
    OBVIOUS
  <2>1. \A i \in DOMAIN inbox : i \in DOMAIN inbox' /\ inbox'[i] = inbox[i] /\ n > i
    BY <1>5
  <2>2. /\ n \in DOMAIN inbox' /\ inbox'[n] = e
        /\ \A i \in DOMAIN inbox' : i \in DOMAIN inbox \/ i = n
    BY <1>5
  <2>3. /\ Effective(e) <=> ok /\ x # Again /\ k \in Regs \cup {"deregister"}
        /\ x # Again => Rebinding(e) = IF k \in Regs THEN k ELSE None
    BY <1>4 DEF Effective, Rebinding
  <2>4. CASE x = Again
    <3>1. binding \in Regs /\ \A j \in DOMAIN inbox : ~Effective(inbox[j])
      BY <1>6, <2>4 DEF AgainFirst, Effective
    <3>2. \A i \in DOMAIN inbox' : ~Effective(inbox'[i])
      BY <2>1, <2>2, <2>3, <2>4, <3>1
    <3>3. ok => binding' = reg'
      BY <1>2, <1>3, <2>4, <3>1
    <3>4. ~ok => ~(Response(inbox'[n]) /\ inbox'[n].to = Again => inbox'[n].ok)
      BY <1>4, <2>2, <2>4
    <3> QED BY <1>2, <2>2, <3>2, <3>3, <3>4, NextConverges
  <2>5. CASE x # Again /\ ok /\ k \in Regs \cup {"deregister"}
    <3>1. reg' = Rebinding(e) /\ Effective(e)
      BY <1>3, <2>3, <2>5
    <3> QED BY <1>2, <2>1, <2>2, <3>1, NextConverges
  <2>6. CASE x # Again /\ ~(ok /\ k \in Regs \cup {"deregister"})
    <3>1. \A i \in DOMAIN wire : wire[i] # Again
      BY <1>6, <2>6 DEF AgainFirst
    <3>2. reg' = reg /\ ~Effective(e)
      BY <1>3, <2>3, <2>6
    <3>3. \A i \in DOMAIN inbox' : Effective(inbox'[i]) => i \in DOMAIN inbox
      BY <2>2, <3>2
    <3>4. ASSUME NEW i \in DOMAIN inbox', Effective(inbox'[i]),
                 \A j \in DOMAIN inbox' : j > i => ~Effective(inbox'[j])
          PROVE  reg' = Rebinding(inbox'[i])
      <4>1. i \in DOMAIN inbox /\ Effective(inbox[i])
        BY <2>1, <3>3, <3>4
      <4>2. \A j \in DOMAIN inbox : j > i => ~Effective(inbox[j])
        BY <2>1, <3>4
      <4>3. reg = Rebinding(inbox[i])
        BY <1>2, <4>1, <4>2 DEF Converges
      <4> QED BY <2>1, <3>2, <4>1, <4>3
    <3>5. ASSUME \A i \in DOMAIN inbox' : ~Effective(inbox'[i]), ~denied',
                 \A i \in DOMAIN inbox' : Response(inbox'[i]) /\ inbox'[i].to = Again => inbox'[i].ok
          PROVE  binding' = reg'
      <4>1. \A i \in DOMAIN inbox : ~Effective(inbox[i])
        BY <2>1, <3>5
      <4>2. \A i \in DOMAIN inbox : Response(inbox[i]) /\ inbox[i].to = Again => inbox[i].ok
        BY <2>1, <3>5
      <4> QED BY <1>2, <3>1, <3>2, <3>5, <4>1, <4>2 DEF Converges
    <3> QED BY <1>2, <3>4, <3>5, NextConverges
  <2> QED BY <2>4, <2>5, <2>6
<1> QED BY <1>10, <1>11, <1>12, <1>13, <1>14, <1>15, <1>16, <1>17

-----------------------------------------------------------------------------
\* Every step of the shim, the broker and the network keeps the invariant.
LEMMA StepInv == ShimInv /\ [Next]_vars => ShimInv'
<1> SUFFICES ASSUME ShimInv, [Next]_vars PROVE ShimInv'  OBVIOUS
<1>1. ASSUME NEW c \in Calls, NEW k \in Kinds \ {None}, ToolCall(c, k) PROVE ShimInv'
  BY <1>1, ToolCallInv
<1>2. ASSUME NEW c \in Calls, CallTimeout(c) \/ ToolDone(c) PROVE ShimInv'
  BY <1>2, TaskInv
<1>3. CASE DialFails \/ WaitEnds \/ Detach \/ Rival
  BY <1>3, QuietInv
<1>4. CASE DialOk
  BY <1>4, DialOkInv
<1>5. CASE DrainCall
  BY <1>5, DrainCallInv
<1>6. CASE SendCall
  BY <1>6, SendCallInv
<1>7. CASE ReadResponse
  BY <1>7, ReadInv
<1>8. CASE handle_deliver
  BY <1>8, DeliverInv
<1>9. CASE BrokerHandles
  BY <1>9, HandlesInv
<1>10. ASSUME NEW m \in Msgs, Offer(m) PROVE ShimInv'
  BY <1>10, OfferInv
<1>11. CASE ConnectionDrops \/ BrokerRestarts
  <2>1. holder \in {"nobody", "shim", "stale", "rival"}
    BY DEF ShimInv, TypeOK
  <2>2. PICK next \in {"nobody", "stale", "rival"} : Lose(next)
    BY <1>11, <2>1 DEF ConnectionDrops, BrokerRestarts
  <2> QED BY <2>2, LoseInv
<1>12. CASE UNCHANGED vars
  <2>1. UNCHANGED <<link, conns, kind, tool, queue, pending, wire, inbox, binding, block,
                    denied, holder, reg, ran, via>>
    BY <1>12 DEF vars, task, flow, broker
  <2>2. TypeOK' /\ QueuedOnce' /\ WiredOnce' /\ AnsweredOnce'
    BY <2>1 DEF ShimInv, TypeOK, QueuedOnce, WiredOnce, AnsweredOnce, Response
  <2>3. TasksFit' /\ AnswersTrue' /\ Connected' /\ AgainFirst'
    BY <2>1 DEF ShimInv, TasksFit, AnswersTrue, Connected, AgainFirst, Response
  <2>4. Converges'
    BY <2>1 DEF ShimInv, Converges, Effective, Response, Rebinding
  <2> QED BY <2>2, <2>3, <2>4 DEF ShimInv
<1> QED BY <1>1, <1>2, <1>3, <1>4, <1>5, <1>6, <1>7, <1>8, <1>9, <1>10, <1>11, <1>12 DEF Next

\* The strengthened invariant of the shim holds always.
THEOREM ShimInvariant == Spec => []ShimInv
<1> QED BY InitInv, StepInv, PTL DEF Spec

\* Every variable of the shim's two loops keeps its type.
THEOREM ShimTyped == Spec => []TypeOK
<1>1. ShimInv => TypeOK
  BY DEF ShimInv
<1> QED BY <1>1, ShimInvariant, PTL

\* However often the connection is lost while calls are queued, in transit or
\* answered: no tool call is carried out twice, and what the model hears of it
\* is true.
THEOREM ShimAnswersTrue == Spec => []AnswersTrue
<1>1. ShimInv => AnswersTrue
  BY DEF ShimInv
<1> QED BY <1>1, ShimInvariant, PTL

\* The registration that the shim would re-assert on its next connection is the
\* one the broker has, unless a call that changes it is unanswered or the
\* re-registration was refused.
THEOREM ShimCarriesBinding == Spec => []CarriesBinding
<1>1. ShimInv => CarriesBinding
  <2> SUFFICES ASSUME ShimInv, link = "up", ~denied,
                      \A x \in pending : x # Again /\ kind[x] = "send"
               PROVE  binding = reg
    BY DEF CarriesBinding
  <2>1. \A i \in DOMAIN inbox : Response(inbox[i]) =>
                                inbox[i].to # Again /\ kind[inbox[i].to] = "send"
    BY DEF ShimInv, AnsweredOnce
  <2>2. \A i \in DOMAIN inbox : ~Effective(inbox[i])
    BY <2>1, RegsAssumption DEF Effective
  <2>3. \A i \in DOMAIN wire : wire[i] # Again
    BY DEF ShimInv, WiredOnce
  <2> QED BY <2>1, <2>2, <2>3 DEF ShimInv, Converges
<1> QED BY <1>1, ShimInvariant, PTL
=============================================================================
