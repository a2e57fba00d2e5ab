---------------------------- MODULE AckLifecycle ----------------------------
(***************************************************************************)
(* What the broker promises about acknowledgments, with no sessions, tasks *)
(* or crashes: a stored message has one row per recipient, created held or *)
(* failed with the message; a row only moves up the order                  *)
(*            held < relayed < processed | failed                          *)
(* and the two terminal states are final (crates/broker/src/store.rs,      *)
(* ack_rank and ack_set).  Delivery.tla refines this module.               *)
(***************************************************************************)
CONSTANTS Messages,     \* message record ids
          Recipients    \* principal names

VARIABLES posted,       \* the messages in the records table
          row           \* the acks table: row[m][r], "none" where there is no row

vars == <<posted, row>>

AckState == {"none", "held", "relayed", "processed", "failed"}

\* The transitions of one row.
Edges == {<<"held", "relayed">>, <<"held", "processed">>, <<"held", "failed">>,
          <<"relayed", "processed">>, <<"relayed", "failed">>}

TypeOK == /\ posted \subseteq Messages
          /\ row \in [Messages -> [Recipients -> AckState]]

Init == /\ posted = {}
        /\ row = [m \in Messages |-> [r \in Recipients |-> "none"]]

\* A message and all its rows appear together; later no row is added.
Post(m) == /\ m \notin posted
           /\ posted' = posted \cup {m}
           /\ \E rows \in [Recipients -> {"none", "held", "failed"}] :
                row' = [row EXCEPT ![m] = rows]

Advance(m, r) == /\ m \in posted
                 /\ \E st \in AckState :
                      /\ <<row[m][r], st>> \in Edges
                      /\ row' = [row EXCEPT ![m][r] = st]
                 /\ UNCHANGED posted

Next == \/ \E m \in Messages : Post(m)
        \/ \E m \in Messages, r \in Recipients : Advance(m, r)

Spec == Init /\ [][Next]_vars
=============================================================================
