-------------------------------- MODULE Log --------------------------------
(***************************************************************************)
(* The record log of the broker and its readers: a send resolves its       *)
(* audience, stores its record and broadcasts it to the watchers; changes  *)
(* of channels and memberships store and broadcast theirs; history pages   *)
(* backwards through the log (crates/broker/src/core/rpc.rs, core.rs and   *)
(* store.rs).                                                              *)
(*                                                                         *)
(* Each session is registered and handles one request at a time; one step  *)
(* is one store call or one lock of a session's state.  Who may change a   *)
(* channel is Channels' subject, how recipients get a message Delivery's,  *)
(* the queue behind a watcher Connection's.                                *)
(***************************************************************************)
EXTENDS Naturals, Sequences, FiniteSets, SequencesExt

CONSTANTS
  Peers,       \* sessions, each with its principal
  Chans,       \* channel ids, 1..n
  Names,       \* channel display names
  Naming,      \* the names of the channels at the beginning
  Members,     \* the subscriptions at the beginning, as <<peer, channel>>
  Targets,     \* the <<names, principals>> a send may address (bound)
  Senders,     \* who sends (bound)
  Movers,      \* who changes channels and memberships (bound)
  Watchers,    \* who watches (bound)
  Readers,     \* who pages through history (bound)
  Admins,      \* sessions registered with the admin scope
  Scopes,      \* the channels whose history is read (bound)
  Pairs,       \* the pairs of principals whose DMs are read (bound)
  MaxRecords,  \* bound: records stored
  MaxWatches,  \* bound: watch/start and watch/stop requests of a session
  MaxLimit,    \* the largest page (1000 in the code)
  None         \* no channel, name or scope

ASSUME PeersAssumption == IsFiniteSet(Peers) /\ None \notin Peers
ASSUME ChansAssumption == IsFiniteSet(Chans) /\ Chans = 1 .. Cardinality(Chans)
ASSUME NamingAssumption == Naming \in Injection(Chans, Names)
ASSUME MembersAssumption == Members \subseteq Peers \X Chans
ASSUME TargetsAssumption == Targets \subseteq (SUBSET Names) \X (SUBSET Peers) \ {<<{}, {}>>}
ASSUME BoundsAssumption == MaxRecords \in Nat /\ MaxWatches \in Nat /\ MaxLimit \in Nat \ {0}
ASSUME RolesAssumption ==
  Senders \cup Movers \cup Watchers \cup Readers \cup Admins \subseteq Peers /\ Watchers # {}
ASSUME ScopesAssumption == Scopes \subseteq Names /\ Pairs \subseteq SUBSET Peers

VARIABLES
  chan,     \* channels table: chan[c].st, chan[c].name
  subs,     \* subscriptions table
  log,      \* records table: the record with id k is log[k]
  purged,   \* ids of deleted records
  req,      \* req[s]: the request running for session s
  seen,     \* seen[s]: the subscriptions throughout, and at some time during, s's send
  watch,    \* watch[t]: SessionState.watch, and how often t has set it
  out,      \* out[t]: ids of the records broadcast to t, in order
  due,      \* due[t]: ids stored while t's filter wants them, the filter unchanged since
  page      \* page[t]: where t's reading of history stands

tables == <<chan, subs, log, purged>>
vars   == <<tables, req, seen, watch, out, due, page>>

Off == [mode |-> "off", names |-> {}]
All == [mode |-> "all", names |-> {}]
Filters == {Off, All} \cup {[mode |-> "channels", names |-> ns] : ns \in SUBSET Names \ {{}}}

Changes == {"join", "leave", "rename", "archive", "unarchive", "delete"}

\* A request that changes a channel or a membership; one that sends to the
\* names ns and the principals ps; the broadcast at the end of either.
Request(at, op, id, name, arg) ==
  [at |-> at, op |-> op, id |-> id, name |-> name, arg |-> arg, ids |-> {}, todo |-> {},
   to |-> {}, why |-> "none", cast |-> <<>>, rest |-> {}]
Sending(at, ns, ps, ids, todo, to, why) ==
  [at |-> at, op |-> "send", id |-> None, name |-> ns, arg |-> ps, ids |-> ids,
   todo |-> todo, to |-> to, why |-> why, cast |-> <<>>, rest |-> {}]
Casting(r, cast, rest) ==
  [at |-> "cast", op |-> r.op, id |-> r.id, name |-> r.name, arg |-> r.arg, ids |-> r.ids,
   todo |-> r.todo, to |-> r.to, why |-> r.why, cast |-> cast, rest |-> rest]
NoReq == Request("idle", "none", None, None, None)
NoSend == [always |-> {}, ever |-> {}]

\* A reading of history, and the reading p as it goes on.
Reading(at, scope, dm, limit) ==
  [at |-> at, scope |-> scope, dm |-> dm, limit |-> limit, id |-> None, ids |-> {},
   before |-> 0, got |-> <<>>, base |-> {}]
Turned(p, at, id, ids, before, got, base) ==
  [at |-> at, scope |-> p.scope, dm |-> p.dm, limit |-> p.limit, id |-> id, ids |-> ids,
   before |-> before, got |-> got, base |-> base]
NoPage == Reading("idle", None, FALSE, 1)

Exists(c) == chan[c].st # "deleted"
channel_by_name(n) == {c \in Chans : Exists(c) /\ chan[c].name = n}

\* A record; a system record about channel c is scoped to a name n, the one the
\* handler looked up or, for a rename, the new one.
Record(kind, chans, parts, scope) ==
  [kind |-> kind, chans |-> chans, parts |-> parts, scope |-> scope]
System(c, n) == Record("system", {c}, {}, {n})
Tombstone == Record("system", {}, {}, {})

\* The channels have been created and their members have subscribed.
First == Cardinality(Chans) + Cardinality(Members)
Room(n) == Len(log) + n =< First + MaxRecords

Init ==
  /\ chan = [c \in Chans |-> [st |-> "live", name |-> Naming[c]]]
  /\ log = [k \in 1 .. First |->
              LET c == IF k \in Chans THEN k ELSE SetToSeq(Members)[k - Cardinality(Chans)][2]
              IN  System(c, Naming[c])]
  /\ subs = Members
  /\ purged = {}
  /\ req = [s \in Peers |-> NoReq]
  /\ seen = [s \in Peers |-> NoSend]
  /\ watch = [t \in Watchers |-> [filter |-> Off, n |-> 0]]
  /\ out = [t \in Watchers |-> <<>>]
  /\ due = [t \in Watchers |-> {}]
  /\ page = [t \in Readers |-> NoPage]

-----------------------------------------------------------------------------
(* Storing and broadcasting *)

\* broadcast's test: a filtered watcher gets what is scoped to one of its
\* channels, and neither DMs nor global events (their scope has no channel).
Wants(filter, scope) ==
  \/ filter.mode = "all"
  \/ filter.mode = "channels" /\ filter.names \cap scope # {}

\* One transaction appends the records rs; then session s, whose request is r,
\* broadcasts them.
Store(s, r, rs) ==
  LET new == Len(log) + 1 .. Len(log) + Len(rs)
      rec == log \o rs IN
  /\ Room(Len(rs))
  /\ req' = [req EXCEPT ![s] =
       Casting(r, [i \in 1 .. Len(rs) |-> Len(log) + i], Watchers)]
  /\ due' = [t \in Watchers |->
               due[t] \cup {k \in new : Wants(watch[t].filter, rec[k].scope)}]

\* Memberships change: every send that is running may meet either state.
Subscriptions(now) ==
  /\ subs' = now
  /\ seen' = [s \in Peers |->
                IF req[s].at \in {"lookup", "resolve", "commit"}
                THEN [always |-> seen[s].always \cap now, ever |-> seen[s].ever \cup now]
                ELSE seen[s]]

\* Session t has been visited; after the last one comes the next record, and
\* after that the response.
Visited(s, t) ==
  IF req[s].rest = {t} /\ Len(req[s].cast) = 1
  THEN /\ req' = [req EXCEPT ![s] = NoReq]
       /\ seen' = [seen EXCEPT ![s] = NoSend]
  ELSE /\ req' = [req EXCEPT ![s] =
            IF req[s].rest # {t} THEN Casting(@, req[s].cast, req[s].rest \ {t})
            ELSE Casting(@, Tail(req[s].cast), Watchers)]
       /\ UNCHANGED seen

\* Mutant: the record goes to everyone, whatever the filter.
Cast_Unfiltered(s, t) ==
  LET k == Head(req[s].cast) IN
  /\ req[s].at = "cast"
  /\ t \in req[s].rest
  /\ out' = IF watch[t].filter # Off THEN [out EXCEPT ![t] = Append(@, k)] ELSE out
  /\ Visited(s, t)
  /\ UNCHANGED <<tables, watch, due, page>>

\* broadcast visits the sessions one by one and looks at each one's filter.
Cast(s, t) ==
  LET k == Head(req[s].cast) IN
  /\ req[s].at = "cast"
  /\ t \in req[s].rest
  /\ out' = IF Wants(watch[t].filter, log[k].scope)
            THEN [out EXCEPT ![t] = Append(@, k)] ELSE out
  /\ Visited(s, t)
  /\ UNCHANGED <<tables, watch, due, page>>

-----------------------------------------------------------------------------
(* send_message *)

\* A request names channels, principals or both.
SendStart(s, ns, ps) ==
  /\ req[s] = NoReq
  /\ Room(1)
  /\ req' = [req EXCEPT ![s] = Sending("lookup", ns, ps, {}, ns, {}, "none")]
  /\ seen' = [seen EXCEPT ![s] = [always |-> subs, ever |-> subs]]
  /\ UNCHANGED <<tables, watch, out, due, page>>

\* Names are looked up one by one.  One that is unknown or archived, a channel
\* met twice and an unknown thread end the request with nothing stored.
SendLookup(s) ==
  /\ req[s].at = "lookup"
  /\ \E n \in req[s].todo :
       LET r == req[s]
           found == {c \in channel_by_name(n) : chan[c].st = "live"} \ r.ids IN
       IF found = {}
       THEN /\ req' = [req EXCEPT ![s] = NoReq]
            /\ seen' = [seen EXCEPT ![s] = NoSend]
       ELSE /\ req' = [req EXCEPT ![s] = 
                 Sending("lookup", r.name, r.arg, r.ids \cup found, r.todo \ {n}, {}, "none")]
            /\ UNCHANGED seen
  /\ UNCHANGED <<tables, watch, out, due, page>>

\* The reads that resolving takes: all subscribers of a channel (None), or
\* whether one principal is subscribed to it.
Reads(ids, ps) == (IF ps = {} THEN {None} ELSE ps) \X ids

SendLookedUp(s) ==
  LET r == req[s] IN
  /\ r.at = "lookup"
  /\ r.todo = {}
  /\ req' = [req EXCEPT ![s] =
       IF r.ids = {} THEN Sending("commit", r.name, r.arg, {}, {}, r.arg, "none")
       ELSE Sending("resolve", r.name, r.arg, r.ids, Reads(r.ids, r.arg), {}, "none")]
  /\ UNCHANGED <<tables, seen, watch, out, due, page>>

SubscribersOf(c) == {p \in Peers : <<p, c>> \in subs}

\* Mutant: with both given, the principals are taken without the channels.
SendResolve_Union(s) ==
  /\ req[s].at = "resolve"
  /\ \E q \in req[s].todo :
       LET found == IF q[1] = None THEN SubscribersOf(q[2]) ELSE {q[1]}
           left  == {x \in req[s].todo : x # q /\ (q[1] # None /\ found # {} => x[1] # q[1])}
       IN  req' = [req EXCEPT ![s] = 
             Sending(IF left = {} THEN "commit" ELSE "resolve", req[s].name, req[s].arg,
                     req[s].ids, left, req[s].to \cup found, "none")]
  /\ UNCHANGED <<tables, seen, watch, out, due, page>>

\* One read of the subscriptions; a principal found on one channel is not
\* looked for on the others.
SendResolve(s) ==
  /\ req[s].at = "resolve"
  /\ \E q \in req[s].todo :
       LET found == SubscribersOf(q[2]) \cap (IF q[1] = None THEN Peers ELSE {q[1]})
           left  == {x \in req[s].todo : x # q /\ (q[1] # None /\ found # {} => x[1] # q[1])}
       IN  req' = [req EXCEPT ![s] = 
             Sending(IF left = {} THEN "commit" ELSE "resolve", req[s].name, req[s].arg,
                     req[s].ids, left, req[s].to \cup found, "none")]
  /\ UNCHANGED <<tables, seen, watch, out, due, page>>

\* Mutant: an intersection that resolves to nobody gives no reason.
EmptyAudience_Channels(ids, ps, to) ==
  IF ids = {} \/ to # {} \/ ps # {} THEN "none" ELSE "no_subscribers"

\* The reason a report gives for an audience that resolved to nobody.
EmptyAudience(ids, ps, to) ==
  IF ids = {} \/ to # {} THEN "none"
  ELSE IF ps # {} THEN "empty_intersection" ELSE "no_subscribers"

\* Whom the subscriptions rows make eligible for a message.
Addressed(ids, ps, rows) ==
  IF ids = {} THEN ps
  ELSE {p \in Peers : (ps # {} => p \in ps) /\ \E c \in ids : <<p, c>> \in rows}

Audience(s) == req[s].to \ {s}

\* append_message_with_acks: record, channels or participants and one row per
\* recipient.  A channel deleted meanwhile violates a foreign key.
SendCommit(s) ==
  LET r == req[s]
      ps == r.arg IN
  /\ r.at = "commit"
  /\ IF \A c \in r.ids : Exists(c)
     THEN LET rec == Record("message", r.ids, IF r.ids = {} THEN {s} \cup ps ELSE {}, r.name)
          IN  /\ log' = Append(log, rec)
              /\ Store(s, Sending("commit", r.name, ps, r.ids, {}, Audience(s),
                                  EmptyAudience(r.ids, ps, r.to)), <<rec>>)
              /\ UNCHANGED seen
     ELSE /\ req' = [req EXCEPT ![s] = NoReq]
          /\ seen' = [seen EXCEPT ![s] = NoSend]
          /\ UNCHANGED <<log, due>>
  /\ UNCHANGED <<chan, subs, purged, watch, out, page>>

-----------------------------------------------------------------------------
(* Channels and memberships: a lookup by name, a transaction, a broadcast *)

\* Joining and leaving need a live channel, archiving one that is not archived.
ChangeLookup(s, op, n, arg) ==
  /\ req[s] = NoReq
  /\ Room(1)
  /\ op \in Changes
  /\ arg \in CASE op \in {"join", "leave"} -> Peers [] op = "rename" -> Names [] OTHER -> {None}
  /\ \E c \in channel_by_name(n) :
       /\ op \in {"join", "leave", "archive"} => chan[c].st = "live"
       /\ op = "unarchive" => chan[c].st = "archived"
       /\ req' = [req EXCEPT ![s] = Request("apply", op, c, n, arg)]
  /\ UNCHANGED <<tables, seen, watch, out, due, page>>

Applying(s, op) == req[s].at = "apply" /\ req[s].op = op
Ends(s) == req' = [req EXCEPT ![s] = NoReq]

\* subscribe, unsubscribe and the admin's counterparts.  The record goes with the
\* change, also when only an admin's override changes; a request the override
\* denies, one that changes nothing, and one whose channel is gone, leave none.
\* (Overrides are Channels' subject; here either may happen.)
Membership(s) ==
  LET c == req[s].id   x == <<req[s].arg, c>>   on == req[s].op = "join"
      now == IF on THEN subs \cup {x} ELSE subs \ {x} IN
  /\ Applying(s, "join") \/ Applying(s, "leave")
  /\ \/ /\ Exists(c)
        /\ log' = Append(log, System(c, req[s].name))
        /\ Store(s, NoReq, <<System(c, req[s].name)>>)
        /\ Subscriptions(now)
     \/ /\ Ends(s)
        /\ UNCHANGED <<log, subs, seen, due>>
  /\ UNCHANGED <<chan, purged, watch, out, page>>

\* rename: refused when the name is taken.  The record is broadcast to the
\* watchers of the new name, and is stored also when the channel is gone.
Rename(s) ==
  LET c == req[s].id   new == req[s].arg IN
  /\ Applying(s, "rename")
  /\ IF Exists(c) /\ channel_by_name(new) \ {c} # {}
     THEN Ends(s) /\ UNCHANGED <<chan, log, due>>
     ELSE /\ chan' = IF Exists(c) THEN [chan EXCEPT ![c].name = new] ELSE chan
          /\ log' = Append(log, System(c, new))
          /\ Store(s, NoReq, <<System(c, new)>>)
  /\ UNCHANGED <<subs, purged, seen, watch, out, page>>

\* archive: one record per subscriber that is cancelled and one about the
\* channel; unarchive: one record.
Archive(s) ==
  LET c == req[s].id   on == req[s].op = "archive"
      n == IF on THEN Cardinality(SubscribersOf(c)) + 1 ELSE 1
      rs == [k \in 1 .. n |-> System(c, req[s].name)] IN
  /\ Applying(s, "archive") \/ Applying(s, "unarchive")
  /\ chan' = IF Exists(c) THEN [chan EXCEPT ![c].st = IF on THEN "archived" ELSE "live"] ELSE chan
  /\ log' = log \o rs
  /\ Store(s, NoReq, rs)
  /\ Subscriptions({x \in subs : on => x[2] # c})
  /\ UNCHANGED <<purged, watch, out, page>>

\* delete_confirm: the channel's own messages are removed, shared ones and its
\* system records detached, a tombstone stored.
Delete(s) ==
  LET c == req[s].id
      own == {k \in DOMAIN log : log[k].kind = "message" /\ log[k].chans = {c}} IN
  /\ Applying(s, "delete")
  /\ chan' = [chan EXCEPT ![c].st = "deleted"]
  /\ purged' = purged \cup own
  /\ log' = Append([k \in DOMAIN log |->
                     Record(log[k].kind, log[k].chans \ {c}, log[k].parts, log[k].scope)],
                   Tombstone)
  /\ Store(s, NoReq, <<Tombstone>>)
  /\ Subscriptions({x \in subs : x[2] # c})
  /\ UNCHANGED <<watch, out, page>>

-----------------------------------------------------------------------------
(* watch/start and watch/stop *)

\* A filter names existing channels, archived ones too.  (Bound: a session
\* watches or reads history; the two share nothing.)
SetWatch(t, filter) ==
  /\ req[t] = NoReq
  /\ watch[t].n < MaxWatches
  /\ t \in Readers => page[t] = NoPage
  /\ \A n \in filter.names : channel_by_name(n) # {}
  /\ watch' = [watch EXCEPT ![t] = [filter |-> filter, n |-> @.n + 1]]
  /\ due' = [due EXCEPT ![t] = {}]
  /\ UNCHANGED <<tables, req, seen, out, page>>

-----------------------------------------------------------------------------
(* history: a reader asks for a page, then for the one before its cursor *)

\* limit.clamp(1, 1000)
Clamp(limit) == IF limit = 0 THEN 1 ELSE IF limit > MaxLimit THEN MaxLimit ELSE limit

\* The scope is a channel's name, or the two principals of a DM: dm_with's are
\* the session and another, dm_between's any two and for admins only.
ReadStart(t, scope, dm, limit) ==
  /\ page[t].at = "idle"
  /\ t \in Watchers => watch[t].n = 0
  /\ dm => t \in scope \/ t \in Admins
  /\ page' = [page EXCEPT ![t] = Reading("lookup", scope, dm, Clamp(limit))]
  /\ UNCHANGED <<tables, req, seen, watch, out, due>>

\* The channel is looked up for every page; an unknown one, and an archived one
\* for a session that is not admin, end in an error.
PageLookup(t) ==
  LET p == page[t]
      found == {c \in channel_by_name(p.scope) : chan[c].st = "live" \/ t \in Admins} IN
  /\ p.at = "lookup"
  /\ page' = [page EXCEPT ![t] =
       IF p.dm THEN Turned(p, "read", p.id, p.ids, p.before, p.got, p.base)
       ELSE IF found = {} THEN Turned(p, "error", p.id, p.ids, p.before, p.got, p.base)
       ELSE Turned(p, "read", CHOOSE c \in found : TRUE, p.ids \cup found,
                   p.before, p.got, p.base)]
  /\ UNCHANGED <<tables, req, seen, watch, out, due>>

\* The records of a scope: a channel's messages and system records, or the DMs
\* two principals both take part in.
InScope(t) ==
  {k \in DOMAIN log \ purged :
     IF page[t].dm THEN page[t].scope \subseteq log[k].parts
     ELSE page[t].id \in log[k].chans}

\* The members of a set of ids in order, the k-th at place k.
Rank(ids, k) == Cardinality({j \in ids : j =< k})
Ascending(ids) == [i \in 1 .. Cardinality(ids) |-> CHOOSE k \in ids : Rank(ids, k) = i]

\* Mutant: the cursor is inclusive.
Page_Inclusive(ids, before, n) ==
  LET rows == Ascending({k \in ids : before = 0 \/ k =< before})
  IN  SubSeq(rows, IF Len(rows) > n THEN Len(rows) - n + 1 ELSE 1, Len(rows))

\* WHERE id < before ORDER BY id DESC LIMIT n, reversed.
Page(ids, before, n) ==
  LET rows == Ascending({k \in ids : before = 0 \/ k < before})
  IN  SubSeq(rows, IF Len(rows) > n THEN Len(rows) - n + 1 ELSE 1, Len(rows))

\* A full page has a cursor, the id of its oldest record; another ends.
PageRead(t) ==
  LET p == page[t]
      rows == Page(InScope(t), p.before, p.limit)
      more == Len(rows) = p.limit IN
  /\ p.at = "read"
  /\ page' = [page EXCEPT ![t] =
       Turned(p, IF more THEN "lookup" ELSE "done", p.id, p.ids,
              IF more THEN rows[1] ELSE p.before, rows \o p.got,
              IF p.before = 0 THEN InScope(t) ELSE p.base)]
  /\ UNCHANGED <<tables, req, seen, watch, out, due>>

-----------------------------------------------------------------------------
Next ==
  \/ \E s \in Senders :
       \/ \E x \in Targets : SendStart(s, x[1], x[2])
       \/ SendLookup(s) \/ SendLookedUp(s) \/ SendResolve(s) \/ SendCommit(s)
  \/ \E s \in Movers :
       \/ \E op \in Changes, n \in Names, arg \in Peers \cup Names \cup {None} :
            ChangeLookup(s, op, n, arg)
       \/ Membership(s) \/ Rename(s) \/ Archive(s) \/ Delete(s)
  \/ \E s \in Peers, t \in Watchers : Cast(s, t)
  \/ \E t \in Watchers, f \in Filters : SetWatch(t, f)
  \/ \E t \in Readers :
       \/ \E n \in 0 .. MaxLimit + 1 :
            \/ \E scope \in Scopes : ReadStart(t, scope, FALSE, n)
            \/ \E scope \in Pairs : ReadStart(t, scope, TRUE, n)
       \/ PageLookup(t) \/ PageRead(t)

Spec == Init /\ [][Next]_vars

-----------------------------------------------------------------------------
(* Properties *)

\* The message of s is stored with its recipients and being broadcast.
Answering(s) == req[s].at = "cast" /\ req[s].op = "send"

\* "When both are given, delivery is the intersection" (ADR-0009), resolved in
\* several reads while memberships change: whoever was addressed throughout the
\* send is a recipient, whoever was not at any time is none, the sender neither.
AudienceJust ==
  \A s \in Senders : Answering(s) =>
    /\ Addressed(req[s].ids, req[s].arg, seen[s].always) \ {s} \subseteq req[s].to
    /\ req[s].to \subseteq Addressed(req[s].ids, req[s].arg, seen[s].ever) \ {s}

\* A report's reason is exact, though the audience is resolved in several reads:
\* it is given only if the message reaches nobody and nobody, the sender
\* included, was addressed throughout the send; a message that reaches nobody
\* has one unless the sender itself was addressed.  (message-model.md:108 wants a
\* reason there too; the code tests the audience before it takes the sender out.)
ReasonExact ==
  \A s \in Senders : Answering(s) =>
    /\ req[s].why # "none" =>
         req[s].to = {} /\ Addressed(req[s].ids, req[s].arg, seen[s].always) = {}
    /\ req[s].to = {} /\ req[s].why = "none" =>
         s \in Addressed(req[s].ids, req[s].arg, seen[s].ever)

\* The records a session has finished broadcasting.
Broadcast == {k \in First + 1 .. Len(log) :
                \A s \in Peers : k \notin ToSet(req[s].cast)}

\* "watch/event streams log records" (rpc-surface.md): no record reaches a
\* watcher twice, and every record stored under its filter reaches it, also one
\* that has been deleted or renamed away from since.
WatchExact ==
  \A t \in Watchers :
    /\ IsInjective(out[t])
    /\ due[t] \cap Broadcast \subseteq ToSet(out[t])
    /\ watch[t].n = 1 => ToSet(out[t]) \subseteq
         {k \in DOMAIN log : Wants(watch[t].filter, log[k].scope)}

\* "Ids are ordered and the log is append-only, so cursors stay stable"
\* (message-model.md:79): a reader that follows the cursors of one channel to
\* the end has every record that was there when it began and is there still,
\* each once and in order, and none that came later.
PagesExact ==
  \A t \in Readers : page[t].at = "done" /\ Cardinality(page[t].ids) =< 1 =>
    /\ \A i, j \in DOMAIN page[t].got : i < j => page[t].got[i] < page[t].got[j]
    /\ page[t].base \cap InScope(t) \subseteq ToSet(page[t].got)
    /\ ToSet(page[t].got) \subseteq page[t].base
=============================================================================
