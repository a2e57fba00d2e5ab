------------------------------ MODULE Channels ------------------------------
(***************************************************************************)
(* Channels, subscriptions, human overrides, guarded deletion and the      *)
(* audit records about them (crates/broker/src/core/rpc.rs and store.rs).  *)
(*                                                                         *)
(* A request looks its channel up by name and then runs one store          *)
(* transaction on the id it found; requests of different sessions          *)
(* interleave between the two.  The store is one SQLite connection under a *)
(* mutex, so lookups and transactions are atomic steps.                    *)
(***************************************************************************)
EXTENDS Naturals, FiniteSets

CONSTANTS
  Handlers,     \* sessions, each running one request at a time
  Principals,   \* registered principals
  Ids,          \* channel ids, never reused (AUTOINCREMENT)
  Names,        \* channel display names
  Msgs,         \* message records
  MaxTokens,    \* bound: deletion tokens outstanding
  None          \* no channel, name, principal or message

ASSUME NoneAssumption ==
  None \notin Principals /\ None \notin Ids /\ None \notin Names

ASSUME BoundsAssumption == MaxTokens \in Nat

VARIABLES
  chan,     \* channels table: chan[i].st, chan[i].name
  subs,     \* subscriptions table
  policy,   \* subscription_overrides: policy[p][i]
  posted,   \* message records in the log
  home,     \* record_channels: home[m], the channels of message m
  tokens,   \* Inner.delete_tokens
  req,      \* req[h]: what the request running for h has looked up
  audit,    \* audit[i]: channel i as a reader of the system records reconstructs it
  stray     \* channels with a record the reader could not relate to anything it knew

tables == <<chan, subs, policy, posted, home>>
vars   == <<tables, tokens, req, audit, stray>>

ChanState == {"unused", "live", "archived", "deleted"}
Mode      == {"none", "forced", "cancelled"}
Kinds     == {"none", "subscribe", "unsubscribe", "force", "cancel", "rename",
              "archive", "unarchive", "delete", "send"}
NoReq     == [kind |-> "none", id |-> None, name |-> None, arg |-> None, ids |-> {}]
Token     == [id : Ids, name : Names, session : Handlers]
Told      == [st : {"none", "live", "archived"}, name : Names \cup {None},
              subs : SUBSET Principals, policy : [Principals -> Mode]]
Bare(st, n) == [st |-> st, name |-> n, subs |-> {}, policy |-> [p \in Principals |-> "none"]]
Unheard   == Bare("none", None)

\* Every variable has its type: the rows the tables can hold.
TypeOK ==
  /\ chan \in [Ids -> [st : ChanState, name : Names \cup {None}]]
  /\ subs \subseteq Principals \X Ids
  /\ policy \in [Principals -> [Ids -> Mode]]
  /\ posted \subseteq Msgs
  /\ home \in [Msgs -> SUBSET Ids]
  /\ tokens \subseteq Token
  /\ req \in [Handlers -> [kind : Kinds, id : Ids \cup {None}, name : Names \cup {None},
                           arg : Names \cup Principals \cup {None}, ids : SUBSET Ids]]
  /\ audit \in [Ids -> Told]
  /\ stray \subseteq Ids

Init ==
  /\ chan = [i \in Ids |-> [st |-> "unused", name |-> None]]
  /\ subs = {}
  /\ policy = [p \in Principals |-> [i \in Ids |-> "none"]]
  /\ posted = {}
  /\ home = [m \in Msgs |-> {}]
  /\ tokens = {}
  /\ req = [h \in Handlers |-> NoReq]
  /\ audit = [i \in Ids |-> Unheard]
  /\ stray = {}

-----------------------------------------------------------------------------
(* The channels table, and what the system records say about it *)

Exists(i) == chan[i].st \in {"live", "archived"}
channel_by_name(n) == {i \in Ids : Exists(i) /\ chan[i].name = n}
live_channel(n)    == {i \in channel_by_name(n) : chan[i].st = "live"}

\* Effect of each kind of record on a reader's reconstruction.  Records name
\* their channel by id (channel_ref); one about a channel the reader does not
\* know, or whose tombstone it has read, is stored all the same and is a stray.
Hears(i, told) == IF audit[i].st = "none" THEN audit ELSE [audit EXCEPT ![i] = told]
Strays(i) == IF audit[i].st = "none" THEN stray \cup {i} ELSE stray
LogCreated(i, n) == [audit EXCEPT ![i] = Bare("live", n)]
LogArchived(i, on) ==
  Hears(i, IF on THEN Bare("archived", audit[i].name) ELSE [audit[i] EXCEPT !.st = "live"])
LogSubscription(i, p, on) ==
  Hears(i, [audit[i] EXCEPT !.subs = IF on THEN @ \cup {p} ELSE @ \ {p}])
LogOverride(i, p, on) ==
  Hears(i, [st |-> audit[i].st, name |-> audit[i].name,
            subs |-> IF on THEN audit[i].subs \cup {p} ELSE audit[i].subs \ {p},
            policy |-> [audit[i].policy EXCEPT ![p] = IF on THEN "forced" ELSE "cancelled"]])
LogRename(i, new) == Hears(i, [audit[i] EXCEPT !.name = new])
LogTombstone(i) == Hears(i, Unheard)

\* A request that has found its channel i waits for its transaction.
Begin(h, kind, i, n, arg) ==
  /\ req[h] = NoReq
  /\ req' = [req EXCEPT ![h] = [NoReq EXCEPT !.kind = kind, !.id = i, !.name = n,
                                             !.arg = arg]]
Running(h, kinds) == req[h].kind \in kinds
Finish(h) == req' = [req EXCEPT ![h] = NoReq]

-----------------------------------------------------------------------------
\* create_channel: row and record in one transaction; a name is taken by a
\* live or an archived channel alike (UNIQUE).
create_channel(h, i, n) ==
  /\ req[h] = NoReq
  /\ chan[i].st = "unused"
  /\ channel_by_name(n) = {}
  /\ chan' = [chan EXCEPT ![i] = [st |-> "live", name |-> n]]
  /\ audit' = LogCreated(i, n)
  /\ UNCHANGED <<subs, policy, posted, home, tokens, req, stray>>

\* self_subscription, admin_subscription: live_channel by name ...
SubscriptionLookup(h, kind, n, p) ==
  /\ kind \in {"subscribe", "unsubscribe", "force", "cancel"}
  /\ \E i \in live_channel(n) : Begin(h, kind, i, n, p)
  /\ UNCHANGED <<tables, tokens, audit, stray>>

\* Mutant: the override is not checked in the transaction.
self_subscription_Unchecked(h) ==
  LET i == req[h].id   p == req[h].arg   on == req[h].kind = "subscribe"
      after == IF on THEN subs \cup {<<p, i>>} ELSE subs \ {<<p, i>>}
      applies == Exists(i) /\ after # subs
  IN
  /\ Running(h, {"subscribe", "unsubscribe"})
  /\ subs' = IF applies THEN after ELSE subs
  /\ audit' = IF applies THEN LogSubscription(i, p, on) ELSE audit
  /\ stray' = IF applies THEN Strays(i) ELSE stray
  /\ Finish(h)
  /\ UNCHANGED <<chan, policy, posted, home, tokens>>

\* Mutant: foreign keys are not enforced.
self_subscription_NoForeignKey(h) ==
  LET i == req[h].id   p == req[h].arg   on == req[h].kind = "subscribe"
      denied == policy[p][i] = IF on THEN "cancelled" ELSE "forced"
      after == IF on THEN subs \cup {<<p, i>>} ELSE subs \ {<<p, i>>}
      applies == ~denied /\ after # subs
  IN
  /\ Running(h, {"subscribe", "unsubscribe"})
  /\ subs' = IF applies THEN after ELSE subs
  /\ audit' = IF applies THEN LogSubscription(i, p, on) ELSE audit
  /\ stray' = IF applies THEN Strays(i) ELSE stray
  /\ Finish(h)
  /\ UNCHANGED <<chan, policy, posted, home, tokens>>

\* ... then Store::self_subscription: the override check, the membership change
\* and its record, one transaction.  No change, no record; an override or a
\* channel deleted meanwhile (foreign key) ends in an error.
self_subscription(h) ==
  LET i == req[h].id   p == req[h].arg   on == req[h].kind = "subscribe"
      denied == policy[p][i] = IF on THEN "cancelled" ELSE "forced"
      after == IF on THEN subs \cup {<<p, i>>} ELSE subs \ {<<p, i>>}
      applies == ~denied /\ Exists(i) /\ after # subs
  IN
  /\ Running(h, {"subscribe", "unsubscribe"})
  /\ subs' = IF applies THEN after ELSE subs
  /\ audit' = IF applies THEN LogSubscription(i, p, on) ELSE audit
  /\ stray' = IF applies THEN Strays(i) ELSE stray
  /\ Finish(h)
  /\ UNCHANGED <<chan, policy, posted, home, tokens>>

\* Mutant: a policy change is logged only when membership changes too.
admin_subscription_LogsMembership(h) ==
  LET i == req[h].id   p == req[h].arg   on == req[h].kind = "force"
  IN
  /\ Running(h, {"force", "cancel"})
  /\ IF Exists(i)
     THEN /\ policy' = [policy EXCEPT ![p][i] = IF on THEN "forced" ELSE "cancelled"]
          /\ subs' = IF on THEN subs \cup {<<p, i>>} ELSE subs \ {<<p, i>>}
          /\ audit' = IF subs' # subs THEN LogOverride(i, p, on) ELSE audit
          /\ stray' = IF subs' # subs THEN Strays(i) ELSE stray
     ELSE UNCHANGED <<policy, subs, audit, stray>>
  /\ Finish(h)
  /\ UNCHANGED <<chan, posted, home, tokens>>

\* Store::admin_subscription: policy and membership together; a record when
\* either of them changes.
admin_subscription(h) ==
  LET i == req[h].id   p == req[h].arg   on == req[h].kind = "force"
  IN
  /\ Running(h, {"force", "cancel"})
  /\ IF Exists(i)
     THEN /\ policy' = [policy EXCEPT ![p][i] = IF on THEN "forced" ELSE "cancelled"]
          /\ subs' = IF on THEN subs \cup {<<p, i>>} ELSE subs \ {<<p, i>>}
          /\ audit' = IF policy' # policy \/ subs' # subs
                      THEN LogOverride(i, p, on) ELSE audit
          /\ stray' = IF policy' # policy \/ subs' # subs THEN Strays(i) ELSE stray
     ELSE UNCHANGED <<policy, subs, audit, stray>>
  /\ Finish(h)
  /\ UNCHANGED <<chan, posted, home, tokens>>

\* Mutant: the new name is not validated.
RenameLookup_AnyName(h, n, new) ==
  /\ \E i \in channel_by_name(n), x \in {new} \cup Principals : Begin(h, "rename", i, n, x)
  /\ UNCHANGED <<tables, tokens, audit, stray>>

\* rename: any existing channel, a valid new name ...
RenameLookup(h, n, new) ==
  /\ \E i \in channel_by_name(n) : Begin(h, "rename", i, n, new)
  /\ UNCHANGED <<tables, tokens, audit, stray>>

\* ... then the row is updated by id, and the record names what was looked up.
\* A name in use is refused; a row that is gone is not noticed, and the record
\* is written all the same.
rename(h) ==
  LET i == req[h].id   new == req[h].arg
      taken == Exists(i) /\ \E j \in channel_by_name(new) : j # i
  IN
  /\ Running(h, {"rename"})
  /\ chan' = IF Exists(i) /\ ~taken THEN [chan EXCEPT ![i].name = new] ELSE chan
  /\ audit' = IF taken THEN audit ELSE LogRename(i, new)
  /\ stray' = IF taken THEN stray ELSE Strays(i)
  /\ Finish(h)
  /\ UNCHANGED <<subs, policy, posted, home, tokens>>

\* archive / unarchive: returns at once when the flag already stands ...
ArchiveLookup(h, kind, n) ==
  /\ kind \in {"archive", "unarchive"}
  /\ \E i \in channel_by_name(n) :
       /\ chan[i].st = IF kind = "archive" THEN "live" ELSE "archived"
       /\ Begin(h, kind, i, n, None)
  /\ UNCHANGED <<tables, tokens, audit, stray>>

\* ... then one transaction flips the flag, cancels every subscription and
\* override when it archives, and logs.
archive(h) ==
  LET i == req[h].id   on == req[h].kind = "archive"   st == IF on THEN "archived" ELSE "live"
  IN
  /\ Running(h, {"archive", "unarchive"})
  /\ chan' = IF Exists(i) THEN [chan EXCEPT ![i].st = st] ELSE chan
  /\ subs' = {x \in subs : on => x[2] # i}
  /\ policy' = [p \in Principals |->
                  [policy[p] EXCEPT ![i] = IF on THEN "none" ELSE @]]
  /\ audit' = LogArchived(i, on)
  /\ stray' = Strays(i)
  /\ Finish(h)
  /\ UNCHANGED <<posted, home, tokens>>

\* delete_request: a token bound to the session, the id and the name.
delete_request(h, n) ==
  /\ req[h] = NoReq
  /\ Cardinality(tokens) < MaxTokens
  /\ \E i \in channel_by_name(n) :
       tokens' = tokens \cup {[id |-> i, name |-> n, session |-> h]}
  /\ UNCHANGED <<tables, req, audit, stray>>

\* delete_confirm: the token is used up first; it must belong to this session
\* and its name must still belong to its channel ...
DeleteConfirm(h, k) ==
  /\ req[h] = NoReq
  /\ k \in tokens
  /\ tokens' = tokens \ {k}
  /\ IF k.session = h /\ k.id \in channel_by_name(k.name)
     THEN Begin(h, "delete", k.id, k.name, None)
     ELSE UNCHANGED req
  /\ UNCHANGED <<tables, audit, stray>>

\* (after DELETE_TOKEN_TTL it only answers with an error)
TokenExpires(k) ==
  /\ k \in tokens
  /\ tokens' = tokens \ {k}
  /\ UNCHANGED <<tables, req, audit, stray>>

\* ... then delete_channel_logged: records of this channel only are removed,
\* shared ones detached, the row goes, a tombstone is written.
delete_channel(h) ==
  LET i == req[h].id   sole == {m \in posted : home[m] = {i}} IN
  /\ Running(h, {"delete"})
  /\ chan' = [chan EXCEPT ![i].st = "deleted"]
  /\ subs' = {x \in subs : x[2] # i}
  /\ policy' = [p \in Principals |-> [policy[p] EXCEPT ![i] = "none"]]
  /\ posted' = posted \ sole
  /\ home' = [m \in Msgs |-> home[m] \ {i}]
  /\ audit' = LogTombstone(i)
  /\ stray' = Strays(i)
  /\ Finish(h)
  /\ UNCHANGED tokens

\* send_message looks its channels up one by one; a name that is unknown or
\* archived, and a channel met twice, end it with an error and nothing stored ...
SendLookup(h, n) ==
  LET found == live_channel(n) \ req[h].ids IN
  /\ req[h] = NoReq \/ Running(h, {"send"})
  /\ req' = [req EXCEPT ![h] = IF found = {} THEN NoReq
                               ELSE [NoReq EXCEPT !.kind = "send",
                                                  !.ids = req[h].ids \cup found]]
  /\ UNCHANGED <<tables, tokens, audit, stray>>

\* ... then the record and its record_channels rows; a channel deleted
\* meanwhile violates the foreign key and nothing is stored.
append_message(h, m) ==
  /\ Running(h, {"send"})
  /\ m \notin posted
  /\ home[m] = {}
  /\ IF \A i \in req[h].ids : Exists(i)
     THEN posted' = posted \cup {m} /\ home' = [home EXCEPT ![m] = req[h].ids]
     ELSE UNCHANGED <<posted, home>>
  /\ Finish(h)
  /\ UNCHANGED <<chan, subs, policy, tokens, audit, stray>>

-----------------------------------------------------------------------------
Next ==
  \E h \in Handlers :
    \/ \E i \in Ids, n \in Names : create_channel(h, i, n)
    \/ \E kind \in Kinds, n \in Names, p \in Principals : SubscriptionLookup(h, kind, n, p)
    \/ self_subscription(h)
    \/ admin_subscription(h)
    \/ \E n, new \in Names : RenameLookup(h, n, new)
    \/ rename(h)
    \/ \E kind \in Kinds, n \in Names : ArchiveLookup(h, kind, n)
    \/ archive(h)
    \/ \E n \in Names : delete_request(h, n)
    \/ \E k \in tokens : DeleteConfirm(h, k) \/ TokenExpires(k)
    \/ delete_channel(h)
    \/ \E n \in Names : SendLookup(h, n)
    \/ \E m \in Msgs : append_message(h, m)

Spec == Init /\ [][Next]_vars

-----------------------------------------------------------------------------
(* Properties *)

\* The human wins (ADR-0009): whatever requests race, a principal forced onto
\* a channel is subscribed to it and a cancelled one is not.
OverrideWins ==
  \A p \in Principals, i \in Ids :
    /\ policy[p][i] = "forced" => <<p, i>> \in subs
    /\ policy[p][i] = "cancelled" => <<p, i>> \notin subs

\* No dangling rows: subscriptions and overrides belong to existing channels,
\* and a stored channel message keeps at least one existing channel.
RowsHaveChannels ==
  /\ \A x \in subs : Exists(x[2])
  /\ \A p \in Principals, i \in Ids : policy[p][i] # "none" => Exists(i)
  /\ \A m \in posted : home[m] # {} /\ \A i \in home[m] : Exists(i)

\* "State changes and the system records that audit them are written in ONE
\* transaction, so a mutation can never outlive its log entry" (store.rs:11-13):
\* whatever requests race, a reader of the system records knows the state, the
\* subscribers and the overrides of every channel, the name it has, and no channel
\* that is not there.  The converse ("and vice versa") the code does not keep: a
\* rename, an archive or a second deletion of a channel deleted meanwhile stores
\* its record.  Such strays are about deleted channels only.
AuditFaithful ==
  /\ \A i \in Ids :
       audit[i] = IF Exists(i)
                  THEN [st |-> chan[i].st, name |-> chan[i].name,
                        subs |-> {p \in Principals : <<p, i>> \in subs},
                        policy |-> [p \in Principals |-> policy[p][i]]]
                  ELSE Unheard
  /\ \A i \in stray : chan[i].st = "deleted"
=============================================================================
