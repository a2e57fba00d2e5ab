--------------------------- MODULE ChannelsProofs ---------------------------
(***************************************************************************)
(* Theorems about Channels, for any number of concurrent requests,         *)
(* principals, channels, names and messages.                               *)
(***************************************************************************)
EXTENDS Channels, TLAPS

\* What a running request has looked up.
ReqInv ==
  \A h \in Handlers :
    /\ req[h].kind \notin {"none", "send"} => req[h].id \in Ids
    /\ req[h].kind \in {"subscribe", "unsubscribe", "force", "cancel"} => req[h].arg \in Principals
    /\ req[h].kind = "rename" => req[h].arg \in Names
    /\ req[h].kind = "send" => req[h].ids # {}

\* The tables and requests, without the audit log.
TablesOK ==
  /\ chan \in [Ids -> [st : ChanState, name : Names \cup {None}]]
  /\ subs \subseteq Principals \X Ids
  /\ policy \in [Principals -> [Ids -> Mode]]
  /\ posted \subseteq Msgs
  /\ home \in [Msgs -> SUBSET Ids]
  /\ req \in [Handlers -> [kind : Kinds, id : Ids \cup {None}, name : Names \cup {None},
                           arg : Names \cup Principals \cup {None}, ids : SUBSET Ids]]

ChannelsInv == TablesOK /\ ReqInv /\ OverrideWins /\ RowsHaveChannels

\* A request that begins has looked up what it needs.
LEMMA BeginReq ==
  ASSUME TablesOK, ReqInv, NEW h \in Handlers, NEW kind \in Kinds \ {"none", "send"},
         NEW i \in Ids, NEW n \in Names \cup {None}, NEW arg \in Names \cup Principals \cup {None},
         kind \in {"subscribe", "unsubscribe", "force", "cancel"} => arg \in Principals,
         kind = "rename" => arg \in Names,
         Begin(h, kind, i, n, arg)
  PROVE  /\ req' \in [Handlers -> [kind : Kinds, id : Ids \cup {None}, name : Names \cup {None},
                                   arg : Names \cup Principals \cup {None}, ids : SUBSET Ids]]
         /\ ReqInv'
BY DEF TablesOK, ReqInv, Begin, NoReq

\* A request that ends has nothing looked up.
LEMMA FinishReq ==
  ASSUME TablesOK, ReqInv, NEW h \in Handlers, Finish(h)
  PROVE  /\ req' \in [Handlers -> [kind : Kinds, id : Ids \cup {None}, name : Names \cup {None},
                                   arg : Names \cup Principals \cup {None}, ids : SUBSET Ids]]
         /\ ReqInv'
BY DEF TablesOK, ReqInv, Finish, NoReq, Kinds

\* Requests that look up, and steps that only move tokens, leave the tables.
LEMMA TablesSame ==
  ASSUME ChannelsInv, UNCHANGED tables, ReqInv',
         req' \in [Handlers -> [kind : Kinds, id : Ids \cup {None}, name : Names \cup {None},
                                arg : Names \cup Principals \cup {None}, ids : SUBSET Ids]]
  PROVE  ChannelsInv'
BY DEF ChannelsInv, TablesOK, OverrideWins, RowsHaveChannels, Exists, tables

-----------------------------------------------------------------------------
(* Transactions *)

\* create_channel adds a channel and touches nothing else.
LEMMA CreateStep ==
  ASSUME ChannelsInv, NEW h \in Handlers, NEW i \in Ids, NEW n \in Names, create_channel(h, i, n)
  PROVE  ChannelsInv'
<1>1. /\ chan' = [chan EXCEPT ![i] = [st |-> "live", name |-> n]]
      /\ UNCHANGED <<subs, policy, posted, home, req>>
  BY DEF create_channel
<1>2. \A j \in Ids : Exists(j) => Exists(j)'
  BY <1>1 DEF ChannelsInv, TablesOK, Exists
<1>3. TablesOK'
  BY <1>1 DEF ChannelsInv, TablesOK, ChanState
<1>4. RowsHaveChannels'
  BY <1>1, <1>2 DEF ChannelsInv, TablesOK, RowsHaveChannels
<1> QED
  BY <1>1, <1>3, <1>4 DEF ChannelsInv, ReqInv, OverrideWins

\* The transaction of subscribe and unsubscribe respects every override and
\* gives no row to a channel that is gone.
LEMMA SelfStep ==
  ASSUME ChannelsInv, NEW h \in Handlers, self_subscription(h)
  PROVE  ChannelsInv'
<1> DEFINE i == req[h].id
           p == req[h].arg
           on == req[h].kind = "subscribe"
<1>1. i \in Ids /\ p \in Principals
  BY DEF self_subscription, Running, ChannelsInv, ReqInv
<1>2. /\ \/ subs' = subs
         \/ on /\ Exists(i) /\ policy[p][i] # "cancelled" /\ subs' = subs \cup {<<p, i>>}
         \/ ~on /\ policy[p][i] # "forced" /\ subs' = subs \ {<<p, i>>}
      /\ Finish(h)
      /\ UNCHANGED <<chan, policy, posted, home>>
  BY DEF self_subscription
<1> HIDE DEF i, p, on
<1>3. TablesOK' /\ ReqInv'
  BY <1>1, <1>2, FinishReq DEF ChannelsInv, TablesOK
<1>4. OverrideWins'
  <2> SUFFICES ASSUME NEW q \in Principals, NEW j \in Ids
               PROVE  /\ policy[q][j] = "forced" => <<q, j>> \in subs'
                      /\ policy[q][j] = "cancelled" => <<q, j>> \notin subs'
    BY <1>2 DEF OverrideWins
  <2>1. /\ policy[q][j] = "forced" => <<q, j>> \in subs
        /\ policy[q][j] = "cancelled" => <<q, j>> \notin subs
    BY DEF ChannelsInv, OverrideWins
  <2>2. CASE q = p /\ j = i
    BY <1>2, <2>1, <2>2
  <2>3. CASE ~(q = p /\ j = i)
    BY <1>2, <2>1, <2>3
  <2> QED
    BY <2>2, <2>3
<1>5. RowsHaveChannels'
  BY <1>1, <1>2 DEF ChannelsInv, RowsHaveChannels, Exists
<1> QED
  BY <1>3, <1>4, <1>5 DEF ChannelsInv

\* The transaction of an admin writes policy and membership together.
LEMMA AdminStep ==
  ASSUME ChannelsInv, NEW h \in Handlers, admin_subscription(h)
  PROVE  ChannelsInv'
<1> DEFINE i == req[h].id
           p == req[h].arg
           on == req[h].kind = "force"
           mode == IF on THEN "forced" ELSE "cancelled"
<1>1. i \in Ids /\ p \in Principals
  BY DEF admin_subscription, Running, ChannelsInv, ReqInv
<1>2. /\ \/ UNCHANGED <<policy, subs>>
         \/ /\ Exists(i)
            /\ policy' = [policy EXCEPT ![p][i] = mode]
            /\ subs' = IF on THEN subs \cup {<<p, i>>} ELSE subs \ {<<p, i>>}
      /\ Finish(h)
      /\ UNCHANGED <<chan, posted, home>>
  BY DEF admin_subscription
<1>3. mode \in Mode /\ (mode = "forced" <=> on) /\ (mode = "cancelled" <=> ~on)
  BY DEF Mode
<1> HIDE DEF i, p, on, mode
<1>4. TablesOK' /\ ReqInv'
  <2>0. [policy[p] EXCEPT ![i] = mode] \in [Ids -> Mode]
    BY <1>1, <1>3 DEF ChannelsInv, TablesOK
  <2>1. policy' \in [Principals -> [Ids -> Mode]]
    BY <1>1, <1>2, <2>0 DEF ChannelsInv, TablesOK
  <2>2. subs' \subseteq Principals \X Ids
    BY <1>1, <1>2 DEF ChannelsInv, TablesOK
  <2> QED
    BY <1>2, <2>1, <2>2, FinishReq DEF ChannelsInv, TablesOK
<1>5. CASE UNCHANGED <<policy, subs>>
  BY <1>2, <1>4, <1>5 DEF ChannelsInv, OverrideWins, RowsHaveChannels, Exists
<1>6. CASE /\ Exists(i)
           /\ policy' = [policy EXCEPT ![p][i] = mode]
           /\ subs' = IF on THEN subs \cup {<<p, i>>} ELSE subs \ {<<p, i>>}
  <2>1. \A q \in Principals, j \in Ids :
          policy'[q][j] = IF q = p /\ j = i THEN mode ELSE policy[q][j]
    BY <1>1, <1>6 DEF ChannelsInv, TablesOK
  <2>2. OverrideWins'
    <3> SUFFICES ASSUME NEW q \in Principals, NEW j \in Ids
                 PROVE  /\ policy'[q][j] = "forced" => <<q, j>> \in subs'
                        /\ policy'[q][j] = "cancelled" => <<q, j>> \notin subs'
      BY DEF OverrideWins
    <3>1. /\ policy[q][j] = "forced" => <<q, j>> \in subs
          /\ policy[q][j] = "cancelled" => <<q, j>> \notin subs
      BY DEF ChannelsInv, OverrideWins
    <3>2. CASE q = p /\ j = i
      BY <1>3, <1>6, <2>1, <3>2
    <3>3. CASE ~(q = p /\ j = i)
      BY <1>6, <2>1, <3>1, <3>3
    <3> QED
      BY <3>2, <3>3
  <2>3. RowsHaveChannels'
    BY <1>1, <1>2, <1>6, <2>1 DEF ChannelsInv, RowsHaveChannels, Exists
  <2> QED
    BY <1>4, <2>2, <2>3 DEF ChannelsInv
<1> QED
  BY <1>2, <1>5, <1>6

\* A rename keeps every channel and every row.
LEMMA RenameStep ==
  ASSUME ChannelsInv, NEW h \in Handlers, rename(h)
  PROVE  ChannelsInv'
<1>1. /\ \/ chan' = chan
         \/ chan' = [chan EXCEPT ![req[h].id].name = req[h].arg]
      /\ Finish(h)
      /\ UNCHANGED <<subs, policy, posted, home>>
      /\ req[h].arg \in Names /\ req[h].id \in Ids
  BY DEF rename, Running, ChannelsInv, ReqInv
<1>2. \A j \in Ids : chan'[j].st = chan[j].st
  BY <1>1 DEF ChannelsInv, TablesOK
<1>3. TablesOK' /\ ReqInv'
  BY <1>1, FinishReq DEF ChannelsInv, TablesOK
<1>4. RowsHaveChannels'
  BY <1>1, <1>2 DEF ChannelsInv, TablesOK, RowsHaveChannels, Exists
<1> QED
  BY <1>1, <1>3, <1>4 DEF ChannelsInv, OverrideWins

\* Archiving removes every subscription and override of its channel.
LEMMA ArchiveStep ==
  ASSUME ChannelsInv, NEW h \in Handlers, archive(h)
  PROVE  ChannelsInv'
<1> DEFINE i == req[h].id
           on == req[h].kind = "archive"
           st == IF on THEN "archived" ELSE "live"
<1>1. /\ i \in Ids
      /\ chan' = IF Exists(i) THEN [chan EXCEPT ![i].st = st] ELSE chan
      /\ subs' = {x \in subs : on => x[2] # i}
      /\ policy' = [p \in Principals |-> [policy[p] EXCEPT ![i] = IF on THEN "none" ELSE @]]
      /\ Finish(h)
      /\ UNCHANGED <<posted, home>>
  BY DEF archive, Running, ChannelsInv, ReqInv
<1>2. \A p \in Principals, j \in Ids :
        policy'[p][j] = IF j = i /\ on THEN "none" ELSE policy[p][j]
  BY <1>1 DEF ChannelsInv, TablesOK
<1>3. \A j \in Ids : Exists(j) => Exists(j)'
  BY <1>1 DEF ChannelsInv, TablesOK, Exists
<1>4. TablesOK' /\ ReqInv'
  <2>1. policy' \in [Principals -> [Ids -> Mode]]
    BY <1>1 DEF ChannelsInv, TablesOK, Mode
  <2>2. [chan[i] EXCEPT !.st = st] \in [st : ChanState, name : Names \cup {None}]
    BY <1>1 DEF ChannelsInv, TablesOK, ChanState
  <2>3. chan' \in [Ids -> [st : ChanState, name : Names \cup {None}]]
    BY <1>1, <2>2 DEF ChannelsInv, TablesOK
  <2> QED
    BY <1>1, <2>1, <2>3, FinishReq DEF ChannelsInv, TablesOK
<1> HIDE DEF i, on, st
<1>5. OverrideWins'
  <2>1. \A q \in Principals, j \in Ids :
          <<q, j>> \in subs' <=> <<q, j>> \in subs /\ (on => j # i)
    BY <1>1
  <2> QED
    BY <1>2, <2>1 DEF ChannelsInv, OverrideWins
<1>6. RowsHaveChannels'
  BY <1>1, <1>2, <1>3 DEF ChannelsInv, TablesOK, RowsHaveChannels
<1> QED
  BY <1>4, <1>5, <1>6 DEF ChannelsInv

\* A deletion takes every row of its channel with it, and the messages that have
\* no other channel.
LEMMA DeleteStep ==
  ASSUME ChannelsInv, NEW h \in Handlers, delete_channel(h)
  PROVE  ChannelsInv'
<1> DEFINE i == req[h].id
<1>1. /\ i \in Ids
      /\ chan' = [chan EXCEPT ![i].st = "deleted"]
      /\ subs' = {x \in subs : x[2] # i}
      /\ policy' = [p \in Principals |-> [policy[p] EXCEPT ![i] = "none"]]
      /\ posted' = posted \ {m \in posted : home[m] = {i}}
      /\ home' = [m \in Msgs |-> home[m] \ {i}]
      /\ Finish(h)
  BY DEF delete_channel, Running, ChannelsInv, ReqInv
<1> HIDE DEF i
<1>2. \A p \in Principals, j \in Ids : policy'[p][j] = IF j = i THEN "none" ELSE policy[p][j]
  BY <1>1 DEF ChannelsInv, TablesOK
<1>3. \A j \in Ids : j # i => (Exists(j) => Exists(j)')
  BY <1>1 DEF ChannelsInv, TablesOK, Exists
<1>4. TablesOK' /\ ReqInv'
  <2>1. policy' \in [Principals -> [Ids -> Mode]]
    BY <1>1 DEF ChannelsInv, TablesOK, Mode
  <2>2. chan' \in [Ids -> [st : ChanState, name : Names \cup {None}]]
    BY <1>1 DEF ChannelsInv, TablesOK, ChanState
  <2> QED
    BY <1>1, <2>1, <2>2, FinishReq DEF ChannelsInv, TablesOK
<1>5. OverrideWins'
  <2>1. \A q \in Principals, j \in Ids :
          <<q, j>> \in subs' <=> <<q, j>> \in subs /\ j # i
    BY <1>1
  <2> QED
    BY <1>2, <2>1 DEF ChannelsInv, OverrideWins
<1>6. RowsHaveChannels'
  <2>1. \A x \in subs' : Exists(x[2])'
    BY <1>1, <1>3 DEF ChannelsInv, TablesOK, RowsHaveChannels
  <2>2. \A p \in Principals, j \in Ids : policy'[p][j] # "none" => Exists(j)'
    BY <1>2, <1>3 DEF ChannelsInv, RowsHaveChannels
  <2>3. ASSUME NEW m \in posted' PROVE home'[m] # {} /\ \A j \in home'[m] : Exists(j)'
    <3>1. m \in posted /\ m \in Msgs /\ home[m] # {i} /\ home'[m] = home[m] \ {i}
      BY <1>1, <2>3 DEF ChannelsInv, TablesOK
    <3>2. home[m] # {} /\ \A j \in home[m] : Exists(j) /\ j \in Ids
      BY <3>1 DEF ChannelsInv, TablesOK, RowsHaveChannels
    <3> QED
      BY <1>3, <3>1, <3>2
  <2> QED
    BY <2>1, <2>2, <2>3 DEF RowsHaveChannels
<1> QED
  BY <1>4, <1>5, <1>6 DEF ChannelsInv

\* A message is stored only with channels that exist.
LEMMA AppendStep ==
  ASSUME ChannelsInv, NEW h \in Handlers, NEW m \in Msgs, append_message(h, m)
  PROVE  ChannelsInv'
<1>1. /\ \/ UNCHANGED <<posted, home>>
         \/ /\ \A i \in req[h].ids : Exists(i)
            /\ posted' = posted \cup {m} /\ home' = [home EXCEPT ![m] = req[h].ids]
      /\ m \notin posted /\ req[h].ids # {} /\ req[h].ids \subseteq Ids
      /\ Finish(h)
      /\ UNCHANGED <<chan, subs, policy>>
  BY DEF append_message, Running, ChannelsInv, ReqInv, TablesOK
<1>2. TablesOK' /\ ReqInv'
  BY <1>1, FinishReq DEF ChannelsInv, TablesOK
<1>3. RowsHaveChannels'
  BY <1>1 DEF ChannelsInv, TablesOK, RowsHaveChannels, Exists
<1> QED
  BY <1>1, <1>2, <1>3 DEF ChannelsInv, OverrideWins

\* A request that only looks up keeps the invariant.
LEMMA LookupStep ==
  ASSUME ChannelsInv, NEW h \in Handlers,
         \/ \E kind \in Kinds, n \in Names, p \in Principals : SubscriptionLookup(h, kind, n, p)
         \/ \E n, new \in Names : RenameLookup(h, n, new)
         \/ \E kind \in Kinds, n \in Names : ArchiveLookup(h, kind, n)
         \/ \E n \in Names : SendLookup(h, n)
  PROVE  ChannelsInv'
<1> USE DEF ChannelsInv, channel_by_name, live_channel
<1>1. ASSUME NEW kind \in Kinds, NEW n \in Names, NEW p \in Principals,
             SubscriptionLookup(h, kind, n, p)
      PROVE  ChannelsInv'
  BY <1>1, BeginReq, TablesSame DEF SubscriptionLookup, Kinds
<1>2. ASSUME NEW n \in Names, NEW new \in Names, RenameLookup(h, n, new) PROVE ChannelsInv'
  BY <1>2, BeginReq, TablesSame DEF RenameLookup, Kinds
<1>3. ASSUME NEW kind \in Kinds, NEW n \in Names, ArchiveLookup(h, kind, n) PROVE ChannelsInv'
  BY <1>3, BeginReq, TablesSame DEF ArchiveLookup, Kinds
<1>4. ASSUME NEW n \in Names, SendLookup(h, n) PROVE ChannelsInv'
  <2> DEFINE found == live_channel(n) \ req[h].ids
  <2>1. found \subseteq Ids
    OBVIOUS
  <2> HIDE DEF found
  <2> DEFINE new == IF found = {} THEN NoReq
                    ELSE [NoReq EXCEPT !.kind = "send", !.ids = req[h].ids \cup found]
             Req == [kind : Kinds, id : Ids \cup {None}, name : Names \cup {None},
                     arg : Names \cup Principals \cup {None}, ids : SUBSET Ids]
  <2>3. req \in [Handlers -> Req]
    BY DEF TablesOK
  <2>4. /\ new \in Req
        /\ new.kind \in {"none", "send"}
        /\ new.kind = "send" => new.ids # {}
    BY <2>1, <2>3 DEF NoReq, Kinds
  <2>5. req' = [req EXCEPT ![h] = new]
    BY <1>4 DEF SendLookup, found
  <2> HIDE DEF new
  <2>6. req' \in [Handlers -> Req]
    BY <2>3, <2>4, <2>5
  <2>7. ReqInv'
    <3> SUFFICES ASSUME NEW x \in Handlers
                 PROVE  /\ req'[x].kind \notin {"none", "send"} => req'[x].id \in Ids
                        /\ req'[x].kind \in {"subscribe", "unsubscribe", "force", "cancel"}
                             => req'[x].arg \in Principals
                        /\ req'[x].kind = "rename" => req'[x].arg \in Names
                        /\ req'[x].kind = "send" => req'[x].ids # {}
      BY DEF ReqInv
    <3>1. CASE x = h
      BY <2>3, <2>4, <2>5, <3>1
    <3>2. CASE x # h
      BY <2>3, <2>5, <3>2 DEF ReqInv
    <3> QED
      BY <3>1, <3>2
  <2> QED
    BY <1>4, <2>6, <2>7, TablesSame DEF SendLookup
<1> QED
  BY <1>1, <1>2, <1>3, <1>4

\* The steps about deletion tokens keep the invariant.
LEMMA TokenStep ==
  ASSUME ChannelsInv, NEW h \in Handlers,
         \/ \E n \in Names : delete_request(h, n)
         \/ \E k \in tokens : DeleteConfirm(h, k) \/ TokenExpires(k)
  PROVE  ChannelsInv'
<1>1. CASE UNCHANGED req /\ UNCHANGED tables
  BY <1>1, TablesSame DEF ChannelsInv, TablesOK, ReqInv
<1>2. ASSUME NEW k \in tokens, DeleteConfirm(h, k), ~UNCHANGED req PROVE ChannelsInv'
  <2>1. /\ k.id \in Ids
        /\ k.id \in channel_by_name(k.name)
        /\ Begin(h, "delete", k.id, k.name, None)
        /\ UNCHANGED tables
    BY <1>2 DEF DeleteConfirm, channel_by_name
  <2>2. k.name \in Names \cup {None}
    BY <2>1 DEF channel_by_name, ChannelsInv, TablesOK
  <2> QED
    BY <2>1, <2>2, BeginReq, TablesSame DEF ChannelsInv, Kinds
<1> QED
  BY <1>1, <1>2 DEF delete_request, DeleteConfirm, TokenExpires

\* Init and every step keep ChannelsInv.
LEMMA ChannelsInductive ==
  /\ Init => ChannelsInv
  /\ ChannelsInv /\ [Next]_vars => ChannelsInv'
<1>1. ASSUME Init PROVE ChannelsInv
  <2>1. TablesOK
    BY <1>1 DEF Init, TablesOK, NoReq, Kinds, Mode, ChanState
  <2>2. ReqInv /\ OverrideWins /\ RowsHaveChannels
    BY <1>1 DEF Init, ReqInv, NoReq, OverrideWins, RowsHaveChannels
  <2> QED
    BY <2>1, <2>2 DEF ChannelsInv
<1>2. ASSUME ChannelsInv, Next PROVE ChannelsInv'
  BY <1>2, CreateStep, SelfStep, AdminStep, RenameStep, ArchiveStep, DeleteStep, AppendStep,
     LookupStep, TokenStep DEF Next
<1>3. ASSUME ChannelsInv, UNCHANGED vars PROVE ChannelsInv'
  BY <1>3, TablesSame DEF vars, ChannelsInv, TablesOK, ReqInv
<1> QED
  BY <1>1, <1>2, <1>3

\* The human wins: whatever requests race, a forced principal is subscribed and
\* a cancelled one is not.
THEOREM HumanWins == Spec => []OverrideWins
<1>1. ChannelsInv => OverrideWins
  BY DEF ChannelsInv
<1> QED
  BY <1>1, ChannelsInductive, PTL DEF Spec

\* No row of the tables outlives its channel, and a stored channel message keeps
\* a channel.
THEOREM NoDanglingRows == Spec => []RowsHaveChannels
<1>1. ChannelsInv => RowsHaveChannels
  BY DEF ChannelsInv
<1> QED
  BY <1>1, ChannelsInductive, PTL DEF Spec

-----------------------------------------------------------------------------
(***************************************************************************)
(* The audit log of Channels tells the truth, for any number of concurrent *)
(* requests, principals, channels and names: what a reader of the system   *)
(* records reconstructs is what the tables hold.                           *)
(***************************************************************************)

\* The tables' rows about one channel, as a reader should know them.
SubsOf(i) == {p \in Principals : <<p, i>> \in subs}
PolicyOf(i) == [p \in Principals |-> policy[p][i]]
Truth(i) ==
  IF Exists(i)
  THEN [st |-> chan[i].st, name |-> chan[i].name, subs |-> SubsOf(i), policy |-> PolicyOf(i)]
  ELSE Unheard

\* The reconstruction is complete and true.
AuditInv == audit = [i \in Ids |-> Truth(i)]

\* A reader has no news of exactly the channels that are not there.
LEMMA HeardExists ==
  ASSUME ChannelsInv, AuditInv, NEW i \in Ids
  PROVE  /\ audit[i].st = "none" <=> ~Exists(i)
         /\ audit[i] = Truth(i)
BY DEF AuditInv, Truth, Exists, Unheard, Bare

\* A step that leaves the rows of a channel alone leaves the truth about it.
LEMMA TruthSame ==
  ASSUME NEW i \in Ids, chan'[i] = chan[i],
         \A p \in Principals : <<p, i>> \in subs' <=> <<p, i>> \in subs,
         \A p \in Principals : policy'[p][i] = policy[p][i]
  PROVE  Truth(i)' = Truth(i)
<1>1. SubsOf(i)' = SubsOf(i)
  BY DEF SubsOf
<1>2. PolicyOf(i)' = PolicyOf(i)
  BY DEF PolicyOf
<1> QED BY <1>1, <1>2 DEF Truth, Exists

\* A step about channel i keeps the reconstruction if it is true of i afterwards.
LEMMA AuditStep ==
  ASSUME AuditInv, NEW i \in Ids,
         \A j \in Ids \ {i} : Truth(j)' = Truth(j),
         audit' = [audit EXCEPT ![i] = Truth(i)']
  PROVE  AuditInv'
BY DEF AuditInv

\* A step that writes no record and changes no row keeps it.
LEMMA AuditSame ==
  ASSUME AuditInv, UNCHANGED <<chan, subs, policy, audit>>
  PROVE  AuditInv'
<1>1. \A i \in Ids : Truth(i)' = Truth(i)
  BY TruthSame
<1> QED BY <1>1 DEF AuditInv

\* What a channel that is not there has in the tables: nothing.
LEMMA NoRows ==
  ASSUME ChannelsInv, NEW i \in Ids, ~Exists(i)
  PROVE  \A p \in Principals : <<p, i>> \notin subs /\ policy[p][i] = "none"
BY DEF ChannelsInv, RowsHaveChannels, TablesOK

-----------------------------------------------------------------------------
(* Transactions *)

\* A new channel starts with no row and with a record that says so.
LEMMA CreateAudit ==
  ASSUME ChannelsInv, AuditInv, NEW h \in Handlers, NEW i \in Ids, NEW n \in Names,
         create_channel(h, i, n)
  PROVE  AuditInv'
<1>1. /\ ~Exists(i)
      /\ chan' = [chan EXCEPT ![i] = [st |-> "live", name |-> n]]
      /\ audit' = [audit EXCEPT ![i] = Bare("live", n)]
      /\ UNCHANGED <<subs, policy>>
  BY DEF create_channel, LogCreated, Exists
<1>2. chan'[i] = [st |-> "live", name |-> n] /\ \A j \in Ids \ {i} : chan'[j] = chan[j]
  BY <1>1 DEF ChannelsInv, TablesOK
<1>3. \A j \in Ids \ {i} : Truth(j)' = Truth(j)
  BY <1>1, <1>2, TruthSame
<1>4. SubsOf(i)' = {} /\ PolicyOf(i)' = [p \in Principals |-> "none"]
  BY <1>1, NoRows DEF SubsOf, PolicyOf
<1>5. Truth(i)' = Bare("live", n)
  BY <1>2, <1>4 DEF Truth, Exists, Bare
<1> QED BY <1>1, <1>3, <1>5, AuditStep

\* A membership change of an existing channel and its record agree.
LEMMA SelfAudit ==
  ASSUME ChannelsInv, AuditInv, NEW h \in Handlers, self_subscription(h)
  PROVE  AuditInv'
<1>1. PICK i \in Ids, p \in Principals, on \in BOOLEAN :
        i = req[h].id /\ p = req[h].arg /\ on = (req[h].kind = "subscribe")
  BY DEF self_subscription, Running, ChannelsInv, ReqInv
<1> DEFINE after == IF on THEN subs \cup {<<p, i>>} ELSE subs \ {<<p, i>>}
<1>2. /\ UNCHANGED <<chan, policy>>
      /\ \/ UNCHANGED <<subs, audit>>
         \/ Exists(i) /\ subs' = after /\ audit' = LogSubscription(i, p, on)
  BY <1>1 DEF self_subscription
<1>3. CASE UNCHANGED <<subs, audit>>
  BY <1>2, <1>3, AuditSame
<1>4. CASE Exists(i) /\ subs' = after /\ audit' = LogSubscription(i, p, on)
  <2> DEFINE members == IF on THEN SubsOf(i) \cup {p} ELSE SubsOf(i) \ {p}
  <2>1. audit[i] = [st |-> chan[i].st, name |-> chan[i].name,
                    subs |-> SubsOf(i), policy |-> PolicyOf(i)]
    BY <1>1, <1>4, HeardExists DEF Truth
  <2>2. audit' = [audit EXCEPT ![i] = [audit[i] EXCEPT !.subs = members]]
    BY <1>1, <1>4, <2>1, HeardExists DEF LogSubscription, Hears
  <2>3. SubsOf(i)' = members
    BY <1>1, <1>4 DEF SubsOf
  <2>4. PolicyOf(i)' = PolicyOf(i) /\ chan' = chan
    BY <1>2 DEF PolicyOf
  <2> HIDE DEF members
  <2>5. Truth(i)' = [audit[i] EXCEPT !.subs = members]
    BY <1>4, <2>1, <2>3, <2>4 DEF Truth, Exists
  <2>6. \A j \in Ids \ {i} : Truth(j)' = Truth(j)
    BY <1>1, <1>2, <1>4, TruthSame
  <2> QED BY <1>1, <2>2, <2>5, <2>6, AuditStep
<1> QED BY <1>2, <1>3, <1>4

\* An override and its record agree; without a change there is no record.
LEMMA AdminAudit ==
  ASSUME ChannelsInv, AuditInv, NEW h \in Handlers, admin_subscription(h)
  PROVE  AuditInv'
<1>1. PICK i \in Ids, p \in Principals, on \in BOOLEAN :
        i = req[h].id /\ p = req[h].arg /\ on = (req[h].kind = "force")
  BY DEF admin_subscription, Running, ChannelsInv, ReqInv
<1> DEFINE mode == IF on THEN "forced" ELSE "cancelled"
<1>2. /\ UNCHANGED chan
      /\ \/ UNCHANGED <<subs, policy, audit>>
         \/ /\ Exists(i)
            /\ policy' = [policy EXCEPT ![p][i] = mode]
            /\ subs' = IF on THEN subs \cup {<<p, i>>} ELSE subs \ {<<p, i>>}
            /\ audit' = LogOverride(i, p, on)
  BY <1>1 DEF admin_subscription
<1>3. CASE UNCHANGED <<subs, policy, audit>>
  BY <1>2, <1>3, AuditSame
<1>4. CASE /\ Exists(i)
           /\ policy' = [policy EXCEPT ![p][i] = mode]
           /\ subs' = IF on THEN subs \cup {<<p, i>>} ELSE subs \ {<<p, i>>}
           /\ audit' = LogOverride(i, p, on)
  <2> DEFINE members == IF on THEN SubsOf(i) \cup {p} ELSE SubsOf(i) \ {p}
             modes == [PolicyOf(i) EXCEPT ![p] = mode]
             row == [st |-> chan[i].st, name |-> chan[i].name, subs |-> members, policy |-> modes]
  <2>1. audit[i] = [st |-> chan[i].st, name |-> chan[i].name,
                    subs |-> SubsOf(i), policy |-> PolicyOf(i)]
    BY <1>1, <1>4, HeardExists DEF Truth
  <2>2. audit' = [audit EXCEPT ![i] = row]
    BY <1>1, <1>4, <2>1, HeardExists DEF LogOverride, Hears
  <2>3. SubsOf(i)' = members
    BY <1>1, <1>4 DEF SubsOf
  <2>4. \A q \in Principals, j \in Ids :
          policy'[q][j] = IF q = p /\ j = i THEN mode ELSE policy[q][j]
    BY <1>1, <1>4 DEF ChannelsInv, TablesOK
  <2>5. PolicyOf(i)' = modes
    BY <1>1, <2>4 DEF PolicyOf
  <2> HIDE DEF members, modes
  <2>6. Truth(i)' = row
    BY <1>2, <1>4, <2>1, <2>3, <2>5 DEF Truth, Exists
  <2>7. \A j \in Ids \ {i} : Truth(j)' = Truth(j)
    BY <1>1, <1>2, <1>4, <2>4, TruthSame
  <2> QED BY <1>1, <2>2, <2>6, <2>7, AuditStep
<1> QED BY <1>2, <1>3, <1>4

\* A rename that changes a row and its record agree; the record about a channel
\* that is gone changes nothing for the reader.
LEMMA RenameAudit ==
  ASSUME ChannelsInv, AuditInv, NEW h \in Handlers, rename(h)
  PROVE  AuditInv'
<1>1. PICK i \in Ids, new \in Names : i = req[h].id /\ new = req[h].arg
  BY DEF rename, Running, ChannelsInv, ReqInv
<1>2. /\ UNCHANGED <<subs, policy>>
      /\ \/ UNCHANGED <<chan, audit>>
         \/ ~Exists(i) /\ chan' = chan /\ audit' = LogRename(i, new)
         \/ Exists(i) /\ chan' = [chan EXCEPT ![i].name = new] /\ audit' = LogRename(i, new)
  BY <1>1 DEF rename
<1>3. CASE UNCHANGED <<chan, audit>>
  BY <1>2, <1>3, AuditSame
<1>4. CASE ~Exists(i) /\ chan' = chan /\ audit' = LogRename(i, new)
  <2>1. audit' = audit
    BY <1>1, <1>4, HeardExists DEF LogRename, Hears
  <2> QED BY <1>2, <1>4, <2>1, AuditSame
<1>5. CASE Exists(i) /\ chan' = [chan EXCEPT ![i].name = new] /\ audit' = LogRename(i, new)
  <2>1. audit[i] = [st |-> chan[i].st, name |-> chan[i].name,
                    subs |-> SubsOf(i), policy |-> PolicyOf(i)]
    BY <1>1, <1>5, HeardExists DEF Truth
  <2>2. audit' = [audit EXCEPT ![i] = [audit[i] EXCEPT !.name = new]]
    BY <1>1, <1>5, HeardExists DEF LogRename, Hears
  <2>3. /\ chan'[i].st = chan[i].st /\ chan'[i].name = new
        /\ \A j \in Ids \ {i} : chan'[j] = chan[j]
    BY <1>1, <1>5 DEF ChannelsInv, TablesOK
  <2>4. SubsOf(i)' = SubsOf(i) /\ PolicyOf(i)' = PolicyOf(i)
    BY <1>2 DEF SubsOf, PolicyOf
  <2>5. Truth(i)' = [audit[i] EXCEPT !.name = new]
    BY <1>5, <2>1, <2>3, <2>4 DEF Truth, Exists
  <2>6. \A j \in Ids \ {i} : Truth(j)' = Truth(j)
    BY <1>2, <2>3, TruthSame
  <2> QED BY <1>1, <2>2, <2>5, <2>6, AuditStep
<1> QED BY <1>2, <1>3, <1>4, <1>5

\* Archiving empties a channel's rows, and its records say so.
LEMMA ArchiveAudit ==
  ASSUME ChannelsInv, AuditInv, NEW h \in Handlers, archive(h)
  PROVE  AuditInv'
<1>0. PICK i \in Ids, on \in BOOLEAN : i = req[h].id /\ on = (req[h].kind = "archive")
  BY DEF archive, Running, ChannelsInv, ReqInv
<1> DEFINE st == IF on THEN "archived" ELSE "live"
<1>1. /\ chan' = IF Exists(i) THEN [chan EXCEPT ![i].st = st] ELSE chan
      /\ subs' = {x \in subs : on => x[2] # i}
      /\ policy' = [p \in Principals |-> [policy[p] EXCEPT ![i] = IF on THEN "none" ELSE @]]
      /\ audit' = LogArchived(i, on)
  BY <1>0 DEF archive
<1>2. st \in {"live", "archived"} /\ (st = "archived" <=> on)
  OBVIOUS
<1> HIDE DEF st
<1>3. \A p \in Principals, j \in Ids :
        /\ policy'[p][j] = IF j = i /\ on THEN "none" ELSE policy[p][j]
        /\ <<p, j>> \in subs' <=> <<p, j>> \in subs /\ (on => j # i)
  BY <1>1 DEF ChannelsInv, TablesOK
<1>4. \A j \in Ids \ {i} : chan'[j] = chan[j]
  BY <1>1 DEF ChannelsInv, TablesOK
<1>5. \A j \in Ids \ {i} : Truth(j)' = Truth(j)
  BY <1>3, <1>4, TruthSame
<1>6. CASE ~Exists(i)
  <2>1. audit' = audit /\ chan' = chan
    BY <1>1, <1>6, HeardExists DEF LogArchived, Hears
  <2>2. Truth(i)' = Truth(i)
    <3>1. \A p \in Principals : /\ <<p, i>> \in subs' <=> <<p, i>> \in subs
                                /\ policy'[p][i] = policy[p][i]
      BY <1>3, <1>6, NoRows
    <3> QED BY <2>1, <3>1, TruthSame
  <2> QED BY <1>1, <1>5, <2>1, <2>2 DEF AuditInv
<1>7. CASE Exists(i)
  <2>1. audit[i] = [st |-> chan[i].st, name |-> chan[i].name,
                    subs |-> SubsOf(i), policy |-> PolicyOf(i)]
    BY <1>1, <1>7, HeardExists DEF Truth
  <2>2. chan'[i].st = st /\ chan'[i].name = chan[i].name
    BY <1>1, <1>7 DEF ChannelsInv, TablesOK
  <2>3. CASE on
    <3>1. audit' = [audit EXCEPT ![i] = Bare("archived", audit[i].name)]
      BY <1>1, <1>7, <2>3, HeardExists DEF LogArchived, Hears
    <3>2. SubsOf(i)' = {} /\ PolicyOf(i)' = [p \in Principals |-> "none"]
      BY <1>1, <1>3, <2>3 DEF SubsOf, PolicyOf
    <3>3. Truth(i)' = Bare("archived", audit[i].name)
      BY <1>2, <2>1, <2>2, <2>3, <3>2 DEF Truth, Exists, Bare
    <3> QED BY <1>1, <1>5, <3>1, <3>3, AuditStep
  <2>4. CASE ~on
    <3>1. audit' = [audit EXCEPT ![i] = [audit[i] EXCEPT !.st = "live"]]
      BY <1>1, <1>7, <2>4, HeardExists DEF LogArchived, Hears
    <3>2. SubsOf(i)' = SubsOf(i) /\ PolicyOf(i)' = PolicyOf(i)
      BY <1>1, <1>3, <2>4 DEF SubsOf, PolicyOf
    <3>3. Truth(i)' = [audit[i] EXCEPT !.st = "live"]
      BY <1>2, <2>1, <2>2, <2>4, <3>2 DEF Truth, Exists
    <3> QED BY <1>1, <1>5, <3>1, <3>3, AuditStep
  <2> QED BY <2>3, <2>4
<1> QED BY <1>6, <1>7

\* After a tombstone there is nothing to know of a channel.
LEMMA DeleteAudit ==
  ASSUME ChannelsInv, AuditInv, NEW h \in Handlers, delete_channel(h)
  PROVE  AuditInv'
<1>0. PICK i \in Ids : i = req[h].id
  BY DEF delete_channel, Running, ChannelsInv, ReqInv
<1>1. /\ chan' = [chan EXCEPT ![i].st = "deleted"]
      /\ subs' = {x \in subs : x[2] # i}
      /\ policy' = [p \in Principals |-> [policy[p] EXCEPT ![i] = "none"]]
      /\ audit' = LogTombstone(i)
  BY <1>0 DEF delete_channel
<1>2. \A p \in Principals, j \in Ids \ {i} :
        policy'[p][j] = policy[p][j] /\ (<<p, j>> \in subs' <=> <<p, j>> \in subs)
  BY <1>1 DEF ChannelsInv, TablesOK
<1>3. chan'[i].st = "deleted" /\ \A j \in Ids \ {i} : chan'[j] = chan[j]
  BY <1>1 DEF ChannelsInv, TablesOK
<1>4. \A j \in Ids \ {i} : Truth(j)' = Truth(j)
  BY <1>2, <1>3, TruthSame
<1>5. Truth(i)' = Unheard
  BY <1>3 DEF Truth, Exists, Unheard
<1>6. audit' = [audit EXCEPT ![i] = Unheard]
  <2>1. audit[i].st = "none" => audit[i] = Unheard
    BY <1>1, HeardExists DEF Truth
  <2> QED BY <1>1, <2>1 DEF LogTombstone, Hears, AuditInv
<1> QED BY <1>1, <1>4, <1>5, <1>6, AuditStep

-----------------------------------------------------------------------------
\* Init and every step keep the reconstruction true.
LEMMA AuditInductive ==
  /\ Init => AuditInv
  /\ ChannelsInv /\ AuditInv /\ [Next]_vars => AuditInv'
<1>1. ASSUME Init PROVE AuditInv
  BY <1>1 DEF Init, AuditInv, Truth, Exists
<1>2. ASSUME ChannelsInv, AuditInv, Next PROVE AuditInv'
  <2>1. CASE UNCHANGED <<chan, subs, policy, audit>>
    BY <1>2, <2>1, AuditSame
  <2>2. PICK h \in Handlers :
          \/ \E i \in Ids, n \in Names : create_channel(h, i, n)
          \/ self_subscription(h)
          \/ admin_subscription(h)
          \/ rename(h)
          \/ archive(h)
          \/ delete_channel(h)
          \/ UNCHANGED <<chan, subs, policy, audit>>
    BY <1>2 DEF Next, SubscriptionLookup, RenameLookup, ArchiveLookup, delete_request,
                DeleteConfirm, TokenExpires, SendLookup, append_message, tables
  <2> QED
    BY <1>2, <2>1, <2>2, CreateAudit, SelfAudit, AdminAudit, RenameAudit, ArchiveAudit, DeleteAudit
<1>3. ASSUME AuditInv, UNCHANGED vars PROVE AuditInv'
  BY <1>3, AuditSame DEF vars, tables
<1> QED BY <1>1, <1>2, <1>3

\* A request holds the id of a channel that has been created, and a record that
\* audits nothing is about a channel that has been deleted.
Known == \A h \in Handlers : req[h].id \in Ids => chan[req[h].id].st # "unused"
StrayInv == Known /\ stray \subseteq {i \in Ids : chan[i].st = "deleted"}

\* A channel that has been created stays created, a deleted one deleted.
LEMMA ChannelsAge ==
  ASSUME ChannelsInv, Next, NEW i \in Ids
  PROVE  /\ chan[i].st = "deleted" => chan'[i].st = "deleted"
         /\ chan[i].st # "unused" => chan'[i].st # "unused"
<1>1. chan \in [Ids -> [st : ChanState, name : Names \cup {None}]]
  BY DEF ChannelsInv, TablesOK
<1>2. CASE chan' = chan
  BY <1>2
<1>3. ASSUME NEW h \in Handlers, NEW j \in Ids, NEW n \in Names, create_channel(h, j, n)
      PROVE  /\ chan[i].st = "deleted" => chan'[i].st = "deleted"
             /\ chan[i].st # "unused" => chan'[i].st # "unused"
  BY <1>1, <1>3 DEF create_channel
<1>4. ASSUME NEW h \in Handlers, rename(h)
      PROVE  chan'[i].st = chan[i].st
  BY <1>1, <1>4 DEF rename
<1>5. ASSUME NEW h \in Handlers, archive(h)
      PROVE  /\ chan[i].st = "deleted" => chan'[i].st = "deleted"
             /\ chan[i].st # "unused" => chan'[i].st # "unused"
  BY <1>1, <1>5 DEF archive, Exists
<1>6. ASSUME NEW h \in Handlers, delete_channel(h)
      PROVE  chan'[i].st = chan[i].st \/ chan'[i].st = "deleted"
  BY <1>1, <1>6 DEF delete_channel
<1>7. \/ chan' = chan
      \/ \E h \in Handlers : \/ \E j \in Ids, n \in Names : create_channel(h, j, n)
                             \/ rename(h) \/ archive(h) \/ delete_channel(h)
  BY DEF Next, SubscriptionLookup, self_subscription, admin_subscription, RenameLookup,
         ArchiveLookup, delete_request, DeleteConfirm, TokenExpires, SendLookup, append_message,
         tables
<1> QED BY <1>2, <1>3, <1>4, <1>5, <1>6, <1>7

\* A request's id was found in the channels table.
LEMMA RequestsKnow ==
  ASSUME ChannelsInv, Known, Next
  PROVE  Known'
<1>1. req \in [Handlers -> [kind : Kinds, id : Ids \cup {None}, name : Names \cup {None},
                           arg : Names \cup Principals \cup {None}, ids : SUBSET Ids]]
  BY DEF ChannelsInv, TablesOK
<1>2. ASSUME NEW h \in Handlers, NEW i, Exists(i), NEW kind, NEW n, NEW arg,
             Begin(h, kind, i, n, arg), NEW x \in Handlers, req'[x].id \in Ids
      PROVE  req'[x].id = req[x].id \/ Exists(req'[x].id)
  BY <1>1, <1>2 DEF Begin, NoReq
<1>3. ASSUME NEW h \in Handlers, Finish(h), NEW x \in Handlers, req'[x].id \in Ids
      PROVE  req'[x].id = req[x].id
  BY <1>1, <1>3, NoneAssumption DEF Finish, NoReq
<1>4. ASSUME NEW h \in Handlers, NEW n \in Names, SendLookup(h, n), NEW x \in Handlers,
             req'[x].id \in Ids
      PROVE  req'[x].id = req[x].id
  BY <1>1, <1>4, NoneAssumption DEF SendLookup, NoReq
<1>5. \/ UNCHANGED req
      \/ \E h \in Handlers : \/ Finish(h) \/ \E n \in Names : SendLookup(h, n)
                             \/ \E i, kind, n, arg : Exists(i) /\ Begin(h, kind, i, n, arg)
  <2>1. ASSUME NEW h \in Handlers, NEW k \in tokens, DeleteConfirm(h, k)
        PROVE  UNCHANGED req \/ \E i, kind, n, arg : Exists(i) /\ Begin(h, kind, i, n, arg)
    BY <2>1 DEF DeleteConfirm, channel_by_name
  <2>2. ASSUME NEW h \in Handlers, NEW kind \in Kinds, NEW n \in Names,
               \/ \E p \in Principals : SubscriptionLookup(h, kind, n, p)
               \/ ArchiveLookup(h, kind, n)
               \/ \E new \in Names : RenameLookup(h, n, new)
        PROVE  \E i, x, m, arg : Exists(i) /\ Begin(h, x, i, m, arg)
    BY <2>2 DEF SubscriptionLookup, ArchiveLookup, RenameLookup, channel_by_name, live_channel
  <2>3. "rename" \in Kinds
    BY DEF Kinds
  <2>4. ASSUME NEW h \in Handlers,
               \/ self_subscription(h) \/ admin_subscription(h) \/ rename(h)
               \/ archive(h) \/ delete_channel(h) \/ \E m \in Msgs : append_message(h, m)
        PROVE  Finish(h)
    BY <2>4 DEF self_subscription, admin_subscription, rename, archive, delete_channel,
                append_message
  <2>5. ASSUME NEW h \in Handlers,
               \/ \E i \in Ids, n \in Names : create_channel(h, i, n)
               \/ \E n \in Names : delete_request(h, n)
               \/ \E k \in tokens : TokenExpires(k)
        PROVE  UNCHANGED req
    BY <2>5 DEF create_channel, delete_request, TokenExpires
  <2> QED BY <2>1, <2>2, <2>3, <2>4, <2>5 DEF Next
<1>6. ASSUME NEW x \in Handlers, req'[x].id \in Ids
      PROVE  req'[x].id = req[x].id \/ Exists(req'[x].id)
  BY <1>2, <1>3, <1>4, <1>5, <1>6
<1>7. ASSUME NEW x \in Handlers, req'[x].id \in Ids
      PROVE  chan[req'[x].id].st # "unused"
  BY <1>6, <1>7 DEF Known, Exists
<1> QED BY <1>7, ChannelsAge DEF Known

\* A record that audits nothing comes from a request whose channel is gone.
LEMMA StraysFrom ==
  ASSUME ChannelsInv, AuditInv, Next
  PROVE  \/ stray' = stray
         \/ \E h \in Handlers : /\ req[h].id \in Ids /\ ~Exists(req[h].id)
                                /\ stray' = stray \cup {req[h].id}
<1>1. ASSUME NEW h \in Handlers, req[h].id \in Ids, stray' = Strays(req[h].id)
      PROVE  stray' = stray \/ (~Exists(req[h].id) /\ stray' = stray \cup {req[h].id})
  BY <1>1, HeardExists DEF Strays
<1>2. ASSUME NEW h \in Handlers,
             \/ self_subscription(h) \/ admin_subscription(h) \/ rename(h)
             \/ archive(h) \/ delete_channel(h)
      PROVE  req[h].id \in Ids /\ (stray' = stray \/ stray' = Strays(req[h].id))
  <2>1. req[h].id \in Ids
    BY <1>2 DEF self_subscription, admin_subscription, rename, archive, delete_channel, Running,
                ChannelsInv, ReqInv
  <2>2. stray' = stray \/ stray' = Strays(req[h].id)
    BY <1>2 DEF self_subscription, admin_subscription, rename, archive, delete_channel
  <2> QED BY <2>1, <2>2
<1>3. \/ stray' = stray
      \/ \E h \in Handlers : \/ self_subscription(h) \/ admin_subscription(h) \/ rename(h)
                             \/ archive(h) \/ delete_channel(h)
  BY DEF Next, create_channel, SubscriptionLookup, RenameLookup, ArchiveLookup, delete_request,
         DeleteConfirm, TokenExpires, SendLookup, append_message
<1> QED BY <1>1, <1>2, <1>3

\* Init and every step keep StrayInv.
LEMMA StrayInductive ==
  /\ Init => StrayInv
  /\ ChannelsInv /\ AuditInv /\ StrayInv /\ [Next]_vars => StrayInv'
<1>1. ASSUME Init PROVE StrayInv
  BY <1>1, NoneAssumption DEF Init, StrayInv, Known, NoReq
<1>2. ASSUME ChannelsInv, AuditInv, StrayInv, Next PROVE StrayInv'
  <2>1. Known'
    BY <1>2, RequestsKnow DEF StrayInv
  <2>2. ASSUME NEW i \in stray' PROVE i \in Ids /\ chan[i].st = "deleted"
    <3>1. CASE i \in stray
      BY <1>2, <3>1 DEF StrayInv
    <3>2. CASE i \notin stray
      <4>1. PICK h \in Handlers : i = req[h].id /\ i \in Ids /\ ~Exists(i)
        BY <1>2, <2>2, <3>2, StraysFrom
      <4>2. chan[i].st \in ChanState /\ chan[i].st # "unused"
        BY <1>2, <4>1 DEF StrayInv, Known, ChannelsInv, TablesOK
      <4> QED BY <4>1, <4>2 DEF Exists, ChanState
    <3> QED BY <3>1, <3>2
  <2>3. \A i \in stray' : i \in Ids /\ chan'[i].st = "deleted"
    BY <1>2, <2>2, ChannelsAge
  <2> QED BY <2>1, <2>3 DEF StrayInv
<1>3. ASSUME StrayInv, UNCHANGED vars PROVE StrayInv'
  BY <1>3 DEF StrayInv, Known, vars, tables
<1> QED BY <1>1, <1>2, <1>3

\* AuditFaithful for every instance (store.rs, the *_logged transactions):
\* however requests race between their lookups and their transactions, the
\* system records tell the state of every channel, and those that audit no
\* change are about deleted channels.
THEOREM AuditIsFaithful == Spec => []AuditFaithful
<1>1. AuditInv /\ StrayInv => AuditFaithful
  BY DEF AuditInv, StrayInv, AuditFaithful, Truth, SubsOf, PolicyOf
<1> QED BY <1>1, ChannelsInductive, AuditInductive, StrayInductive, PTL DEF Spec

\* TypeOK for every instance: the rows of the tables, the requests, the deletion
\* tokens of delete_request and the reader's knowledge have their types.
THEOREM ChannelTypes == Spec => []TypeOK
<1>1. Init => tokens \subseteq Token
  BY DEF Init
<1>2. tokens \subseteq Token /\ [Next]_vars => (tokens \subseteq Token)'
  <2> SUFFICES ASSUME tokens \subseteq Token, [Next]_vars PROVE tokens' \subseteq Token
    OBVIOUS
  <2>1. ASSUME NEW h \in Handlers, NEW n \in Names, delete_request(h, n)
        PROVE  tokens' \subseteq Token
    BY <2>1 DEF delete_request, channel_by_name, Token
  <2>2. ASSUME ~\E h \in Handlers, n \in Names : delete_request(h, n)
        PROVE  tokens' \subseteq tokens
    BY <2>2 DEF Next, vars, create_channel, SubscriptionLookup, self_subscription,
                admin_subscription, RenameLookup, rename, ArchiveLookup, archive,
                DeleteConfirm, TokenExpires, delete_channel, SendLookup, append_message
  <2> QED BY <2>1, <2>2
<1>3. ASSUME ChannelsInv, AuditInv PROVE audit \in [Ids -> Told]
  <2> SUFFICES ASSUME NEW i \in Ids PROVE Truth(i) \in Told
    BY <1>3 DEF AuditInv
  <2>1. SubsOf(i) \in SUBSET Principals /\ PolicyOf(i) \in [Principals -> Mode]
    BY <1>3 DEF SubsOf, PolicyOf, ChannelsInv, TablesOK
  <2>2. Unheard \in Told
    BY DEF Unheard, Bare, Told, Mode
  <2>3. chan[i].name \in Names \cup {None}
    BY <1>3 DEF ChannelsInv, TablesOK
  <2> QED BY <2>1, <2>2, <2>3 DEF Truth, Exists, Told
<1>4. ChannelsInv /\ AuditInv /\ StrayInv /\ tokens \subseteq Token => TypeOK
  BY <1>3 DEF TypeOK, ChannelsInv, TablesOK, StrayInv
<1> QED BY <1>1, <1>2, <1>4, ChannelsInductive, AuditInductive, StrayInductive, PTL DEF Spec
=============================================================================
