------------------------------ MODULE LogProofs ------------------------------
(***************************************************************************)
(* Theorems about Log, for any number of sessions, channels, names,        *)
(* records and pages.                                                      *)
(***************************************************************************)
EXTENDS Log, FiniteSetTheorems, SequenceTheorems, TLAPS

-----------------------------------------------------------------------------
(* Lists of ids *)

\* Different members of a finite set of numbers have different ranks, in their
\* order.
LEMMA RankOrders ==
  ASSUME NEW S \in SUBSET Nat, IsFiniteSet(S)
  PROVE  /\ Cardinality(S) \in Nat
         /\ \A k \in S : Rank(S, k) \in 1 .. Cardinality(S)
         /\ \A j, k \in S : j < k => Rank(S, j) < Rank(S, k)
<1>1. Cardinality(S) \in Nat
  BY FS_CardinalityType
<1>2. ASSUME NEW k \in S
      PROVE  /\ IsFiniteSet({i \in S : i =< k})
             /\ Rank(S, k) \in 1 .. Cardinality(S)
  <2> DEFINE D == {i \in S : i =< k}
  <2>1. IsFiniteSet(D) /\ Cardinality(D) =< Cardinality(S)
    BY FS_Subset
  <2>2. Cardinality(D) \in Nat
    BY <2>1, FS_CardinalityType
  <2>3. D # {}
    OBVIOUS
  <2>4. Cardinality(D) # 0
    BY <2>1, <2>3, FS_EmptySet
  <2> QED BY <1>1, <2>1, <2>2, <2>4 DEF Rank
<1>3. ASSUME NEW j \in S, NEW k \in S, j < k
      PROVE  Rank(S, j) < Rank(S, k)
  <2> DEFINE D == {i \in S : i =< j}
             E == {i \in S : i =< k}
  <2>1. IsFiniteSet(D) /\ IsFiniteSet(E)
    BY <1>2
  <2>0. j \in Nat /\ k \in Nat /\ \A i \in S : i \in Nat
    OBVIOUS
  <2>2. D \subseteq E /\ k \in E /\ k \notin D
    <3>1. \A i \in S : i =< j => i =< k
      BY <1>3, <2>0
    <3>2. k =< k /\ ~(k =< j)
      BY <1>3, <2>0
    <3> QED BY <2>0, <3>1, <3>2
  <2>3. Cardinality(D) =< Cardinality(E \ {k})
    BY <2>1, <2>2, FS_Subset, FS_RemoveElement
  <2>4. Cardinality(E \ {k}) = Cardinality(E) - 1
    BY <2>1, <2>2, FS_RemoveElement
  <2>5. Cardinality(D) \in Nat /\ Cardinality(E) \in Nat
    BY <2>1, FS_CardinalityType
  <2> QED BY <2>3, <2>4, <2>5 DEF Rank
<1> QED BY <1>1, <1>2, <1>3

\* Ascending lists exactly the members of a finite set, in order.
LEMMA AscendingLists ==
  ASSUME NEW S \in SUBSET Nat, IsFiniteSet(S)
  PROVE  /\ Ascending(S) \in Seq(S)
         /\ Len(Ascending(S)) = Cardinality(S)
         /\ Len(Ascending(S)) \in Nat
         /\ \A i, j \in 1 .. Len(Ascending(S)) : i < j => Ascending(S)[i] < Ascending(S)[j]
         /\ \A k \in S : \E i \in 1 .. Len(Ascending(S)) : Ascending(S)[i] = k
<1> DEFINE N == Cardinality(S)
           f == [k \in S |-> Rank(S, k)]
           a == Ascending(S)
<1>1. /\ N \in Nat
      /\ \A k \in S : Rank(S, k) \in 1 .. N
      /\ \A j, k \in S : j < k => Rank(S, j) < Rank(S, k)
  BY RankOrders
<1>2. \A j, k \in S : Rank(S, j) = Rank(S, k) => j = k
  <2> SUFFICES ASSUME NEW j \in S, NEW k \in S, Rank(S, j) = Rank(S, k), j # k
               PROVE  FALSE
    OBVIOUS
  <2>1. j \in Nat /\ k \in Nat
    OBVIOUS
  <2>2. j < k \/ k < j
    BY <2>1
  <2>3. Rank(S, j) \in Nat /\ Rank(S, k) \in Nat
    BY <1>1
  <2> QED BY <1>1, <2>2, <2>3
<1>3. f \in Injection(S, 1 .. N)
  BY <1>1, <1>2 DEF Injection, IsInjective
<1>4. IsFiniteSet(1 .. N) /\ Cardinality(1 .. N) = N
  BY <1>1, FS_Interval
<1>5. f \in Surjection(S, 1 .. N)
  BY <1>3, <1>4, FS_Injection
<1>6. \A i \in 1 .. N : \E k \in S : Rank(S, k) = i
  BY <1>5 DEF Surjection
<1>7. \A i \in 1 .. N : a[i] \in S /\ Rank(S, a[i]) = i
  BY <1>6 DEF Ascending
<1>8. a = [i \in 1 .. N |-> a[i]]
  BY DEF Ascending
<1>9. a \in Seq(S) /\ Len(a) = N
  BY <1>1, <1>7, <1>8
<1>10. \A i, j \in 1 .. N : i < j => a[i] < a[j]
  <2> SUFFICES ASSUME NEW i \in 1 .. N, NEW j \in 1 .. N, i < j, ~(a[i] < a[j])
               PROVE  FALSE
    OBVIOUS
  <2>1. a[i] \in S /\ a[j] \in S /\ Rank(S, a[i]) = i /\ Rank(S, a[j]) = j
    BY <1>7
  <2>2. a[i] \in Nat /\ a[j] \in Nat
    BY <2>1
  <2>3. a[j] < a[i] \/ a[i] = a[j]
    BY <2>2
  <2>4. CASE a[i] = a[j]
    BY <2>1, <2>4
  <2>5. CASE a[j] < a[i]
    <3>1. Rank(S, a[j]) < Rank(S, a[i])
      BY <1>1, <2>1, <2>5
    <3> HIDE DEF a
    <3> QED BY <1>1, <2>1, <3>1
  <2> QED BY <2>3, <2>4, <2>5
<1>11. \A k \in S : a[Rank(S, k)] = k
  BY <1>1, <1>2, <1>7
<1> QED BY <1>1, <1>9, <1>10, <1>11
-----------------------------------------------------------------------------
(* The inductive invariant *)

Records == [kind : {"message", "system"}, chans : SUBSET Chans,
            parts : SUBSET Peers, scope : SUBSET Names]

\* The variables' shapes.  A request is about channels and principals that
\* exist as ids; only a broadcast has records to cast.
Shapes ==
  /\ DOMAIN req = Peers /\ DOMAIN page = Readers
  /\ DOMAIN watch = Watchers /\ DOMAIN out = Watchers /\ DOMAIN due = Watchers
  /\ log \in Seq(Records) /\ First =< Len(log)
  /\ purged \subseteq Nat

Running == {"lookup", "resolve", "commit"}
RequestTyped(r) ==
  /\ r.at \in Running => <<r.name, r.arg>> \in Targets /\ r.ids \subseteq Chans
  /\ r.at = "apply" => r.id \in Chans /\ r.name \in Names /\ (r.op = "rename" => r.arg \in Names)
  /\ r.at # "cast" => r.cast = <<>>
Typed == Shapes /\ \A s \in Peers : RequestTyped(req[s])

\* What a running send has found so far is right about the memberships it may
\* have met: w.always held throughout, w.ever at some time.
Between(to, ids, ps, w) ==
  /\ Addressed(ids, ps, w.always) \subseteq to
  /\ to \subseteq Addressed(ids, ps, w.ever)

\* A read that was made, or spared, left nobody out.
Answered(x, to, w) ==
  \A p \in Peers : <<p, x[2]>> \in w.always /\ x[1] \in {None, p} => p \in to

SendOK(s, r, w) ==
  /\ r.at = "lookup" => (r.ids = {} => r.todo = r.name)
  /\ r.at = "resolve" =>
       /\ r.ids # {}
       /\ r.todo \subseteq Reads(r.ids, r.arg)
       /\ r.to \subseteq Addressed(r.ids, r.arg, w.ever)
       /\ \A x \in Reads(r.ids, r.arg) \ r.todo : Answered(x, r.to, w)
  /\ r.at = "commit" =>
       /\ Between(r.to, r.ids, r.arg, w)
       /\ r.ids = {} => r.to # {}
  /\ r.at = "cast" /\ r.op = "send" =>
       /\ Addressed(r.ids, r.arg, w.always) \ {s} \subseteq r.to
       /\ r.to \subseteq Addressed(r.ids, r.arg, w.ever) \ {s}
       /\ r.why # "none" => r.to = {} /\ Addressed(r.ids, r.arg, w.always) = {}
       /\ r.to = {} /\ r.why = "none" => s \in Addressed(r.ids, r.arg, w.ever)

Witnessed(r, w, rows) == r.at \in Running => w.always \subseteq rows /\ rows \subseteq w.ever
SendsInv ==
  /\ DOMAIN seen = Peers
  /\ \A s \in Peers : SendOK(s, req[s], seen[s]) /\ Witnessed(req[s], seen[s], subs)

\* The records a request has still to broadcast to someone, and to t.
Held(r) == ToSet(r.cast)
Owed(r, t) == {r.cast[i] : i \in {j \in DOMAIN r.cast : j > 1 \/ t \in r.rest}}

CastTyped(r) ==
  /\ r.cast \in Seq(Nat)
  /\ IsInjective(r.cast)
  /\ r.at = "cast" => r.cast # <<>> /\ r.rest \subseteq Watchers /\ r.rest # {}

\* A record that was stored is held by one request at most.
CastsInv ==
  /\ \A s \in Peers : CastTyped(req[s]) /\ Held(req[s]) \subseteq First + 1 .. Len(log)
  /\ \A s, u \in Peers : s # u => Held(req[s]) \cap Held(req[u]) = {}

\* What a watcher got it is not owed; what is due it got or is owed; the
\* records due are those its filter wants.
StreamOK(t) ==
  /\ out[t] \in Seq(Nat)
  /\ IsInjective(out[t])
  /\ ToSet(out[t]) \subseteq First + 1 .. Len(log)
  /\ \A s \in Peers : Owed(req[s], t) \cap ToSet(out[t]) = {}
  /\ \A k \in due[t] :
       /\ k \in First + 1 .. Len(log)
       /\ Wants(watch[t].filter, log[k].scope)
       /\ k \in ToSet(out[t]) \/ \E s \in Peers : k \in Owed(req[s], t)
  /\ watch[t].n \in Nat
  /\ watch[t].n = 0 => watch[t].filter = Off /\ out[t] = <<>>
  /\ watch[t].n = 1 => \A k \in ToSet(out[t]) : Wants(watch[t].filter, log[k].scope)
StreamsInv == \A t \in Watchers : StreamOK(t)

\* The records of the scope of reading p in the log l without those in d.
ScopeOf(p, l, d) ==
  {k \in DOMAIN l \ d : IF p.dm THEN p.scope \subseteq l[k].parts ELSE p.id \in l[k].chans}

\* One channel, or none, was found under the name of the scope.
Single(p) == \A x, y \in p.ids : x = y

\* A reading under way has read down to its cursor: below lie only records
\* that were there when it began, above none that it missed.
PageOK(t, p, l, d) ==
  /\ p.got \in Seq(Nat)
  /\ \A i, j \in DOMAIN p.got : i < j => p.got[i] < p.got[j]
  /\ p.limit \in Nat \ {0}
  /\ p.before \in Nat
  /\ p.before =< Len(l)
  /\ p.base \subseteq DOMAIN l
  /\ p.ids \subseteq Chans
  /\ p.at \in {"lookup", "read"} /\ p.before = 0 => p.got = <<>>
  /\ p.at \in {"lookup", "read"} /\ p.before # 0 =>
       \A i \in DOMAIN p.got : p.before =< p.got[i]
  /\ ~p.dm /\ (p.at = "read" \/ p.before # 0) => p.id \in p.ids
  /\ Single(p) /\ p.at \in {"lookup", "read"} /\ p.before # 0 =>
       /\ ToSet(p.got) \subseteq p.base
       /\ \A k \in ScopeOf(p, l, d) : k < p.before => k \in p.base
       /\ \A k \in ScopeOf(p, l, d) \cap p.base : p.before =< k => k \in ToSet(p.got)
  /\ Single(p) /\ p.at = "done" =>
       /\ ToSet(p.got) \subseteq p.base
       /\ ScopeOf(p, l, d) \cap p.base \subseteq ToSet(p.got)
PagesInv == \A t \in Readers : PageOK(t, page[t], log, purged)

LogInv == Typed /\ SendsInv /\ CastsInv /\ StreamsInv /\ PagesInv

-----------------------------------------------------------------------------
(* The beginning *)

\* There are finitely many channels and members, hence First records.
LEMMA FirstNat ==
  /\ First \in Nat
  /\ Cardinality(Chans) \in Nat
  /\ IsFiniteSet(Members)
  /\ Cardinality(Members) \in Nat
<1>1. IsFiniteSet(Peers \X Chans)
  BY PeersAssumption, ChansAssumption, FS_Product
<1>2. IsFiniteSet(Members)
  BY <1>1, MembersAssumption, FS_Subset
<1>3. Cardinality(Chans) \in Nat /\ Cardinality(Members) \in Nat
  BY <1>2, ChansAssumption, FS_CardinalityType
<1> QED BY <1>2, <1>3 DEF First

\* The invariant holds when the broker has created channels and memberships.
LEMMA InitInv ==
  ASSUME Init
  PROVE  LogInv
<1>1. log \in Seq(Records) /\ First =< Len(log)
  <2> DEFINE f == SetToSeq(Members)
             M == Cardinality(Members)
             C == Cardinality(Chans)
             c(k) == IF k \in Chans THEN k ELSE f[k - C][2]
  <2>1. \E g \in [1 .. M -> Members] : IsInjective(g)
    BY FirstNat, FS_CardinalityType DEF ExistsBijection, Bijection, Injection
  <2>2. f \in [1 .. M -> Members]
    BY <2>1 DEF SetToSeq
  <2>3. ASSUME NEW k \in 1 .. First
        PROVE  c(k) \in Chans
    <3>1. CASE k \in Chans
      BY <3>1
    <3>2. CASE k \notin Chans
      <4>1. k - C \in 1 .. M
        BY <3>2, ChansAssumption, FirstNat DEF First
      <4>2. f[k - C] \in Peers \X Chans
        BY <2>2, <4>1, MembersAssumption
      <4> HIDE DEF f
      <4> QED BY <3>2, <4>2
    <3> QED BY <3>1, <3>2
  <2>4. \A x \in Chans : System(x, Naming[x]) \in Records
    BY NamingAssumption DEF System, Record, Records, Injection
  <2>5. log = [k \in 1 .. First |-> System(c(k), Naming[c(k)])]
    BY DEF Init
  <2> HIDE DEF c
  <2>6. \A k \in 1 .. First : System(c(k), Naming[c(k)]) \in Records
    BY <2>3, <2>4
  <2> QED BY <2>5, <2>6, FirstNat
<1>2. Typed
  BY <1>1 DEF Typed, Shapes, RequestTyped, Running, Init, NoReq, Request
<1>3. SendsInv
  BY DEF SendsInv, SendOK, Witnessed, Running, Init, NoReq, Request
<1>4. CastsInv
  <2>1. <<>> \in Seq(Nat) /\ DOMAIN <<>> = {}
    OBVIOUS
  <2>2. \A s \in Peers : req[s].cast = <<>> /\ req[s].at = "idle"
    BY DEF Init, NoReq, Request
  <2>3. \A s \in Peers : CastTyped(req[s]) /\ Held(req[s]) = {}
    BY <2>1, <2>2 DEF CastTyped, Held, IsInjective, ToSet
  <2> QED BY <2>3 DEF CastsInv
<1>5. StreamsInv
  <2> SUFFICES ASSUME NEW t \in Watchers PROVE StreamOK(t)
    BY DEF StreamsInv
  <2>1. <<>> \in Seq(Nat) /\ DOMAIN <<>> = {}
    OBVIOUS
  <2>2. out[t] = <<>> /\ due[t] = {} /\ watch[t] = [filter |-> Off, n |-> 0]
    BY DEF Init
  <2>3. watch[t].n = 0 /\ watch[t].filter = Off
    BY <2>2
  <2>4. ToSet(out[t]) = {}
    BY <2>1, <2>2 DEF ToSet
  <2>5. out[t] \in Seq(Nat) /\ IsInjective(out[t])
    BY <2>1, <2>2 DEF IsInjective
  <2> QED BY <2>2, <2>3, <2>4, <2>5 DEF StreamOK
<1>6. PagesInv
  <2> SUFFICES ASSUME NEW t \in Readers PROVE PageOK(t, page[t], log, purged)
    BY DEF PagesInv
  <2>1. <<>> \in Seq(Nat) /\ DOMAIN <<>> = {}
    OBVIOUS
  <2>2. page[t] = NoPage
    BY DEF Init
  <2>3. Len(log) \in Nat
    BY <1>1
  <2> QED BY <2>1, <2>2, <2>3 DEF PageOK, NoPage, Reading
<1> QED BY <1>2, <1>3, <1>4, <1>5, <1>6 DEF LogInv

-----------------------------------------------------------------------------
(* What requests do to the log *)

\* Request s goes on, and nothing is stored or broadcast.
Quiet(s) ==
  /\ req[s].at # "cast"
  /\ req' = [req EXCEPT ![s] = req'[s]]
  /\ req'[s].at # "cast"
  /\ RequestTyped(req'[s])
  /\ UNCHANGED <<log, purged, watch, out, due, page>>

\* Request s, going on as r, has stored the records rs and broadcasts them.
\* Records of before keep their scope and participants; they lose channels.
Stored(s, r, rs) ==
  /\ req[s].at # "cast"
  /\ rs \in Seq(Records) /\ rs # <<>>
  /\ Store(s, r, rs)
  /\ log' \in Seq(Records)
  /\ Len(log') = Len(log) + Len(rs)
  /\ \A k \in DOMAIN log : /\ log'[k].scope = log[k].scope
                           /\ log'[k].parts = log[k].parts
                           /\ log'[k].chans \subseteq log[k].chans
  /\ \A i \in DOMAIN rs : log'[Len(log) + i] = rs[i]
  /\ purged \subseteq purged' /\ purged' \subseteq Nat
  /\ UNCHANGED <<watch, out, page>>

\* Appending is storing.
LEMMA Appends ==
  ASSUME Typed, NEW s \in Peers, req[s].at # "cast", NEW r, NEW rec \in Records,
         log' = Append(log, rec), Store(s, r, <<rec>>), UNCHANGED <<purged, watch, out, page>>
  PROVE  Stored(s, r, <<rec>>)
<1>1. log \in Seq(Records) /\ purged \subseteq Nat
  BY DEF Typed, Shapes
<1>2. <<rec>> \in Seq(Records) /\ <<rec>> # <<>> /\ Len(<<rec>>) = 1 /\ <<rec>>[1] = rec
      /\ DOMAIN <<rec>> = {1}
  OBVIOUS
<1>3. /\ log' \in Seq(Records) /\ Len(log') = Len(log) + 1
      /\ \A k \in DOMAIN log : log'[k] = log[k]
      /\ log'[Len(log) + 1] = rec
  BY <1>1
<1> QED BY <1>1, <1>2, <1>3 DEF Stored

\* What each way of a request going on does.
LEMMA SendEffects ==
  ASSUME Typed, NEW s \in Senders,
         \/ \E x \in Targets : SendStart(s, x[1], x[2])
         \/ SendLookup(s) \/ SendLookedUp(s) \/ SendResolve(s) \/ SendCommit(s)
  PROVE  s \in Peers /\ (Quiet(s) \/ \E r, rs : Stored(s, r, rs))
<1>1. s \in Peers /\ req[s] = req[s] /\ DOMAIN req = Peers /\ RequestTyped(req[s])
  BY RolesAssumption DEF Typed, Shapes
<1>2. ASSUME NEW x \in Targets, SendStart(s, x[1], x[2])
      PROVE  Quiet(s)
  <2>1. <<x[1], x[2]>> \in Targets
    BY TargetsAssumption
  <2> QED BY <1>1, <1>2, <2>1 DEF SendStart, Quiet, RequestTyped, Sending, NoReq, Request, Running, tables
<1>3. ASSUME SendLookup(s)
      PROVE  Quiet(s)
  <2>1. PICK n \in req[s].todo :
          LET r == req[s]
              found == {c \in channel_by_name(n) : chan[c].st = "live"} \ r.ids IN
          \/ req' = [req EXCEPT ![s] = NoReq]
          \/ req' = [req EXCEPT ![s] =
               Sending("lookup", r.name, r.arg, r.ids \cup found, r.todo \ {n}, {}, "none")]
    BY <1>3 DEF SendLookup
  <2>2. channel_by_name(n) \subseteq Chans
    BY DEF channel_by_name
  <2>3. CASE req' = [req EXCEPT ![s] = NoReq]
    BY <1>1, <1>3, <2>3 DEF SendLookup, Quiet, RequestTyped, NoReq, Request, Running, tables
  <2>4. CASE req' # [req EXCEPT ![s] = NoReq]
    BY <1>1, <1>3, <2>1, <2>2, <2>4 DEF SendLookup, Quiet, RequestTyped, Sending, Running, tables
  <2> QED BY <2>3, <2>4
<1>4. ASSUME SendLookedUp(s)
      PROVE  Quiet(s)
  BY <1>1, <1>4 DEF SendLookedUp, Quiet, RequestTyped, Sending, Running, tables
<1>5. ASSUME SendResolve(s)
      PROVE  Quiet(s)
  BY <1>1, <1>5 DEF SendResolve, Quiet, RequestTyped, Sending, Running, tables
<1>6. ASSUME SendCommit(s)
      PROVE  Quiet(s) \/ \E r, rs : Stored(s, r, rs)
  <2>1. CASE \A c \in req[s].ids : Exists(c)
    <3> DEFINE rec == Record("message", req[s].ids,
                             IF req[s].ids = {} THEN {s} \cup req[s].arg ELSE {}, req[s].name)
               r == Sending("commit", req[s].name, req[s].arg, req[s].ids, {}, Audience(s),
                            EmptyAudience(req[s].ids, req[s].arg, req[s].to))
    <3>1. /\ req[s].at = "commit"
          /\ log' = Append(log, rec) /\ Store(s, r, <<rec>>)
          /\ UNCHANGED <<purged, watch, out, page>>
      BY <1>6, <2>1 DEF SendCommit
    <3>2. <<req[s].name, req[s].arg>> \in Targets /\ req[s].ids \subseteq Chans
      BY <1>1, <3>1 DEF RequestTyped, Running
    <3>3. req[s].name \subseteq Names /\ req[s].arg \subseteq Peers
      BY <3>2, TargetsAssumption
    <3>4. rec \in Records
      BY <1>1, <3>2, <3>3 DEF Record, Records
    <3> HIDE DEF rec, r
    <3>5. Stored(s, r, <<rec>>)
      BY <1>1, <3>1, <3>4, Appends
    <3> QED BY <3>5
  <2>2. CASE ~ \A c \in req[s].ids : Exists(c)
    BY <1>1, <1>6, <2>2 DEF SendCommit, Quiet, RequestTyped, NoReq, Request, Running
  <2> QED BY <2>1, <2>2
<1> QED BY <1>1, <1>2, <1>3, <1>4, <1>5, <1>6
\* A change of a channel or of a membership goes on quietly or stores records.
LEMMA ChangeEffects ==
  ASSUME Typed, NEW s \in Movers,
         \/ \E op \in Changes, n \in Names, arg \in Peers \cup Names \cup {None} :
              ChangeLookup(s, op, n, arg)
         \/ Membership(s) \/ Rename(s) \/ Archive(s) \/ Delete(s)
  PROVE  s \in Peers /\ (Quiet(s) \/ \E rs : Stored(s, NoReq, rs))
<1>1. /\ s \in Peers /\ DOMAIN req = Peers /\ RequestTyped(req[s])
      /\ log \in Seq(Records) /\ purged \subseteq Nat
  BY RolesAssumption DEF Typed, Shapes
<1>2. ASSUME NEW op \in Changes, NEW n \in Names, NEW arg \in Peers \cup Names \cup {None},
             ChangeLookup(s, op, n, arg)
      PROVE  Quiet(s)
  <2>1. PICK c \in channel_by_name(n) : req' = [req EXCEPT ![s] = Request("apply", op, c, n, arg)]
    BY <1>2 DEF ChangeLookup
  <2>2. c \in Chans
    BY DEF channel_by_name
  <2> QED BY <1>1, <1>2, <2>1, <2>2
             DEF ChangeLookup, Quiet, RequestTyped, NoReq, Request, Running, tables
<1>3. ASSUME req[s].at = "apply", Ends(s), UNCHANGED <<log, purged, watch, out, due, page>>
      PROVE  Quiet(s)
  BY <1>1, <1>3 DEF Ends, Quiet, RequestTyped, NoReq, Request, Running
<1> DEFINE rec == System(req[s].id, req[s].name)
           renamed == System(req[s].id, req[s].arg)
<1>4. req[s].at = "apply" => rec \in Records
  BY <1>1 DEF RequestTyped, System, Record, Records
<1>5. ASSUME Membership(s)
      PROVE  Quiet(s) \/ \E rs : Stored(s, NoReq, rs)
  <2>1. req[s].at = "apply" /\ UNCHANGED <<purged, watch, out, page>>
    BY <1>5 DEF Membership, Applying
  <2>2. \/ Ends(s) /\ UNCHANGED <<log, due>>
        \/ log' = Append(log, rec) /\ Store(s, NoReq, <<rec>>)
    BY <1>5 DEF Membership
  <2> HIDE DEF rec
  <2> QED BY <1>1, <1>3, <1>4, <2>1, <2>2, Appends
<1>6. ASSUME Rename(s)
      PROVE  Quiet(s) \/ \E rs : Stored(s, NoReq, rs)
  <2>1. req[s].at = "apply" /\ UNCHANGED <<purged, watch, out, page>>
    BY <1>6 DEF Rename, Applying
  <2>2. \/ Ends(s) /\ UNCHANGED <<log, due>>
        \/ log' = Append(log, renamed) /\ Store(s, NoReq, <<renamed>>)
    BY <1>6 DEF Rename
  <2>3. renamed \in Records
    BY <1>1, <1>6 DEF Rename, Applying, RequestTyped, System, Record, Records
  <2> HIDE DEF renamed
  <2> QED BY <1>1, <1>3, <2>1, <2>2, <2>3, Appends
<1>7. ASSUME Archive(s)
      PROVE  \E rs : Stored(s, NoReq, rs)
  <2> DEFINE n == IF req[s].op = "archive" THEN Cardinality(SubscribersOf(req[s].id)) + 1 ELSE 1
             rs == [k \in 1 .. n |-> rec]
  <2>1. /\ req[s].at = "apply" /\ UNCHANGED <<purged, watch, out, page>>
        /\ log' = log \o rs /\ Store(s, NoReq, rs)
    BY <1>7 DEF Archive, Applying
  <2>2. n \in Nat \ {0}
    <3>1. IsFiniteSet(SubscribersOf(req[s].id))
      BY PeersAssumption, FS_Subset DEF SubscribersOf
    <3>2. Cardinality(SubscribersOf(req[s].id)) \in Nat
      BY <3>1, FS_CardinalityType
    <3> QED BY <3>2
  <2> HIDE DEF rec, n
  <2>3. rs \in Seq(Records) /\ Len(rs) = n /\ DOMAIN rs = 1 .. n /\ rs # <<>>
    BY <1>4, <2>1, <2>2
  <2> HIDE DEF rs
  <2>4. /\ log' \in Seq(Records) /\ Len(log') = Len(log) + Len(rs)
        /\ \A k \in DOMAIN log : log'[k] = log[k]
        /\ \A k \in DOMAIN rs : log'[Len(log) + k] = rs[k]
    BY <1>1, <2>1, <2>3
  <2>5. Stored(s, NoReq, rs)
    BY <1>1, <2>1, <2>3, <2>4 DEF Stored
  <2> QED BY <2>5
<1>8. ASSUME Delete(s)
      PROVE  \E rs : Stored(s, NoReq, rs)
  <2> DEFINE c == req[s].id
             old == [k \in DOMAIN log |->
                      Record(log[k].kind, log[k].chans \ {c}, log[k].parts, log[k].scope)]
  <2>1. /\ req[s].at = "apply" /\ UNCHANGED <<watch, out, page>>
        /\ log' = Append(old, Tombstone) /\ Store(s, NoReq, <<Tombstone>>)
    BY <1>8 DEF Delete, Applying
  <2>2. purged \subseteq purged' /\ purged' \subseteq Nat
    <3>1. DOMAIN log \subseteq Nat
      BY <1>1
    <3> QED BY <1>1, <1>8, <3>1 DEF Delete
  <2>3. Tombstone \in Records
    BY DEF Tombstone, Record, Records
  <2>4. \A k \in DOMAIN log : old[k] \in Records
    <3>1. ASSUME NEW k \in DOMAIN log PROVE log[k] \in Records
      BY <1>1
    <3> QED BY <3>1 DEF Record, Records
  <2>5. /\ DOMAIN old = DOMAIN log
        /\ \A k \in DOMAIN log : /\ old[k].scope = log[k].scope
                                 /\ old[k].parts = log[k].parts
                                 /\ old[k].chans \subseteq log[k].chans
    BY DEF Record
  <2>6. old \in Seq(Records) /\ Len(old) = Len(log)
    <3>1. DOMAIN log = 1 .. Len(log) /\ Len(log) \in Nat /\ old = [k \in 1 .. Len(log) |-> old[k]]
      BY <1>1
    <3> HIDE DEF old
    <3> QED BY <2>4, <3>1
  <2> HIDE DEF old
  <2>7. /\ log' \in Seq(Records) /\ Len(log') = Len(log) + 1
        /\ \A k \in DOMAIN log : log'[k] = old[k]
        /\ log'[Len(log) + 1] = Tombstone
    BY <2>1, <2>3, <2>5, <2>6
  <2>8. /\ <<Tombstone>> \in Seq(Records) /\ <<Tombstone>> # <<>> /\ Len(<<Tombstone>>) = 1
        /\ <<Tombstone>>[1] = Tombstone /\ DOMAIN <<Tombstone>> = {1}
    BY <2>3
  <2>9. Stored(s, NoReq, <<Tombstone>>)
    BY <1>1, <2>1, <2>2, <2>5, <2>7, <2>8 DEF Stored
  <2> QED BY <2>9
<1> QED BY <1>1, <1>2, <1>5, <1>6, <1>7, <1>8

-----------------------------------------------------------------------------
(* The watchers' streams *)

\* A request that stores and casts nothing leaves streams and pages alone.
LEMMA QuietStreams ==
  ASSUME LogInv, NEW s \in Peers, Quiet(s)
  PROVE  Typed' /\ CastsInv' /\ StreamsInv' /\ PagesInv'
<1>1. /\ Typed /\ DOMAIN req = Peers /\ RequestTyped(req[s])
      /\ UNCHANGED <<log, purged, watch, out, due, page>>
  BY DEF LogInv, Typed, Shapes, Quiet
<1>2. \A u \in Peers : u # s => req'[u] = req[u]
  BY <1>1 DEF Quiet
<1>3. req[s].cast = <<>> /\ req'[s].cast = <<>> /\ req'[s].at # "cast"
  BY <1>1 DEF Quiet, RequestTyped
<1>4. \A u \in Peers : /\ req'[u].cast = req[u].cast
                       /\ \A t \in Watchers : Owed(req'[u], t) = Owed(req[u], t)
                       /\ Held(req'[u]) = Held(req[u])
  <2>1. DOMAIN <<>> = {}
    OBVIOUS
  <2> QED BY <1>2, <1>3, <2>1 DEF Owed, Held
<1>5. CastsInv /\ StreamsInv /\ PagesInv
  BY DEF LogInv
<1>6. \A u \in Peers : CastTyped(req'[u])
  BY <1>2, <1>3, <1>5, <1>4 DEF CastsInv, CastTyped
<1>7. CastsInv'
  BY <1>1, <1>4, <1>5, <1>6 DEF CastsInv
<1>8. StreamsInv'
  BY <1>1, <1>4, <1>5 DEF StreamsInv, StreamOK
<1>9. PagesInv'
  BY <1>1, <1>5 DEF PagesInv
<1>10. Typed'
  <2>1. DOMAIN req' = Peers /\ \A u \in Peers : RequestTyped(req'[u])
    BY <1>1, <1>2 DEF Typed, Quiet
  <2> QED BY <1>1, <2>1 DEF Typed, Shapes
<1> QED BY <1>7, <1>8, <1>9, <1>10
\* What was stored is owed to every watcher, and due to the one that wants it.
LEMMA StoredStreams ==
  ASSUME LogInv, NEW s \in Peers, NEW r, NEW rs, Stored(s, r, rs)
  PROVE  Typed' /\ CastsInv' /\ StreamsInv'
<1> DEFINE L == Len(log)
           N == Len(rs)
           c == [i \in 1 .. N |-> L + i]
           new == L + 1 .. L + N
<1>1. /\ Typed /\ DOMAIN req = Peers /\ RequestTyped(req[s])
      /\ log \in Seq(Records) /\ L \in Nat /\ DOMAIN log = 1 .. L
      /\ DOMAIN watch = Watchers /\ DOMAIN out = Watchers
  BY DEF LogInv, Typed, Shapes
<1>2. /\ N \in Nat /\ N > 0 /\ DOMAIN rs = 1 .. N
      /\ Len(log') = L + N /\ log' \in Seq(Records) /\ purged' \subseteq Nat
      /\ UNCHANGED <<watch, out, page>>
  BY DEF Stored
<1>3. /\ req' = [req EXCEPT ![s] = Casting(r, c, Watchers)]
      /\ due' = [t \in Watchers |->
                   due[t] \cup {k \in new : Wants(watch[t].filter, (log \o rs)[k].scope)}]
  BY DEF Stored, Store
<1>4. /\ \A u \in Peers : u # s => req'[u] = req[u]
      /\ DOMAIN req' = Peers
      /\ req'[s].at = "cast" /\ req'[s].cast = c /\ req'[s].rest = Watchers
      /\ req[s].cast = <<>>
  BY <1>1, <1>3 DEF Casting, RequestTyped, Stored
<1>5. c \in Seq(Nat) /\ IsInjective(c) /\ c # <<>> /\ ToSet(c) = new
  <2>1. \A i \in 1 .. N : c[i] = L + i /\ c[i] \in Nat
    BY <1>1
  <2>2. DOMAIN c = 1 .. N
    OBVIOUS
  <2>3. c \in Seq(Nat) /\ Len(c) = N
    BY <1>2, <2>1
  <2>4. IsInjective(c)
    BY <1>1, <2>1, <2>2 DEF IsInjective
  <2>5. ToSet(c) \subseteq new
    BY <1>1, <1>2, <2>1, <2>2 DEF ToSet
  <2>6. ASSUME NEW k \in new PROVE k \in ToSet(c)
    <3>1. k - L \in 1 .. N /\ L + (k - L) = k
      BY <1>1, <1>2
    <3>2. c[k - L] = k
      BY <3>1
    <3> QED BY <2>2, <3>1, <3>2 DEF ToSet
  <2>7. c # <<>>
    BY <1>2, <2>3
  <2> HIDE DEF c
  <2> QED BY <2>3, <2>4, <2>5, <2>6, <2>7
<1> HIDE DEF c
<1>6. \A t \in Watchers : Owed(req'[s], t) = new /\ Owed(req[s], t) = {}
  <2>1. DOMAIN <<>> = {}
    OBVIOUS
  <2> QED BY <1>4, <1>5, <2>1 DEF Owed, ToSet
<1>7. Held(req'[s]) = new /\ \A u \in Peers : u # s => Held(req'[u]) = Held(req[u])
  BY <1>4, <1>5 DEF Held
<1>8. First \in Nat /\ First =< L
  <2>1. First =< Len(log)
    BY DEF LogInv, Typed, Shapes
  <2> QED BY <1>1, <2>1, FirstNat
<1>9. First + 1 .. L \subseteq First + 1 .. L + N /\ new \subseteq First + 1 .. L + N
      /\ new \cap (First + 1 .. L) = {}
  BY <1>1, <1>2, <1>8
<1>10. Typed'
  <2>1. \A u \in Peers : RequestTyped(req'[u])
    BY <1>1, <1>4 DEF Typed, RequestTyped, Running
  <2>2. DOMAIN due' = Watchers
    BY <1>3
  <2>3. First =< Len(log)'
    BY <1>1, <1>2, <1>8
  <2> QED BY <1>1, <1>2, <1>4, <2>1, <2>2, <2>3 DEF Typed, Shapes
<1>11. CastsInv'
  <2>1. \A u \in Peers : CastTyped(req'[u])
    <3>1. CastTyped(req'[s])
      BY <1>4, <1>5, RolesAssumption DEF CastTyped
    <3> QED BY <1>4, <3>1 DEF LogInv, CastsInv
  <2>2. \A u \in Peers : Held(req[u]) \subseteq First + 1 .. L
    BY DEF LogInv, CastsInv
  <2>3. \A u \in Peers : Held(req'[u]) \subseteq First + 1 .. L + N
    BY <1>7, <1>9, <2>2
  <2>4. ASSUME NEW u \in Peers, NEW v \in Peers, u # v
        PROVE  Held(req'[u]) \cap Held(req'[v]) = {}
    <3>1. u # s /\ v # s => Held(req[u]) \cap Held(req[v]) = {}
      BY <2>4 DEF LogInv, CastsInv
    <3> QED BY <1>7, <1>9, <2>2, <2>4, <3>1
  <2> QED BY <1>2, <2>1, <2>3, <2>4 DEF CastsInv
<1>12. StreamsInv'
  <2> SUFFICES ASSUME NEW t \in Watchers PROVE StreamOK(t)'
    BY DEF StreamsInv
  <2>1. StreamOK(t)
    BY DEF LogInv, StreamsInv
  <2>2. out'[t] = out[t] /\ watch'[t] = watch[t]
    BY <1>2
  <2>3. \A k \in First + 1 .. L : log'[k].scope = log[k].scope
    <3>1. \A k \in First + 1 .. L : k \in DOMAIN log
      BY <1>1, <1>8
    <3> QED BY <3>1 DEF Stored
  <2>4. \A k \in new : log'[k].scope = (log \o rs)[k].scope
    <3> SUFFICES ASSUME NEW k \in new PROVE log'[k] = (log \o rs)[k]
      OBVIOUS
    <3>1. k - L \in DOMAIN rs /\ L + (k - L) = k
      BY <1>1, <1>2
    <3>2. log'[k] = rs[k - L]
      BY <3>1 DEF Stored
    <3>3. rs \in Seq(Records)
      BY DEF Stored
    <3>4. (log \o rs)[k] = rs[k - L]
      BY <1>1, <1>2, <3>1, <3>3
    <3> QED BY <3>2, <3>4
  <2>5. \A k \in due[t] : k \in First + 1 .. L /\ Wants(watch[t].filter, log[k].scope)
    BY <2>1 DEF StreamOK
  <2>6. \A k \in due'[t] :
          \/ k \in due[t]
          \/ k \in new /\ Wants(watch[t].filter, log'[k].scope)
    <3>1. due'[t] = due[t] \cup {k \in new : Wants(watch[t].filter, (log \o rs)[k].scope)}
      BY <1>3
    <3>2. \A k \in new : Wants(watch[t].filter, (log \o rs)[k].scope)
                         => Wants(watch[t].filter, log'[k].scope)
      BY <2>4
    <3>3. ASSUME NEW k \in due'[t], k \notin due[t]
          PROVE  k \in new /\ Wants(watch[t].filter, log'[k].scope)
      <4>1. k \in new /\ Wants(watch[t].filter, (log \o rs)[k].scope)
        BY <3>1, <3>3
      <4> QED BY <3>2, <4>1
    <3> QED BY <3>3
  <2>7. \A u \in Peers : Owed(req'[u], t) = IF u = s THEN new ELSE Owed(req[u], t)
    BY <1>4, <1>6
  <2>8. ASSUME NEW k \in due'[t]
        PROVE  /\ k \in First + 1 .. L + N
               /\ Wants(watch[t].filter, log'[k].scope)
               /\ k \in ToSet(out[t]) \/ \E u \in Peers : k \in Owed(req'[u], t)
    <3>1. CASE k \in due[t]
      <4>1. k \in ToSet(out[t]) \/ \E u \in Peers : k \in Owed(req[u], t)
        BY <2>1, <3>1 DEF StreamOK
      <4> QED BY <1>6, <1>9, <2>3, <2>5, <2>7, <3>1, <4>1
    <3>2. CASE k \in new /\ Wants(watch[t].filter, log'[k].scope)
      BY <1>9, <2>7, <3>2
    <3> QED BY <2>6, <3>1, <3>2
  <2>9. ToSet(out[t]) \subseteq First + 1 .. L
    BY <2>1 DEF StreamOK
  <2>10. \A u \in Peers : Owed(req'[u], t) \cap ToSet(out[t]) = {}
    <3>1. \A u \in Peers : Owed(req[u], t) \cap ToSet(out[t]) = {}
      BY <2>1 DEF StreamOK
    <3> QED BY <1>9, <2>7, <2>9, <3>1
  <2>11. watch[t].n = 1 => \A k \in ToSet(out[t]) : Wants(watch[t].filter, log'[k].scope)
    <3>1. watch[t].n = 1 => \A k \in ToSet(out[t]) : Wants(watch[t].filter, log[k].scope)
      BY <2>1 DEF StreamOK
    <3> QED BY <2>3, <2>9, <3>1
  <2> HIDE DEF new
  <2> QED BY <1>2, <1>9, <2>1, <2>2, <2>8, <2>9, <2>10, <2>11 DEF StreamOK
<1> QED BY <1>10, <1>11, <1>12
\* One visit of a broadcast: t is owed the record no longer, the others are
\* owed what they were.
LEMMA VisitOwes ==
  ASSUME LogInv, NEW s \in Peers, NEW t \in Watchers,
         req[s].at = "cast", t \in req[s].rest, Visited(s, t)
  PROVE  /\ req' = [req EXCEPT ![s] = req'[s]]
         /\ RequestTyped(req'[s]) /\ CastTyped(req'[s])
         /\ Head(req[s].cast) \in Owed(req[s], t)
         /\ Owed(req'[s], t) = Owed(req[s], t) \ {Head(req[s].cast)}
         /\ \A v \in Watchers : v # t => Owed(req'[s], v) = Owed(req[s], v)
         /\ Held(req'[s]) \subseteq Held(req[s])
<1>1. /\ DOMAIN req = Peers /\ CastTyped(req[s])
  BY DEF LogInv, Typed, Shapes, CastsInv
<1>2. PICK r : r = req[s]
  OBVIOUS
<1>3. PICK c : c = r.cast
  OBVIOUS
<1>4. /\ c \in Seq(Nat) /\ Len(c) \in Nat \ {0} /\ DOMAIN c = 1 .. Len(c) /\ Head(c) = c[1]
      /\ \A i, j \in DOMAIN c : c[i] = c[j] => i = j
      /\ r.rest \subseteq Watchers /\ t \in r.rest
  <2>1. c \in Seq(Nat) /\ c # <<>>
    BY <1>1, <1>2, <1>3 DEF CastTyped
  <2> QED BY <2>1, <1>1, <1>2, <1>3 DEF CastTyped, IsInjective
<1>5. \A v \in Watchers : Owed(r, v) = {c[i] : i \in {j \in 1 .. Len(c) : j > 1 \/ v \in r.rest}}
  BY <1>3, <1>4 DEF Owed
<1>6. Held(r) = {c[i] : i \in 1 .. Len(c)}
  BY <1>3, <1>4 DEF Held, ToSet
<1>7. Head(c) \in Owed(r, t)
  BY <1>4, <1>5
<1>8. CASE r.rest = {t} /\ Len(c) = 1
  <2>1. req' = [req EXCEPT ![s] = NoReq]
    BY <1>2, <1>3, <1>8 DEF Visited
  <2>2. req'[s] = NoReq /\ req' = [req EXCEPT ![s] = req'[s]]
    BY <1>1, <2>1
  <2>3. <<>> \in Seq(Nat) /\ DOMAIN <<>> = {}
    OBVIOUS
  <2>4. RequestTyped(NoReq) /\ CastTyped(NoReq) /\ Held(NoReq) = {}
        /\ \A v \in Watchers : Owed(NoReq, v) = {}
    BY <2>3 DEF RequestTyped, CastTyped, Held, Owed, ToSet, IsInjective, NoReq, Request, Running
  <2>5. Owed(r, t) = {Head(c)}
    BY <1>4, <1>5, <1>8
  <2>6. \A v \in Watchers : v # t => Owed(r, v) = {}
    BY <1>4, <1>5, <1>8
  <2> QED BY <1>2, <1>3, <1>7, <2>2, <2>4, <2>5, <2>6
<1>9. CASE r.rest # {t}
  <2>1. req' = [req EXCEPT ![s] = Casting(r, c, r.rest \ {t})]
    BY <1>2, <1>3, <1>9 DEF Visited
  <2>2. /\ req' = [req EXCEPT ![s] = req'[s]]
        /\ req'[s].at = "cast" /\ req'[s].cast = c /\ req'[s].rest = r.rest \ {t}
    BY <1>1, <2>1 DEF Casting
  <2>3. RequestTyped(req'[s]) /\ CastTyped(req'[s])
    BY <1>1, <1>2, <1>3, <1>4, <1>9, <2>2 DEF RequestTyped, CastTyped, Running
  <2>4. Held(req'[s]) = Held(r)
    BY <1>3, <2>2 DEF Held
  <2>5. \A v \in Watchers : Owed(req'[s], v) =
          {c[i] : i \in {j \in 1 .. Len(c) : j > 1 \/ v \in r.rest \ {t}}}
    BY <1>4, <2>2 DEF Owed
  <2>6. Owed(req'[s], t) = Owed(r, t) \ {c[1]}
    BY <1>4, <1>5, <2>5
  <2>7. \A v \in Watchers : v # t => Owed(req'[s], v) = Owed(r, v)
    BY <1>5, <2>5
  <2> QED BY <1>2, <1>3, <1>4, <1>7, <2>2, <2>3, <2>4, <2>6, <2>7
<1>10. CASE r.rest = {t} /\ Len(c) # 1
  <2>1. req' = [req EXCEPT ![s] = Casting(r, Tail(c), Watchers)]
    BY <1>2, <1>3, <1>10 DEF Visited
  <2> DEFINE d == Tail(c)
  <2>2. d \in Seq(Nat) /\ Len(d) = Len(c) - 1 /\ d # <<>> /\ DOMAIN d = 1 .. Len(c) - 1
        /\ \A i \in 1 .. Len(c) - 1 : d[i] = c[i + 1]
    BY <1>4, <1>10
  <2> HIDE DEF d
  <2>3. /\ req' = [req EXCEPT ![s] = req'[s]]
        /\ req'[s].at = "cast" /\ req'[s].cast = d /\ req'[s].rest = Watchers
    BY <1>1, <2>1 DEF Casting, d
  <2>4. IsInjective(d)
    <3> SUFFICES ASSUME NEW i \in 1 .. Len(c) - 1, NEW j \in 1 .. Len(c) - 1, d[i] = d[j]
                 PROVE  i = j
      BY <2>2 DEF IsInjective
    <3>1. i + 1 \in DOMAIN c /\ j + 1 \in DOMAIN c
      BY <1>4
    <3>2. c[i + 1] = c[j + 1]
      BY <2>2
    <3>3. i + 1 = j + 1
      BY <1>4, <3>1, <3>2
    <3> QED BY <1>4, <3>3
  <2>5. RequestTyped(req'[s]) /\ CastTyped(req'[s])
    BY <2>2, <2>3, <2>4, RolesAssumption DEF RequestTyped, CastTyped, Running
  <2>6. Held(req'[s]) = {d[i] : i \in 1 .. Len(c) - 1}
        /\ \A v \in Watchers : Owed(req'[s], v) = {d[i] : i \in 1 .. Len(c) - 1}
    BY <2>2, <2>3 DEF Held, Owed, ToSet
  <2>7. {d[i] : i \in 1 .. Len(c) - 1} = {c[i] : i \in 2 .. Len(c)}
    <3>1. ASSUME NEW i \in 1 .. Len(c) - 1
          PROVE  d[i] \in {c[j] : j \in 2 .. Len(c)}
      <4>1. i + 1 \in 2 .. Len(c)
        BY <1>4
      <4>2. d[i] = c[i + 1]
        BY <2>2
      <4> QED BY <4>1, <4>2
    <3>2. ASSUME NEW j \in 2 .. Len(c)
          PROVE  c[j] \in {d[i] : i \in 1 .. Len(c) - 1}
      <4>1. j - 1 \in 1 .. Len(c) - 1 /\ (j - 1) + 1 = j
        BY <1>4
      <4> QED BY <2>2, <4>1
    <3> QED BY <3>1, <3>2
  <2>8. Held(req'[s]) \subseteq Held(r)
    <3>1. \A i \in 2 .. Len(c) : i \in 1 .. Len(c)
      BY <1>4
    <3>2. {c[i] : i \in 2 .. Len(c)} \subseteq {c[i] : i \in 1 .. Len(c)}
      BY <3>1
    <3> QED BY <1>6, <2>6, <2>7, <3>2
  <2>9. Owed(r, t) \ {c[1]} = {c[i] : i \in 2 .. Len(c)}
    BY <1>4, <1>5
  <2>10. \A v \in Watchers : v # t => Owed(r, v) = {c[i] : i \in 2 .. Len(c)}
    BY <1>4, <1>5, <1>10
  <2> QED BY <1>2, <1>3, <1>4, <1>7, <2>3, <2>5, <2>6, <2>7, <2>8, <2>9, <2>10
<1> QED BY <1>8, <1>9, <1>10

\* broadcast gives one watcher one record, if its filter wants it.
LEMMA CastStreams ==
  ASSUME LogInv, NEW s \in Peers, NEW t \in Watchers, Cast(s, t)
  PROVE  Typed' /\ CastsInv' /\ StreamsInv' /\ PagesInv'
<1> DEFINE k == Head(req[s].cast)
<1>1. /\ req[s].at = "cast" /\ t \in req[s].rest /\ Visited(s, t)
      /\ out' = IF Wants(watch[t].filter, log[k].scope)
                THEN [out EXCEPT ![t] = Append(@, k)] ELSE out
      /\ UNCHANGED <<log, purged, watch, due, page>>
  BY DEF Cast, tables
<1>2. /\ req' = [req EXCEPT ![s] = req'[s]]
      /\ RequestTyped(req'[s]) /\ CastTyped(req'[s])
      /\ k \in Owed(req[s], t)
      /\ Owed(req'[s], t) = Owed(req[s], t) \ {k}
      /\ \A v \in Watchers : v # t => Owed(req'[s], v) = Owed(req[s], v)
      /\ Held(req'[s]) \subseteq Held(req[s])
  BY <1>1, VisitOwes
<1>3. /\ DOMAIN req = Peers /\ DOMAIN out = Watchers /\ DOMAIN req' = Peers
      /\ \A u \in Peers : u # s => req'[u] = req[u]
  BY <1>2 DEF LogInv, Typed, Shapes
<1> HIDE DEF k
<1>4. Typed'
  <2>1. \A u \in Peers : RequestTyped(req'[u])
    BY <1>2, <1>3 DEF LogInv, Typed
  <2>2. DOMAIN out' = Watchers
    BY <1>1, <1>3
  <2> QED BY <1>1, <1>3, <2>1, <2>2 DEF LogInv, Typed, Shapes
<1>5. CastsInv'
  <2>1. \A u \in Peers : CastTyped(req'[u]) /\ Held(req'[u]) \subseteq Held(req[u])
    BY <1>2, <1>3 DEF LogInv, CastsInv
  <2>2. \A u, v \in Peers : u # v => Held(req[u]) \cap Held(req[v]) = {}
    BY DEF LogInv, CastsInv
  <2>3. \A u, v \in Peers : u # v => Held(req'[u]) \cap Held(req'[v]) = {}
    BY <2>1, <2>2
  <2>4. \A u \in Peers : Held(req'[u]) \subseteq First + 1 .. Len(log)
    BY <2>1 DEF LogInv, CastsInv
  <2> QED BY <1>1, <2>1, <2>3, <2>4 DEF CastsInv
<1>6. PagesInv'
  BY <1>1 DEF LogInv, PagesInv
<1>7. k \in Held(req[s]) /\ k \in First + 1 .. Len(log) /\ k \in Nat
  <2>1. k \in Held(req[s])
    BY <1>2 DEF Owed, Held, ToSet
  <2>2. k \in First + 1 .. Len(log)
    BY <2>1 DEF LogInv, CastsInv
  <2>3. Len(log) \in Nat
    BY DEF LogInv, Typed, Shapes
  <2> QED BY <2>1, <2>2, <2>3, FirstNat
<1>8. \A u \in Peers : u # s => k \notin Owed(req[u], t)
  <2>1. \A u \in Peers : Owed(req[u], t) \subseteq Held(req[u])
    BY DEF Owed, Held, ToSet
  <2> QED BY <1>7, <2>1 DEF LogInv, CastsInv
<1>9. ASSUME NEW v \in Watchers, v # t PROVE StreamOK(v)'
  <2>1. StreamOK(v)
    BY DEF LogInv, StreamsInv
  <2>2. out'[v] = out[v]
    BY <1>1, <1>3, <1>9
  <2>3. \A u \in Peers : Owed(req'[u], v) = Owed(req[u], v)
    BY <1>2, <1>3, <1>9
  <2> QED BY <1>1, <2>1, <2>2, <2>3 DEF StreamOK
<1>10. StreamOK(t)'
  <2>1. StreamOK(t)
    BY DEF LogInv, StreamsInv
  <2>2. \A u \in Peers : Owed(req'[u], t) = Owed(req[u], t) \ {k}
    BY <1>2, <1>3, <1>8
  <2>3. k \notin ToSet(out[t])
    BY <1>2, <2>1 DEF StreamOK
  <2>4. CASE ~Wants(watch[t].filter, log[k].scope)
    <3>1. out' = out /\ k \notin due[t]
      BY <1>1, <2>1, <2>4 DEF StreamOK
    <3>2. \A j \in due[t] : j \in ToSet(out[t]) \/ \E u \in Peers : j \in Owed(req'[u], t)
      BY <2>1, <2>2, <3>1 DEF StreamOK
    <3>3. \A u \in Peers : Owed(req'[u], t) \cap ToSet(out[t]) = {}
      BY <2>1, <2>2 DEF StreamOK
    <3> QED BY <1>1, <2>1, <3>1, <3>2, <3>3 DEF StreamOK
  <2>5. CASE Wants(watch[t].filter, log[k].scope)
    <3>1. out'[t] = Append(out[t], k)
      BY <1>1, <1>3, <2>5
    <3>2. PICK o \in Seq(Nat) : o = out[t]
      BY <2>1 DEF StreamOK
    <3>3. /\ Append(o, k) \in Seq(Nat) /\ DOMAIN Append(o, k) = 1 .. Len(o) + 1
          /\ Len(o) \in Nat /\ DOMAIN o = 1 .. Len(o)
          /\ Append(o, k)[Len(o) + 1] = k
          /\ \A i \in 1 .. Len(o) : Append(o, k)[i] = o[i]
          /\ Append(o, k) # <<>>
      BY <1>7
    <3>4. ToSet(Append(o, k)) = ToSet(o) \cup {k}
      <4>1. \A i \in 1 .. Len(o) + 1 : i \in 1 .. Len(o) \/ i = Len(o) + 1
        BY <3>3
      <4>2. ToSet(Append(o, k)) \subseteq ToSet(o) \cup {k}
        BY <3>3, <4>1 DEF ToSet
      <4>3. ToSet(o) \subseteq ToSet(Append(o, k))
        BY <3>3 DEF ToSet
      <4>4. k \in ToSet(Append(o, k))
        BY <3>3 DEF ToSet
      <4> QED BY <4>2, <4>3, <4>4
    <3>5. IsInjective(Append(o, k))
      <4>1. \A i, j \in 1 .. Len(o) : o[i] = o[j] => i = j
        BY <2>1, <3>2, <3>3 DEF StreamOK, IsInjective
      <4>2. \A i \in 1 .. Len(o) : o[i] # k
        BY <2>3, <3>2, <3>3 DEF ToSet
      <4>3. \A i \in 1 .. Len(o) + 1 : i \in 1 .. Len(o) \/ i = Len(o) + 1
        BY <3>3
      <4>4. ASSUME NEW i \in 1 .. Len(o) + 1, NEW j \in 1 .. Len(o) + 1,
                   Append(o, k)[i] = Append(o, k)[j]
            PROVE  i = j
        BY <3>3, <4>1, <4>2, <4>3, <4>4
      <4> QED BY <3>3, <4>4 DEF IsInjective
    <3>6. ToSet(out'[t]) = ToSet(out[t]) \cup {k}
      BY <3>1, <3>2, <3>4
    <3>7. out'[t] \in Seq(Nat) /\ IsInjective(out'[t])
      BY <3>1, <3>2, <3>3, <3>5
    <3>8. \A j \in due[t] : j \in ToSet(out'[t]) \/ \E u \in Peers : j \in Owed(req'[u], t)
      BY <2>1, <2>2, <3>6 DEF StreamOK
    <3>9. \A u \in Peers : Owed(req'[u], t) \cap ToSet(out'[t]) = {}
      BY <2>1, <2>2, <3>6 DEF StreamOK
    <3>10. watch[t].n # 0
      BY <2>1, <2>5 DEF StreamOK, Wants, Off
    <3>11. watch[t].n = 1 => \A j \in ToSet(out'[t]) : Wants(watch[t].filter, log[j].scope)
      BY <2>1, <2>5, <3>6 DEF StreamOK
    <3>12. ToSet(out'[t]) \subseteq First + 1 .. Len(log)
      BY <1>7, <2>1, <3>6 DEF StreamOK
    <3> QED BY <1>1, <2>1, <3>7, <3>8, <3>9, <3>10, <3>11, <3>12 DEF StreamOK
  <2> QED BY <2>4, <2>5
<1> QED BY <1>4, <1>5, <1>6, <1>9, <1>10 DEF StreamsInv

\* A new filter starts with nothing due.
LEMMA SetWatchStreams ==
  ASSUME LogInv, NEW t \in Watchers, NEW f \in Filters, SetWatch(t, f)
  PROVE  LogInv'
<1>1. /\ watch' = [watch EXCEPT ![t] = [filter |-> f, n |-> watch[t].n + 1]]
      /\ due' = [due EXCEPT ![t] = {}]
      /\ UNCHANGED <<subs, log, purged, req, seen, out, page>>
  BY DEF SetWatch, tables
<1>2. DOMAIN watch = Watchers /\ DOMAIN due = Watchers
  BY DEF LogInv, Typed, Shapes
<1>3. Typed'
  BY <1>1, <1>2 DEF LogInv, Typed, Shapes
<1>4. SendsInv' /\ CastsInv' /\ PagesInv'
  BY <1>1 DEF LogInv, SendsInv, CastsInv, PagesInv
<1>5. ASSUME NEW v \in Watchers PROVE StreamOK(v)'
  <2>1. StreamOK(v)
    BY DEF LogInv, StreamsInv
  <2>2. CASE v # t
    <3>1. watch'[v] = watch[v] /\ due'[v] = due[v]
      BY <1>1, <1>2, <2>2
    <3> QED BY <1>1, <2>1, <3>1 DEF StreamOK
  <2>3. CASE v = t
    <3>1. watch'[v].n = watch[v].n + 1 /\ due'[v] = {}
      BY <1>1, <1>2, <2>3
    <3>2. watch[v].n \in Nat /\ (watch[v].n = 0 => out[v] = <<>>)
      BY <2>1 DEF StreamOK
    <3>3. ToSet(<<>>) = {}
      BY DEF ToSet
    <3> QED BY <1>1, <2>1, <3>1, <3>2, <3>3 DEF StreamOK
  <2> QED BY <2>2, <2>3
<1> QED BY <1>3, <1>4, <1>5 DEF LogInv, StreamsInv
-----------------------------------------------------------------------------
(* The readers' pages *)

Rising(q) == \A i, j \in DOMAIN q : i < j => q[i] < q[j]

\* The ids a page is taken from, and a page of n of them: a full one misses
\* none above its oldest, another misses none.
Below(ids, before) == {k \in ids : before = 0 \/ k < before}
Newest(rows, below, n) ==
  /\ rows \in Seq(Nat) /\ Rising(rows) /\ ToSet(rows) \subseteq below
  /\ Len(rows) = n => rows[1] \in below /\ \A k \in below : rows[1] =< k => k \in ToSet(rows)
  /\ Len(rows) # n => below \subseteq ToSet(rows)

\* A page lists the newest ids below the cursor, in order.
LEMMA PageRows ==
  ASSUME NEW ids \in SUBSET Nat, IsFiniteSet(ids), NEW before \in Nat, NEW n \in Nat \ {0}
  PROVE  Newest(Page(ids, before, n), Below(ids, before), n)
<1> DEFINE B == {k \in ids : before = 0 \/ k < before}
           rows == Page(ids, before, n)
<1>1. PICK a : a = Ascending(B)
  OBVIOUS
<1>2. IsFiniteSet(B) /\ B \in SUBSET Nat
  BY FS_Subset
<1>3. PICK N \in Nat : N = Len(a)
  BY <1>1, <1>2, AscendingLists
<1>4. /\ a \in Seq(B)
      /\ \A i, j \in 1 .. N : i < j => a[i] < a[j]
      /\ \A k \in B : \E i \in 1 .. N : a[i] = k
  BY <1>1, <1>2, <1>3, AscendingLists
<1>5. PICK m \in 1 .. N + 1 : m = IF N > n THEN N - n + 1 ELSE 1
  <2>1. (IF N > n THEN N - n + 1 ELSE 1) \in 1 .. N + 1
    OBVIOUS
  <2> QED BY <2>1
<1>6. rows = SubSeq(a, m, N)
  BY <1>1, <1>3, <1>5 DEF Page
<1>7. \A i \in 1 .. N : a[i] \in B /\ a[i] \in Nat
  BY <1>2, <1>3, <1>4
<1> HIDE DEF B, rows
<1>8. /\ rows \in Seq(Nat) /\ Len(rows) = N - m + 1
      /\ \A i \in 1 .. N - m + 1 : rows[i] = a[m + i - 1]
  <2>1. \A i \in m .. N : a[i] \in Nat
    BY <1>5, <1>7
  <2>2. m \in Int /\ N \in Int
    OBVIOUS
  <2>3. /\ SubSeq(a, m, N) \in Seq(Nat)
        /\ Len(SubSeq(a, m, N)) = IF m =< N THEN N - m + 1 ELSE 0
        /\ \A i \in 1 .. N - m + 1 : SubSeq(a, m, N)[i] = a[m + i - 1]
    BY <2>1, <2>2, SubSeqProperties
  <2> QED BY <1>5, <1>6, <2>3
<1>9. /\ DOMAIN rows = 1 .. N - m + 1
      /\ \A i \in 1 .. N - m + 1 : m + i - 1 \in 1 .. N
      /\ \A i \in 1 .. N : i >= m => i - m + 1 \in 1 .. N - m + 1 /\ m + (i - m + 1) - 1 = i
  BY <1>5, <1>8
<1>10. rows \in Seq(Nat)
  BY <1>8
<1>11. Rising(rows)
  <2> SUFFICES ASSUME NEW i \in 1 .. N - m + 1, NEW j \in 1 .. N - m + 1, i < j
               PROVE  rows[i] < rows[j]
    BY <1>9 DEF Rising
  <2>1. m + i - 1 < m + j - 1
    BY <1>5
  <2>2. a[m + i - 1] < a[m + j - 1]
    BY <1>4, <1>9, <2>1
  <2> QED BY <1>8, <2>2
<1>12. ToSet(rows) \subseteq B
  <2> SUFFICES ASSUME NEW i \in 1 .. N - m + 1 PROVE rows[i] \in B
    BY <1>9 DEF ToSet
  <2> QED BY <1>7, <1>8, <1>9
<1>13. ASSUME NEW i \in 1 .. N, i >= m PROVE a[i] \in ToSet(rows)
  <2>1. rows[i - m + 1] = a[i] /\ i - m + 1 \in DOMAIN rows
    BY <1>8, <1>9, <1>13
  <2> QED BY <2>1 DEF ToSet
<1>14. ASSUME Len(rows) # n PROVE B \subseteq ToSet(rows)
  <2>1. m = 1
    BY <1>5, <1>8, <1>14
  <2> QED BY <1>4, <1>13, <2>1
<1>15. ASSUME Len(rows) = n
       PROVE  rows[1] \in B /\ \A k \in B : rows[1] =< k => k \in ToSet(rows)
  <2>1. 1 \in 1 .. N - m + 1 /\ m + 1 - 1 = m /\ m \in 1 .. N
    BY <1>5, <1>8, <1>15
  <2>2. rows[1] = a[m]
    <3>1. rows[1] = a[m + 1 - 1]
      BY <1>8, <2>1
    <3> QED BY <2>1, <3>1
  <2>3. ASSUME NEW k \in B, rows[1] =< k PROVE k \in ToSet(rows)
    <3>1. PICK i \in 1 .. N : a[i] = k
      BY <1>4
    <3>2. i < m => a[i] < a[m]
      BY <1>4, <2>1
    <3>3. ~(a[i] < a[m])
      BY <1>7, <2>1, <2>2, <2>3, <3>1
    <3>4. i >= m
      BY <1>5, <3>2, <3>3
    <3> QED BY <1>13, <3>1, <3>4
  <2> QED BY <1>7, <2>1, <2>2, <2>3
<1>16. Newest(rows, B, n)
  BY <1>10, <1>11, <1>12, <1>14, <1>15 DEF Newest
<1> QED BY <1>16 DEF B, rows, Below

\* An earlier page goes in front.
LEMMA InFront ==
  ASSUME NEW a \in Seq(Nat), NEW b \in Seq(Nat), Rising(a), Rising(b),
         \A x \in ToSet(a), y \in ToSet(b) : x < y
  PROVE  /\ a \o b \in Seq(Nat)
         /\ Rising(a \o b)
         /\ ToSet(a \o b) = ToSet(a) \cup ToSet(b)
<1>1. PICK c : c = a \o b
  OBVIOUS
<1>2. PICK M \in Nat : M = Len(a)
  OBVIOUS
<1>3. PICK N \in Nat : N = Len(b)
  OBVIOUS
<1>4. /\ c \in Seq(Nat) /\ DOMAIN c = 1 .. M + N /\ DOMAIN a = 1 .. M /\ DOMAIN b = 1 .. N
      /\ \A i \in 1 .. M : c[i] = a[i]
      /\ \A i \in 1 .. N : c[M + i] = b[i]
  BY <1>1, <1>2, <1>3
<1>5. \A i \in 1 .. M + N : i \in 1 .. M \/ (i - M \in 1 .. N /\ M + (i - M) = i)
  OBVIOUS
<1>6. \A i \in 1 .. M : c[i] \in ToSet(a)
  BY <1>4 DEF ToSet
<1>7. \A i \in 1 .. M + N : i \notin 1 .. M => c[i] = b[i - M] /\ c[i] \in ToSet(b)
  <2> SUFFICES ASSUME NEW i \in 1 .. M + N, i \notin 1 .. M
               PROVE  c[i] = b[i - M] /\ c[i] \in ToSet(b)
    OBVIOUS
  <2>1. i - M \in 1 .. N /\ M + (i - M) = i
    BY <1>5
  <2>2. c[M + (i - M)] = b[i - M]
    BY <1>4, <2>1
  <2> QED BY <1>4, <2>1, <2>2 DEF ToSet
<1>8. ToSet(c) = ToSet(a) \cup ToSet(b)
  <2>1. ToSet(c) \subseteq ToSet(a) \cup ToSet(b)
    <3> SUFFICES ASSUME NEW i \in 1 .. M + N PROVE c[i] \in ToSet(a) \cup ToSet(b)
      BY <1>4 DEF ToSet
    <3> QED BY <1>6, <1>7
  <2>2. ToSet(a) \subseteq ToSet(c)
    <3> SUFFICES ASSUME NEW i \in 1 .. M PROVE a[i] \in ToSet(c)
      BY <1>4 DEF ToSet
    <3>1. i \in DOMAIN c
      BY <1>4
    <3> QED BY <1>4, <3>1 DEF ToSet
  <2>3. ToSet(b) \subseteq ToSet(c)
    <3> SUFFICES ASSUME NEW i \in 1 .. N PROVE b[i] \in ToSet(c)
      BY <1>4 DEF ToSet
    <3>1. M + i \in DOMAIN c
      BY <1>4
    <3> QED BY <1>4, <3>1 DEF ToSet
  <2> QED BY <2>1, <2>2, <2>3
<1>9. Rising(c)
  <2> SUFFICES ASSUME NEW i \in 1 .. M + N, NEW j \in 1 .. M + N, i < j
               PROVE  c[i] < c[j]
    BY <1>4 DEF Rising
  <2>1. CASE i \in 1 .. M /\ j \in 1 .. M
    BY <1>4, <2>1 DEF Rising
  <2>2. CASE i \in 1 .. M /\ j \notin 1 .. M
    BY <1>6, <1>7, <2>2
  <2>3. CASE i \notin 1 .. M
    <3>1. j \notin 1 .. M /\ i - M \in 1 .. N /\ j - M \in 1 .. N /\ i - M < j - M
      BY <1>5, <2>3
    <3>2. b[i - M] < b[j - M]
      BY <1>4, <3>1 DEF Rising
    <3> QED BY <1>7, <2>3, <3>1, <3>2
  <2> QED BY <2>1, <2>2, <2>3
<1> QED BY <1>1, <1>4, <1>8, <1>9

\* Storing records adds none to the older part of a scope.
LEMMA StoredPages ==
  ASSUME LogInv, NEW s \in Peers, NEW r, NEW rs, Stored(s, r, rs)
  PROVE  PagesInv'
<1>1. /\ page' = page /\ purged \subseteq purged'
      /\ log \in Seq(Records) /\ log' \in Seq(Records) /\ Len(log) =< Len(log')
      /\ \A k \in DOMAIN log : /\ log'[k].parts = log[k].parts
                               /\ log'[k].chans \subseteq log[k].chans
  <2>1. /\ log \in Seq(Records) /\ log' \in Seq(Records) /\ Len(log') = Len(log) + Len(rs)
        /\ rs \in Seq(Records)
    BY DEF LogInv, Typed, Shapes, Stored
  <2>2. Len(log) \in Nat /\ Len(rs) \in Nat
    BY <2>1
  <2>3. Len(log) =< Len(log')
    BY <2>1, <2>2
  <2> QED BY <2>1, <2>3 DEF Stored
<1>2. DOMAIN log = 1 .. Len(log) /\ DOMAIN log' = 1 .. Len(log')
      /\ Len(log) \in Nat /\ Len(log') \in Nat /\ DOMAIN log \subseteq DOMAIN log'
  BY <1>1
<1>3. ASSUME NEW t \in Readers PROVE PageOK(t, page[t], log', purged')
  <2>1. PICK p : p = page[t]
    OBVIOUS
  <2>2. PageOK(t, p, log, purged)
    BY <2>1 DEF LogInv, PagesInv
  <2>3. \A k \in ScopeOf(p, log', purged') : k \in DOMAIN log => k \in ScopeOf(p, log, purged)
    BY <1>1 DEF ScopeOf
  <2>4. \A k \in ScopeOf(p, log', purged') : k \in 1 .. Len(log')
    BY <1>2 DEF ScopeOf
  <2>5. p.before \in Nat /\ p.before =< Len(log) /\ p.base \subseteq DOMAIN log
    BY <2>2 DEF PageOK
  <2>6. \A k \in ScopeOf(p, log', purged') : k < p.before => k \in ScopeOf(p, log, purged)
    BY <1>2, <2>3, <2>4, <2>5
  <2>7. \A k \in ScopeOf(p, log', purged') \cap p.base : k \in ScopeOf(p, log, purged)
    BY <2>3, <2>5
  <2>8. p.before =< Len(log') /\ p.base \subseteq DOMAIN log'
    BY <1>1, <1>2, <2>5
  <2>9. Single(p) /\ p.at \in {"lookup", "read"} /\ p.before # 0 =>
         /\ ToSet(p.got) \subseteq p.base
         /\ \A k \in ScopeOf(p, log', purged') : k < p.before => k \in p.base
         /\ \A k \in ScopeOf(p, log', purged') \cap p.base : p.before =< k => k \in ToSet(p.got)
    BY <2>2, <2>6, <2>7 DEF PageOK
  <2>10. Single(p) /\ p.at = "done" =>
         /\ ToSet(p.got) \subseteq p.base
         /\ ScopeOf(p, log', purged') \cap p.base \subseteq ToSet(p.got)
    BY <2>2, <2>7 DEF PageOK
  <2>11. PageOK(t, p, log', purged')
    BY <2>2, <2>8, <2>9, <2>10 DEF PageOK
  <2> QED BY <2>1, <2>11
<1> QED BY <1>1, <1>3 DEF PagesInv
\* A reading starts with nothing read, its limit clamped.
LEMMA ReadStartPages ==
  ASSUME LogInv, NEW t \in Readers, NEW scope, NEW dm \in BOOLEAN,
         NEW n \in 0 .. MaxLimit + 1, ReadStart(t, scope, dm, n)
  PROVE  PageOK(t, page'[t], log, purged) /\ page' = [page EXCEPT ![t] = page'[t]]
<1>1. DOMAIN page = Readers /\ Len(log) \in Nat
  BY DEF LogInv, Typed, Shapes
<1>2. Clamp(n) \in Nat \ {0}
  BY BoundsAssumption DEF Clamp
<1>3. page' = [page EXCEPT ![t] = Reading("lookup", scope, dm, Clamp(n))]
  BY DEF ReadStart
<1>4. page'[t] = Reading("lookup", scope, dm, Clamp(n)) /\ page' = [page EXCEPT ![t] = page'[t]]
  BY <1>1, <1>3
<1>5. <<>> \in Seq(Nat) /\ DOMAIN <<>> = {}
  OBVIOUS
<1> QED BY <1>1, <1>2, <1>4, <1>5 DEF PageOK, Reading

\* A lookup finds the channel of before, or the reading is about several.
LEMMA PageLookupPages ==
  ASSUME LogInv, NEW t \in Readers, PageLookup(t)
  PROVE  PageOK(t, page'[t], log, purged) /\ page' = [page EXCEPT ![t] = page'[t]]
<1>1. DOMAIN page = Readers /\ Len(log) \in Nat
  BY DEF LogInv, Typed, Shapes
<1>2. PICK p : p = page[t]
  OBVIOUS
<1>3. PageOK(t, p, log, purged) /\ p.at = "lookup"
  BY <1>2 DEF LogInv, PagesInv, PageLookup
<1>4. PICK found \in SUBSET Chans : found = {c \in channel_by_name(p.scope) : chan[c].st = "live" \/ t \in Admins}
  BY DEF channel_by_name
<1>5. CASE p.dm
  <2>1. page' = [page EXCEPT ![t] = Turned(p, "read", p.id, p.ids, p.before, p.got, p.base)]
    BY <1>2, <1>5 DEF PageLookup
  <2>2. page'[t] = Turned(p, "read", p.id, p.ids, p.before, p.got, p.base)
    BY <1>1, <2>1
  <2>3. page' = [page EXCEPT ![t] = page'[t]]
    BY <2>1, <2>2
  <2> QED BY <1>3, <1>5, <2>2, <2>3 DEF PageOK, Turned, ScopeOf, Single
<1>6. CASE ~p.dm /\ found = {}
  <2>1. page' = [page EXCEPT ![t] = Turned(p, "error", p.id, p.ids, p.before, p.got, p.base)]
    BY <1>2, <1>4, <1>6 DEF PageLookup
  <2>2. page'[t] = Turned(p, "error", p.id, p.ids, p.before, p.got, p.base)
    BY <1>1, <2>1
  <2>3. page' = [page EXCEPT ![t] = page'[t]]
    BY <2>1, <2>2
  <2> QED BY <1>3, <1>6, <2>2, <2>3 DEF PageOK, Turned
<1>7. CASE ~p.dm /\ found # {}
  <2>1. PICK c \in found : c = CHOOSE x \in found : TRUE
    BY <1>7
  <2>2. page' = [page EXCEPT ![t] = Turned(p, "read", c, p.ids \cup found, p.before, p.got, p.base)]
    BY <1>2, <1>4, <1>7, <2>1 DEF PageLookup
  <2>3. page'[t] = Turned(p, "read", c, p.ids \cup found, p.before, p.got, p.base)
    BY <1>1, <2>2
  <2>4. page' = [page EXCEPT ![t] = page'[t]]
    BY <2>2, <2>3
  <2>5. PICK q : q = page'[t]
    OBVIOUS
  <2>6. /\ q.at = "read" /\ q.dm = p.dm /\ q.limit = p.limit /\ q.id = c
        /\ q.ids = p.ids \cup found /\ q.before = p.before /\ q.got = p.got /\ q.base = p.base
        /\ q.scope = p.scope
    BY <2>3, <2>5 DEF Turned
  <2>7. ASSUME Single(q), q.before # 0
        PROVE  Single(p) /\ q.id = p.id
    BY <1>3, <1>7, <2>1, <2>6, <2>7 DEF Single, PageOK
  <2>8. ASSUME Single(q), q.before # 0
        PROVE  ScopeOf(q, log, purged) = ScopeOf(p, log, purged)
    BY <2>6, <2>7, <2>8 DEF ScopeOf
  <2>9. Single(q) /\ q.before # 0 =>
         /\ ToSet(q.got) \subseteq q.base
         /\ \A k \in ScopeOf(q, log, purged) : k < q.before => k \in q.base
         /\ \A k \in ScopeOf(q, log, purged) \cap q.base : q.before =< k => k \in ToSet(q.got)
    BY <1>3, <2>6, <2>7, <2>8 DEF PageOK
  <2>10. PageOK(t, q, log, purged)
    BY <1>3, <2>1, <2>6, <2>9 DEF PageOK
  <2> QED BY <2>4, <2>5, <2>10
<1> QED BY <1>5, <1>6, <1>7

\* A page continues a reading down to its new cursor, or to the end.
LEMMA PageReadPages ==
  ASSUME LogInv, NEW t \in Readers, PageRead(t)
  PROVE  PageOK(t, page'[t], log, purged) /\ page' = [page EXCEPT ![t] = page'[t]]
<1>1. /\ DOMAIN page = Readers /\ Len(log) \in Nat /\ DOMAIN log = 1 .. Len(log)
      /\ purged \subseteq Nat
  BY DEF LogInv, Typed, Shapes
<1>2. PICK p : p = page[t]
  OBVIOUS
<1>3. PageOK(t, p, log, purged) /\ p.at = "read"
  BY <1>2 DEF LogInv, PagesInv, PageRead
<1>4. PICK S : S = ScopeOf(p, log, purged)
  OBVIOUS
<1>5. S = InScope(t)
  BY <1>2, <1>4 DEF ScopeOf, InScope
<1>6. PICK rows : rows = Page(S, p.before, p.limit)
  OBVIOUS
<1>7. PICK q : q = Turned(p, IF Len(rows) = p.limit THEN "lookup" ELSE "done", p.id, p.ids,
                          IF Len(rows) = p.limit THEN rows[1] ELSE p.before, rows \o p.got,
                          IF p.before = 0 THEN S ELSE p.base)
  OBVIOUS
<1>8. page' = [page EXCEPT ![t] = q]
  BY <1>2, <1>5, <1>6, <1>7 DEF PageRead
<1>9. page'[t] = q /\ page' = [page EXCEPT ![t] = page'[t]]
  <2>1. page'[t] = q
    BY <1>1, <1>8
  <2> QED BY <1>8, <2>1
<1>10. S \subseteq 1 .. Len(log) /\ S \in SUBSET Nat /\ IsFiniteSet(S)
  <2>1. S \subseteq 1 .. Len(log)
    BY <1>1, <1>4 DEF ScopeOf
  <2>2. IsFiniteSet(1 .. Len(log))
    BY <1>1, FS_Interval
  <2>3. S \in SUBSET Nat
    BY <1>1, <2>1
  <2>4. IsFiniteSet(S)
    BY <2>1, <2>2, FS_Subset
  <2> QED BY <2>1, <2>3, <2>4
<1>11. p.before \in Nat /\ p.limit \in Nat \ {0} /\ p.got \in Seq(Nat) /\ Rising(p.got)
       /\ p.before =< Len(log)
  BY <1>3 DEF PageOK, Rising
<1>12. PICK B \in SUBSET S : B = {k \in S : p.before = 0 \/ k < p.before}
  OBVIOUS
<1>13. /\ rows \in Seq(Nat) /\ Rising(rows) /\ ToSet(rows) \subseteq B
       /\ Len(rows) = p.limit =>
            rows[1] \in B /\ \A k \in B : rows[1] =< k => k \in ToSet(rows)
       /\ Len(rows) # p.limit => B \subseteq ToSet(rows)
  <2>1. Newest(rows, Below(S, p.before), p.limit)
    BY <1>6, <1>10, <1>11, PageRows
  <2>2. B = Below(S, p.before)
    BY <1>12 DEF Below
  <2> QED BY <2>1, <2>2 DEF Newest
<1>14. /\ rows \o p.got \in Seq(Nat) /\ Rising(rows \o p.got)
       /\ ToSet(rows \o p.got) = ToSet(rows) \cup ToSet(p.got)
  <2>1. ASSUME NEW x \in ToSet(rows), NEW y \in ToSet(p.got) PROVE x < y
    <3>1. PICK i \in DOMAIN p.got : y = p.got[i]
      BY DEF ToSet
    <3>2. p.before # 0
      BY <1>3, <3>1 DEF PageOK
    <3>3. p.before =< y
      BY <1>3, <3>1, <3>2 DEF PageOK
    <3>4. x < p.before /\ x \in Nat /\ y \in Nat
      <4>1. x \in B
        BY <1>13
      <4>2. x \in S /\ (p.before = 0 \/ x < p.before)
        BY <1>12, <4>1
      <4>3. x \in Nat
        BY <1>10, <4>2
      <4>4. y \in Nat
        BY <1>11, <3>1
      <4> QED BY <3>2, <4>2, <4>3, <4>4
    <3> QED BY <1>11, <3>3, <3>4
  <2> QED BY <1>11, <1>13, <2>1, InFront
<1>15. /\ q.got = rows \o p.got /\ q.limit = p.limit /\ q.ids = p.ids /\ q.id = p.id
       /\ q.dm = p.dm /\ q.scope = p.scope
       /\ q.base = IF p.before = 0 THEN S ELSE p.base
       /\ Len(rows) = p.limit => q.at = "lookup" /\ q.before = rows[1]
       /\ Len(rows) # p.limit => q.at = "done" /\ q.before = p.before
  BY <1>7 DEF Turned
<1>16. ScopeOf(q, log, purged) = S
  BY <1>4, <1>15 DEF ScopeOf
<1>17. q.base \subseteq DOMAIN log /\ q.ids \subseteq Chans
  BY <1>1, <1>3, <1>10, <1>15 DEF PageOK
<1>18. ~q.dm => q.id \in q.ids
  BY <1>3, <1>15 DEF PageOK
<1>19. p.before = 0 => p.got = <<>> /\ ToSet(p.got) = {} /\ B = S
  BY <1>3, <1>12 DEF PageOK, ToSet
<1>20. ASSUME Single(q), p.before # 0
       PROVE  /\ ToSet(p.got) \subseteq p.base
              /\ \A k \in S : k < p.before => k \in p.base
              /\ \A k \in S \cap p.base : p.before =< k => k \in ToSet(p.got)
  BY <1>3, <1>4, <1>15, <1>20 DEF Single, PageOK
<1>21. Single(q) => ToSet(q.got) \subseteq q.base
  BY <1>12, <1>13, <1>14, <1>15, <1>19, <1>20
<1>22. CASE Len(rows) = p.limit
  <2>1. rows[1] \in S /\ rows[1] \in 1 .. Len(log) /\ rows[1] \in Nat /\ rows[1] # 0
    <3>1. rows[1] \in S
      BY <1>12, <1>13, <1>22
    <3>2. rows[1] \in 1 .. Len(log)
      BY <1>10, <3>1
    <3> QED BY <1>1, <3>1, <3>2
  <2>2. p.before # 0 => rows[1] < p.before
    BY <1>12, <1>13, <1>22
  <2>3. ASSUME NEW i \in DOMAIN q.got PROVE q.got[i] >= rows[1]
    <3>1. 1 \in DOMAIN q.got /\ q.got[1] = rows[1]
      BY <1>11, <1>13, <1>15, <1>22
    <3>2. \A j \in DOMAIN q.got : j > 1 => q.got[j] > q.got[1]
      BY <1>14, <1>15, <3>1 DEF Rising
    <3>3. i \in Nat /\ i >= 1 /\ q.got[i] \in Nat
      BY <1>14, <1>15
    <3> QED BY <2>1, <3>1, <3>2, <3>3
  <2>4. ASSUME Single(q), NEW k \in S
        PROVE  /\ k < rows[1] => k \in q.base
               /\ k \in q.base /\ rows[1] =< k => k \in ToSet(q.got)
    <3>1. k \in Nat
      BY <1>10
    <3>2. CASE p.before = 0
      BY <1>13, <1>14, <1>15, <1>19, <1>22, <3>2
    <3>3. CASE p.before # 0
      <4>1. k < rows[1] => k < p.before
        BY <1>11, <2>1, <2>2, <3>1, <3>3
      <4>2. ~(k < p.before) => p.before =< k
        BY <1>11, <3>1
      <4>3. k < p.before /\ rows[1] =< k => k \in ToSet(rows)
        BY <1>12, <1>13, <1>22
      <4> QED BY <1>14, <1>15, <1>20, <2>4, <3>3, <4>1, <4>2, <4>3
    <3> QED BY <3>2, <3>3
  <2>5. q.before \in Nat /\ q.before =< Len(log) /\ q.before # 0 /\ q.at = "lookup"
        /\ q.before = rows[1]
    BY <1>1, <1>15, <1>22, <2>1
  <2>6. PageOK(t, q, log, purged)
    <3>1. \A i \in DOMAIN q.got : q.before =< q.got[i]
      BY <1>14, <1>15, <2>3, <2>5
    <3> QED BY <1>11, <1>14, <1>15, <1>16, <1>17, <1>18, <1>21, <2>4, <2>5, <3>1
            DEF PageOK, Rising
  <2> QED BY <1>9, <2>6
<1>23. CASE Len(rows) # p.limit
  <2>1. ASSUME Single(q), NEW k \in S, k \in q.base
        PROVE  k \in ToSet(q.got)
    <3>1. k \in Nat
      BY <1>10
    <3>2. CASE p.before = 0
      BY <1>13, <1>14, <1>15, <1>19, <1>23, <3>2
    <3>3. CASE p.before # 0
      <4>1. k < p.before => k \in ToSet(rows)
        BY <1>12, <1>13, <1>23
      <4>2. ~(k < p.before) => p.before =< k
        BY <1>11, <3>1
      <4> QED BY <1>14, <1>15, <1>20, <2>1, <3>3, <4>1, <4>2
    <3> QED BY <3>2, <3>3
  <2>2. q.at = "done" /\ q.before = p.before
    BY <1>15, <1>23
  <2>3. PageOK(t, q, log, purged)
    BY <1>11, <1>14, <1>15, <1>16, <1>17, <1>18, <1>21, <2>1, <2>2 DEF PageOK, Rising
  <2> QED BY <1>9, <2>3
<1> QED BY <1>22, <1>23

\* Reading history touches nothing else.
LEMMA ReadersKeep ==
  ASSUME LogInv, NEW t \in Readers,
         \/ \E n \in 0 .. MaxLimit + 1 :
              \/ \E scope \in Scopes : ReadStart(t, scope, FALSE, n)
              \/ \E scope \in Pairs : ReadStart(t, scope, TRUE, n)
         \/ PageLookup(t) \/ PageRead(t)
  PROVE  LogInv'
<1>1. PageOK(t, page'[t], log, purged) /\ page' = [page EXCEPT ![t] = page'[t]]
  BY ReadStartPages, PageLookupPages, PageReadPages
<1>2. UNCHANGED <<subs, log, purged, req, seen, watch, out, due>>
  BY DEF ReadStart, PageLookup, PageRead, tables
<1>3. DOMAIN page = Readers
  BY DEF LogInv, Typed, Shapes
<1>4. DOMAIN page' = Readers /\ \A v \in Readers : v # t => page'[v] = page[v]
  BY <1>1, <1>3
<1>5. PagesInv'
  BY <1>1, <1>2, <1>4 DEF LogInv, PagesInv
<1>6. Typed'
  BY <1>2, <1>4 DEF LogInv, Typed, Shapes
<1>7. SendsInv' /\ CastsInv'
  BY <1>2 DEF LogInv, SendsInv, CastsInv
<1>8. StreamsInv'
  BY <1>2 DEF LogInv, StreamsInv, StreamOK
<1> QED BY <1>5, <1>6, <1>7, <1>8 DEF LogInv
-----------------------------------------------------------------------------
(* The senders' audiences *)

\* More memberships address more principals.
LEMMA AddressedGrows ==
  ASSUME NEW ids, NEW ps, NEW rows, NEW more, rows \subseteq more
  PROVE  Addressed(ids, ps, rows) \subseteq Addressed(ids, ps, more)
BY DEF Addressed

\* A send that is right stays right when it may have met more memberships.
LEMMA SendWidens ==
  ASSUME NEW s, NEW r, NEW w, NEW w2, SendOK(s, r, w),
         w2.always \subseteq w.always, w.ever \subseteq w2.ever
  PROVE  SendOK(s, r, w2)
<1>1. /\ Addressed(r.ids, r.arg, w2.always) \subseteq Addressed(r.ids, r.arg, w.always)
      /\ Addressed(r.ids, r.arg, w.ever) \subseteq Addressed(r.ids, r.arg, w2.ever)
  BY AddressedGrows
<1>2. \A x : Answered(x, r.to, w) => Answered(x, r.to, w2)
  BY DEF Answered
<1> QED BY <1>1, <1>2 DEF SendOK, Between

\* What the other sends may have met stays.
SeenKept(s) == DOMAIN seen' = DOMAIN seen /\ \A u \in Peers : u # s => seen'[u] = seen[u]

\* One request goes on, the memberships stay.
LEMMA OneSend ==
  ASSUME LogInv, NEW s \in Peers, req' = [req EXCEPT ![s] = req'[s]],
         SeenKept(s), subs' = subs,
         SendOK(s, req'[s], seen'[s]), Witnessed(req'[s], seen'[s], subs)
  PROVE  SendsInv'
<1>1. DOMAIN req = Peers /\ DOMAIN seen = Peers
  BY DEF LogInv, Typed, Shapes, SendsInv
<1>2. DOMAIN seen' = Peers /\ \A u \in Peers : u # s => req'[u] = req[u] /\ seen'[u] = seen[u]
  BY <1>1 DEF SeenKept
<1> QED BY <1>2 DEF LogInv, SendsInv

\* A request that ends leaves nothing to be right about.
LEMMA EndedSend ==
  ASSUME NEW s, NEW w
  PROVE  SendOK(s, NoReq, w) /\ \A rows : Witnessed(NoReq, w, rows)
BY DEF SendOK, Witnessed, NoReq, Request, Running

\* A send starts with the memberships of this moment.
LEMMA StartSends ==
  ASSUME LogInv, NEW s \in Senders, NEW x \in Targets, SendStart(s, x[1], x[2])
  PROVE  SendsInv'
<1>1. s \in Peers /\ DOMAIN req = Peers /\ DOMAIN seen = Peers
  BY RolesAssumption DEF LogInv, Typed, Shapes, SendsInv
<1>2. /\ req'[s] = Sending("lookup", x[1], x[2], {}, x[1], {}, "none")
      /\ req' = [req EXCEPT ![s] = req'[s]]
      /\ seen'[s] = [always |-> subs, ever |-> subs]
      /\ SeenKept(s)
      /\ subs' = subs
  BY <1>1 DEF SendStart, SeenKept, tables
<1>3. SendOK(s, req'[s], seen'[s]) /\ Witnessed(req'[s], seen'[s], subs)
  BY <1>2 DEF SendOK, Witnessed, Sending
<1> QED BY <1>1, <1>2, <1>3, OneSend

\* A name that is looked up adds its channel, or ends the send.
LEMMA LookupSends ==
  ASSUME LogInv, NEW s \in Senders, SendLookup(s)
  PROVE  SendsInv'
<1>1. /\ s \in Peers /\ DOMAIN req = Peers /\ DOMAIN seen = Peers
      /\ SendOK(s, req[s], seen[s]) /\ Witnessed(req[s], seen[s], subs)
  BY RolesAssumption DEF LogInv, Typed, Shapes, SendsInv
<1>2. req[s].at = "lookup" /\ subs' = subs
  BY DEF SendLookup, tables
<1>3. PICK n \in req[s].todo :
        LET r == req[s]
            found == {c \in channel_by_name(n) : chan[c].st = "live"} \ r.ids IN
        IF found = {}
        THEN /\ req' = [req EXCEPT ![s] = NoReq]
             /\ seen' = [seen EXCEPT ![s] = NoSend]
        ELSE /\ req' = [req EXCEPT ![s] =
                 Sending("lookup", r.name, r.arg, r.ids \cup found, r.todo \ {n}, {}, "none")]
             /\ UNCHANGED seen
  BY DEF SendLookup
<1>4. PICK found : found = {c \in channel_by_name(n) : chan[c].st = "live"} \ req[s].ids
  OBVIOUS
<1>5. CASE found = {}
  <2>1. req' = [req EXCEPT ![s] = NoReq] /\ seen' = [seen EXCEPT ![s] = NoSend]
    BY <1>3, <1>4, <1>5
  <2>2. req'[s] = NoReq /\ seen'[s] = NoSend /\ SeenKept(s)
    BY <1>1, <2>1 DEF SeenKept
  <2> QED BY <1>1, <1>2, <2>1, <2>2, EndedSend, OneSend
<1>6. CASE found # {}
  <2>1. /\ req' = [req EXCEPT ![s] = Sending("lookup", req[s].name, req[s].arg,
                                        req[s].ids \cup found, req[s].todo \ {n}, {}, "none")]
        /\ seen' = seen
    BY <1>3, <1>4, <1>6
  <2>2. /\ req'[s] = Sending("lookup", req[s].name, req[s].arg,
                             req[s].ids \cup found, req[s].todo \ {n}, {}, "none")
        /\ SeenKept(s)
    BY <1>1, <2>1 DEF SeenKept
  <2>3. SendOK(s, req'[s], seen'[s]) /\ Witnessed(req'[s], seen'[s], subs)
    BY <1>1, <1>2, <1>6, <2>1, <2>2 DEF SendOK, Witnessed, Sending, Running
  <2> QED BY <1>1, <1>2, <2>1, <2>2, <2>3, OneSend
<1> QED BY <1>5, <1>6

\* A send without channels is to its principals; another has all reads to make.
LEMMA LookedUpSends ==
  ASSUME LogInv, NEW s \in Senders, SendLookedUp(s)
  PROVE  SendsInv'
<1>1. /\ s \in Peers /\ DOMAIN req = Peers /\ DOMAIN seen = Peers
      /\ SendOK(s, req[s], seen[s]) /\ Witnessed(req[s], seen[s], subs) /\ RequestTyped(req[s])
  BY RolesAssumption DEF LogInv, Typed, Shapes, SendsInv
<1>2. PICK r : r = req[s]
  OBVIOUS
<1>3. r.at = "lookup" /\ r.todo = {} /\ subs' = subs /\ seen' = seen
      /\ req' = [req EXCEPT ![s] =
           IF r.ids = {} THEN Sending("commit", r.name, r.arg, {}, {}, r.arg, "none")
           ELSE Sending("resolve", r.name, r.arg, r.ids, Reads(r.ids, r.arg), {}, "none")]
  BY <1>2 DEF SendLookedUp, tables
<1>4. SeenKept(s)
  BY <1>1, <1>3 DEF SeenKept
<1>5. Witnessed(r, seen[s], subs) /\ SendOK(s, r, seen[s]) /\ <<r.name, r.arg>> \in Targets
  BY <1>1, <1>2, <1>3 DEF RequestTyped, Running
<1>6. CASE r.ids = {}
  <2>1. req'[s] = Sending("commit", r.name, r.arg, {}, {}, r.arg, "none")
        /\ req' = [req EXCEPT ![s] = req'[s]]
    BY <1>1, <1>3, <1>6
  <2>2. r.name = {}
    BY <1>3, <1>5, <1>6 DEF SendOK
  <2>3. r.arg # {}
    BY <1>5, <2>2, TargetsAssumption
  <2>4. Addressed({}, r.arg, seen[s].always) = r.arg /\ Addressed({}, r.arg, seen[s].ever) = r.arg
    BY DEF Addressed
  <2>5. SendOK(s, req'[s], seen[s])
    BY <2>1, <2>3, <2>4 DEF SendOK, Between, Sending
  <2>6. Witnessed(req'[s], seen[s], subs)
    BY <1>3, <1>5, <2>1 DEF Witnessed, Sending, Running
  <2> QED BY <1>1, <1>3, <1>4, <2>1, <2>5, <2>6, OneSend
<1>7. CASE r.ids # {}
  <2>1. req'[s] = Sending("resolve", r.name, r.arg, r.ids, Reads(r.ids, r.arg), {}, "none")
        /\ req' = [req EXCEPT ![s] = req'[s]]
    BY <1>1, <1>3, <1>7
  <2>2. SendOK(s, req'[s], seen[s])
    BY <1>7, <2>1 DEF SendOK, Sending
  <2>3. Witnessed(req'[s], seen[s], subs)
    BY <1>3, <1>5, <2>1 DEF Witnessed, Sending, Running
  <2> QED BY <1>1, <1>3, <1>4, <2>1, <2>2, <2>3, OneSend
<1> QED BY <1>6, <1>7

\* Each read adds whom it should: those it found were members at that moment,
\* and no member throughout is passed over.
LEMMA ResolveSends ==
  ASSUME LogInv, NEW s \in Senders, SendResolve(s)
  PROVE  SendsInv'
<1>1. /\ s \in Peers /\ DOMAIN req = Peers /\ DOMAIN seen = Peers
      /\ SendOK(s, req[s], seen[s]) /\ Witnessed(req[s], seen[s], subs) /\ RequestTyped(req[s])
  BY RolesAssumption DEF LogInv, Typed, Shapes, SendsInv
<1>2. PICK r : r = req[s]
  OBVIOUS
<1>3. PICK w : w = seen[s]
  OBVIOUS
<1>4. r.at = "resolve" /\ subs' = subs /\ seen' = seen
  BY <1>2 DEF SendResolve, tables
<1>5. /\ <<r.name, r.arg>> \in Targets
      /\ w.always \subseteq subs /\ subs \subseteq w.ever
      /\ r.ids # {} /\ r.to \subseteq Addressed(r.ids, r.arg, w.ever)
      /\ \A x \in Reads(r.ids, r.arg) \ r.todo : Answered(x, r.to, w)
  BY <1>1, <1>2, <1>3, <1>4 DEF SendOK, Witnessed, RequestTyped, Running
<1>6. r.arg \subseteq Peers
  BY <1>5, TargetsAssumption
<1>7. PICK q \in r.todo :
        LET found == SubscribersOf(q[2]) \cap (IF q[1] = None THEN Peers ELSE {q[1]})
            left  == {x \in r.todo : x # q /\ (q[1] # None /\ found # {} => x[1] # q[1])}
        IN  req' = [req EXCEPT ![s] =
              Sending(IF left = {} THEN "commit" ELSE "resolve", r.name, r.arg,
                      r.ids, left, r.to \cup found, "none")]
  BY <1>2 DEF SendResolve
<1>8. PICK found : found = SubscribersOf(q[2]) \cap (IF q[1] = None THEN Peers ELSE {q[1]})
  OBVIOUS
<1>9. PICK left : left = {x \in r.todo : x # q /\ (q[1] # None /\ found # {} => x[1] # q[1])}
  OBVIOUS
<1>10. req' = [req EXCEPT ![s] = Sending(IF left = {} THEN "commit" ELSE "resolve", r.name, r.arg,
                                         r.ids, left, r.to \cup found, "none")]
  BY <1>7, <1>8, <1>9
<1>11. PICK to : to = r.to \cup found
  OBVIOUS
<1>12. PICK r2 : r2 = Sending(IF left = {} THEN "commit" ELSE "resolve", r.name, r.arg,
                              r.ids, left, to, "none")
  OBVIOUS
<1>13. req'[s] = r2 /\ req' = [req EXCEPT ![s] = req'[s]] /\ SeenKept(s)
  BY <1>1, <1>4, <1>10, <1>11, <1>12 DEF SeenKept
<1>14. r.todo \subseteq Reads(r.ids, r.arg)
  BY <1>1, <1>2, <1>4 DEF SendOK
<1>15. q[2] \in r.ids /\ (r.arg = {} => q[1] = None) /\ (r.arg # {} => q[1] \in r.arg /\ q[1] # None)
  BY <1>6, <1>14, PeersAssumption DEF Reads
<1>16. found \subseteq Addressed(r.ids, r.arg, w.ever)
  <2> SUFFICES ASSUME NEW p \in found PROVE p \in Addressed(r.ids, r.arg, w.ever)
    OBVIOUS
  <2>1. p \in Peers /\ <<p, q[2]>> \in w.ever /\ (q[1] # None => p = q[1])
    BY <1>5, <1>8 DEF SubscribersOf
  <2> QED BY <1>5, <1>15, <2>1 DEF Addressed
<1>17. \A x \in Reads(r.ids, r.arg) \ left : Answered(x, to, w)
  <2> SUFFICES ASSUME NEW x \in Reads(r.ids, r.arg), x \notin left, NEW p \in Peers,
                      <<p, x[2]>> \in w.always, x[1] \in {None, p}
               PROVE  p \in to
    BY DEF Answered
  <2>1. CASE x \notin r.todo
    BY <1>5, <1>11, <2>1 DEF Answered
  <2>2. CASE x = q
    BY <1>5, <1>8, <1>11, <2>2 DEF SubscribersOf
  <2>3. CASE x \in r.todo /\ x # q
    <3>1. q[1] # None /\ found # {} /\ x[1] = q[1]
      BY <1>9, <2>3
    <3>2. x[1] = p
      BY <3>1
    <3> QED BY <1>8, <1>11, <3>1, <3>2
  <2> QED BY <2>1, <2>2, <2>3
<1>18. to \subseteq Addressed(r.ids, r.arg, w.ever)
  BY <1>5, <1>11, <1>16
<1>19. ASSUME left = {} PROVE Addressed(r.ids, r.arg, w.always) \subseteq to
  <2> SUFFICES ASSUME NEW p \in Peers, r.arg # {} => p \in r.arg,
                      NEW c \in r.ids, <<p, c>> \in w.always
               PROVE  p \in to
    BY <1>5 DEF Addressed
  <2>1. PICK a : a = IF r.arg = {} THEN None ELSE p
    OBVIOUS
  <2>2. <<a, c>> \in Reads(r.ids, r.arg)
    BY <2>1 DEF Reads
  <2>3. Answered(<<a, c>>, to, w)
    BY <1>17, <1>19, <2>2
  <2> QED BY <2>1, <2>3 DEF Answered
<1>20. SendOK(s, r2, w)
  BY <1>5, <1>12, <1>14, <1>17, <1>18, <1>19, <1>9 DEF SendOK, Between, Sending
<1>21. Witnessed(r2, w, subs)
  BY <1>5 DEF Witnessed
<1> QED BY <1>1, <1>3, <1>4, <1>13, <1>20, <1>21, OneSend

\* The commit takes the sender out and gives the reason.
LEMMA CommitSends ==
  ASSUME LogInv, NEW s \in Senders, SendCommit(s)
  PROVE  SendsInv'
<1>1. /\ s \in Peers /\ DOMAIN req = Peers /\ DOMAIN seen = Peers
      /\ SendOK(s, req[s], seen[s]) /\ Witnessed(req[s], seen[s], subs)
  BY RolesAssumption DEF LogInv, Typed, Shapes, SendsInv
<1>2. PICK r : r = req[s]
  OBVIOUS
<1>3. PICK w : w = seen[s]
  OBVIOUS
<1>4. r.at = "commit" /\ subs' = subs
  BY <1>2 DEF SendCommit
<1>5. /\ Addressed(r.ids, r.arg, w.always) \subseteq r.to
      /\ r.to \subseteq Addressed(r.ids, r.arg, w.ever)
      /\ r.ids = {} => r.to # {}
  BY <1>1, <1>2, <1>3, <1>4 DEF SendOK, Between
<1>6. CASE \A c \in r.ids : Exists(c)
  <2>1. PICK rec : Store(s, Sending("commit", r.name, r.arg, r.ids, {}, Audience(s),
                                    EmptyAudience(r.ids, r.arg, r.to)), <<rec>>)
                   /\ seen' = seen
    BY <1>2, <1>6 DEF SendCommit
  <2>2. PICK cast, rest : req' = [req EXCEPT ![s] =
          Casting(Sending("commit", r.name, r.arg, r.ids, {}, r.to \ {s},
                          EmptyAudience(r.ids, r.arg, r.to)), cast, rest)]
    BY <1>2, <2>1 DEF Store, Audience
  <2>3. /\ req' = [req EXCEPT ![s] = req'[s]]
        /\ req'[s].at = "cast" /\ req'[s].ids = r.ids /\ req'[s].arg = r.arg
        /\ req'[s].to = r.to \ {s} /\ req'[s].why = EmptyAudience(r.ids, r.arg, r.to)
    BY <1>1, <2>2 DEF Casting, Sending
  <2>4. SeenKept(s)
    BY <1>1, <2>1 DEF SeenKept
  <2>5. SendOK(s, req'[s], w)
    BY <1>5, <2>3 DEF SendOK, EmptyAudience
  <2>6. Witnessed(req'[s], w, subs)
    BY <2>3 DEF Witnessed, Running
  <2> QED BY <1>1, <1>3, <1>4, <2>1, <2>3, <2>4, <2>5, <2>6, OneSend
<1>7. CASE ~ \A c \in r.ids : Exists(c)
  <2>1. req' = [req EXCEPT ![s] = NoReq] /\ seen' = [seen EXCEPT ![s] = NoSend]
    BY <1>2, <1>7 DEF SendCommit
  <2>2. req'[s] = NoReq /\ seen'[s] = NoSend /\ SeenKept(s)
    BY <1>1, <2>1 DEF SeenKept
  <2> QED BY <1>1, <1>4, <2>1, <2>2, EndedSend, OneSend
<1> QED BY <1>6, <1>7

\* Broadcasting does not touch the audience.
LEMMA CastSends ==
  ASSUME LogInv, NEW s \in Peers, NEW t \in Watchers, Cast(s, t)
  PROVE  SendsInv'
<1>1. /\ DOMAIN req = Peers /\ DOMAIN seen = Peers
      /\ SendOK(s, req[s], seen[s]) /\ req[s].at = "cast" /\ subs' = subs
  BY DEF LogInv, Typed, Shapes, SendsInv, Cast, tables
<1>2. \/ req' = [req EXCEPT ![s] = NoReq] /\ seen' = [seen EXCEPT ![s] = NoSend]
      \/ /\ \E c, v : req' = [req EXCEPT ![s] = Casting(req[s], c, v)]
         /\ seen' = seen
  BY DEF Cast, Visited
<1>3. CASE req' = [req EXCEPT ![s] = NoReq] /\ seen' = [seen EXCEPT ![s] = NoSend]
  <2>1. req'[s] = NoReq /\ seen'[s] = NoSend /\ SeenKept(s)
    BY <1>1, <1>3 DEF SeenKept
  <2> QED BY <1>1, <1>3, <2>1, EndedSend, OneSend
<1>4. ASSUME NEW c, NEW v, req' = [req EXCEPT ![s] = Casting(req[s], c, v)], seen' = seen
      PROVE  SendsInv'
  <2>1. req'[s] = Casting(req[s], c, v) /\ req' = [req EXCEPT ![s] = req'[s]]
        /\ SeenKept(s)
    BY <1>1, <1>4 DEF SeenKept
  <2>2. SendOK(s, req'[s], seen[s]) /\ Witnessed(req'[s], seen[s], subs)
    BY <1>1, <2>1 DEF SendOK, Witnessed, Casting, Running
  <2> QED BY <1>1, <1>4, <2>1, <2>2, OneSend
<1> QED BY <1>2, <1>3, <1>4

\* Changes of memberships are met by every send that is running.
LEMMA ChangeSends ==
  ASSUME LogInv, NEW s \in Movers,
         \/ \E op \in Changes, n \in Names, arg \in Peers \cup Names \cup {None} :
              ChangeLookup(s, op, n, arg)
         \/ Membership(s) \/ Rename(s) \/ Archive(s) \/ Delete(s)
  PROVE  SendsInv'
<1>1. s \in Peers /\ DOMAIN req = Peers /\ DOMAIN seen = Peers
  BY RolesAssumption DEF LogInv, Typed, Shapes, SendsInv
<1>2. \/ \E op, n, arg, c : op \in Changes /\ req' = [req EXCEPT ![s] = Request("apply", op, c, n, arg)]
      \/ req' = [req EXCEPT ![s] = NoReq]
      \/ \E cast, rest : req' = [req EXCEPT ![s] = Casting(NoReq, cast, rest)]
  <2>1. \A rs : Store(s, NoReq, rs) =>
          \E cast, rest : req' = [req EXCEPT ![s] = Casting(NoReq, cast, rest)]
    BY DEF Store
  <2> QED BY <2>1 DEF ChangeLookup, Membership, Rename, Archive, Delete, Ends
<1>3. /\ req' = [req EXCEPT ![s] = req'[s]]
      /\ req'[s].at \notin Running /\ ~(req'[s].at = "cast" /\ req'[s].op = "send")
  BY <1>1, <1>2 DEF NoReq, Request, Casting, Running
<1>4. \A w, rows : SendOK(s, req'[s], w) /\ Witnessed(req'[s], w, rows)
  BY <1>3 DEF SendOK, Witnessed, Running
<1>5. (subs' = subs /\ seen' = seen) \/ \E now : Subscriptions(now)
  BY DEF ChangeLookup, Membership, Rename, Archive, Delete, tables
<1>6. CASE subs' = subs /\ seen' = seen
  BY <1>1, <1>3, <1>4, <1>6, OneSend DEF SeenKept
<1>7. ASSUME NEW now, Subscriptions(now)
      PROVE  SendsInv'
  <2>1. DOMAIN seen' = Peers /\ subs' = now
    BY <1>7 DEF Subscriptions
  <2>2. ASSUME NEW u \in Peers, u # s
        PROVE  SendOK(u, req'[u], seen'[u]) /\ Witnessed(req'[u], seen'[u], now)
    <3>1. req'[u] = req[u] /\ SendOK(u, req[u], seen[u])
      BY <1>1, <1>3, <2>2 DEF LogInv, SendsInv
    <3>2. CASE req[u].at \in Running
      <4>1. seen'[u] = [always |-> seen[u].always \cap now, ever |-> seen[u].ever \cup now]
        BY <1>7, <3>2 DEF Subscriptions, Running
      <4>2. /\ seen'[u].always \subseteq seen[u].always /\ seen[u].ever \subseteq seen'[u].ever
            /\ seen'[u].always \subseteq now /\ now \subseteq seen'[u].ever
        BY <4>1
      <4> QED BY <3>1, <4>2, SendWidens DEF Witnessed
    <3>3. CASE req[u].at \notin Running
      <4>1. seen'[u] = seen[u]
        BY <1>7, <3>3 DEF Subscriptions, Running
      <4> QED BY <3>1, <3>3, <4>1 DEF Witnessed
    <3> QED BY <3>2, <3>3
  <2> QED BY <1>4, <2>1, <2>2 DEF SendsInv
<1> QED BY <1>5, <1>6, <1>7

-----------------------------------------------------------------------------
(* The theorems *)

\* Every step keeps the invariant.
LEMMA LogStep ==
  ASSUME LogInv, [Next]_vars
  PROVE  LogInv'
<1>1. Typed
  BY DEF LogInv
<1>2. ASSUME NEW s \in Senders,
             \/ \E x \in Targets : SendStart(s, x[1], x[2])
             \/ SendLookup(s) \/ SendLookedUp(s) \/ SendResolve(s) \/ SendCommit(s)
      PROVE  LogInv'
  <2>1. s \in Peers /\ (Quiet(s) \/ \E r, rs : Stored(s, r, rs))
    BY <1>1, <1>2, SendEffects
  <2>2. SendsInv'
    BY <1>2, StartSends, LookupSends, LookedUpSends, ResolveSends, CommitSends
  <2> QED BY <2>1, <2>2, QuietStreams, StoredStreams, StoredPages DEF LogInv
<1>3. ASSUME NEW s \in Movers,
             \/ \E op \in Changes, n \in Names, arg \in Peers \cup Names \cup {None} :
                  ChangeLookup(s, op, n, arg)
             \/ Membership(s) \/ Rename(s) \/ Archive(s) \/ Delete(s)
      PROVE  LogInv'
  <2>1. s \in Peers /\ (Quiet(s) \/ \E rs : Stored(s, NoReq, rs))
    BY <1>1, <1>3, ChangeEffects
  <2>2. SendsInv'
    BY <1>3, ChangeSends
  <2> QED BY <2>1, <2>2, QuietStreams, StoredStreams, StoredPages DEF LogInv
<1>4. ASSUME NEW s \in Peers, NEW t \in Watchers, Cast(s, t)
      PROVE  LogInv'
  BY <1>4, CastStreams, CastSends DEF LogInv
<1>5. ASSUME UNCHANGED vars
      PROVE  LogInv'
  BY <1>5 DEF vars, tables, LogInv, Typed, Shapes, SendsInv, CastsInv, StreamsInv, StreamOK, PagesInv
<1> QED BY <1>2, <1>3, <1>4, <1>5, SetWatchStreams, ReadersKeep DEF Next
\* The requests, streams and readings are as LogInv says, in every behaviour.
THEOREM LogInvariant == Spec => []LogInv
<1>1. Init => LogInv
  BY InitInv
<1>2. LogInv /\ [Next]_vars => LogInv'
  BY LogStep
<1> QED BY <1>1, <1>2, PTL DEF Spec

\* Whoever was addressed throughout a send is a recipient, whoever was not at
\* any time is none: send_message's reads may be interleaved with any number of
\* changes of memberships.
THEOREM LogAudienceJust == Spec => []AudienceJust
<1>1. LogInv => AudienceJust
  BY RolesAssumption DEF LogInv, SendsInv, SendOK, AudienceJust, Answering
<1> QED BY <1>1, LogInvariant, PTL

\* A report gives a reason only when nobody, not even the sender, was met, and
\* gives none only when somebody was: send_message's empty_audience.
THEOREM LogReasonExact == Spec => []ReasonExact
<1>1. LogInv => ReasonExact
  BY RolesAssumption DEF LogInv, SendsInv, SendOK, ReasonExact, Answering
<1> QED BY <1>1, LogInvariant, PTL

\* broadcast's streams: no record reaches a watcher twice, none that was stored
\* under its filter is missing once it has been broadcast, none under its first
\* filter is unwanted.
THEOREM LogWatchExact == Spec => []WatchExact
<1>1. ASSUME LogInv, NEW t \in Watchers
      PROVE  /\ IsInjective(out[t])
             /\ due[t] \cap Broadcast \subseteq ToSet(out[t])
             /\ watch[t].n = 1 => ToSet(out[t]) \subseteq
                  {k \in DOMAIN log : Wants(watch[t].filter, log[k].scope)}
  <2>1. StreamOK(t)
    BY <1>1 DEF LogInv, StreamsInv
  <2>2. First + 1 .. Len(log) \subseteq DOMAIN log
    <3>1. DOMAIN log = 1 .. Len(log) /\ Len(log) \in Nat
      BY <1>1 DEF LogInv, Typed, Shapes
    <3> QED BY <3>1, FirstNat
  <2>3. \A s \in Peers : Owed(req[s], t) \subseteq ToSet(req[s].cast)
    BY DEF Owed, ToSet
  <2>4. due[t] \cap Broadcast \subseteq ToSet(out[t])
    BY <2>1, <2>3 DEF StreamOK, Broadcast
  <2> QED BY <2>1, <2>2, <2>4 DEF StreamOK
<1>2. LogInv => WatchExact
  BY <1>1 DEF WatchExact
<1> QED BY <1>2, LogInvariant, PTL

\* history's cursors: a reader that follows them to the end of one channel, or
\* of its DMs with one principal, has every record that was there when it began
\* and is there still, each once and in order, and none that came later.
THEOREM LogPagesExact == Spec => []PagesExact
<1>1. ASSUME LogInv, NEW t \in Readers, page[t].at = "done", Cardinality(page[t].ids) =< 1
      PROVE  /\ \A i, j \in DOMAIN page[t].got : i < j => page[t].got[i] < page[t].got[j]
             /\ page[t].base \cap InScope(t) \subseteq ToSet(page[t].got)
             /\ ToSet(page[t].got) \subseteq page[t].base
  <2>1. PageOK(t, page[t], log, purged)
    BY <1>1 DEF LogInv, PagesInv
  <2>2. IsFiniteSet(page[t].ids)
    BY <2>1, ChansAssumption, FS_Subset DEF PageOK
  <2>3. Single(page[t])
    <3>1. Cardinality(page[t].ids) \in Nat
      BY <2>2, FS_CardinalityType
    <3>2. Cardinality(page[t].ids) = 0 \/ Cardinality(page[t].ids) = 1
      BY <1>1, <3>1
    <3>3. page[t].ids = {} \/ \E x : page[t].ids = {x}
      BY <2>2, <3>2, FS_EmptySet, FS_Singleton
    <3> QED BY <3>3 DEF Single
  <2>4. InScope(t) = ScopeOf(page[t], log, purged)
    BY DEF InScope, ScopeOf
  <2> QED BY <1>1, <2>1, <2>3, <2>4 DEF PageOK
<1>2. LogInv => PagesExact
  BY <1>1 DEF PagesExact
<1> QED BY <1>2, LogInvariant, PTL
=============================================================================
