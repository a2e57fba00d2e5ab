# AgentWorkplace: a TLA+ verification project

AgentWorkplace is a local message bus for coding agents.  A daemon (the broker)
stores messages in SQLite and pushes them into agent sessions: over a shim on
the session's stdio (Claude Code), or as turns of an app-server thread (Codex).
This project models the parts of it where concurrency, failure and ordering
decide whether the bus is correct, checks them with TLC on small instances and
proves the most important properties with TLAPS for instances of every size.

## Inventory of the system

| Component | State | Operations | Hard behaviour | What makes it correct |
|---|---|---|---|---|
| Broker core (`broker/src/core.rs`, `core/rpc.rs`, acks in `store.rs`) | session registry, claim lock, principals, message and ack rows, delivery tasks | attach, register, deregister, send, detach with sweep, drain of held rows, grace window after a restart | names change hands under running tasks; store faults; restarts | one session per name; no held row without somebody responsible; acks true and monotone |
| Channel administration (`core/rpc.rs`, `store.rs`) | channels, subscriptions, overrides, records, deletion tokens | create, (un)subscribe, force/cancel, rename, archive, guarded deletion, channel side of a send | lookup and transaction are two steps, other requests run between them | human overrides win; no dangling rows; the log tells the truth |
| Connection (`broker/src/server.rs`, `Session` in `core.rs`) | outbound queue with its counter, overflow flag and permit, pending calls | send, call, resolve, writer task, connection loop | many senders, a writer and a loop on atomics; slow readers | bounded queue, no leak, no lost wake-up |
| Codex attach (`adapter-codex/src/attach.rs`, `deliver_via_codex` in `core.rs`) | client cache, thread locks, progress of each delivery | dial, read, steer, start, resume, poll, evict | lost answers at commit points; a human using the same thread | at most one injection; `processed` only for completed turns |
| Claude shim (`shim-claude/src/lib.rs`) | queued and pending calls, the binding, delivery_block | tool calls, reconnect, re-register, deliver | calls and connections end at different times | results are true; the binding survives |
| Codex supervisor (`workplace/src/codex_supervisor.rs`) | child, verdict, counters, backoff | probe, verify, spawn, wait | a foreign process may take the endpoint at any time | one child; debounced starts; recovery |
| History, directory, audience resolution (`core/rpc.rs`, `store.rs`) | none of their own (queries of the log and the subscriptions) | resolve an audience, page backwards, who, status | a send reads memberships one by one while they change; records are stored and deleted between two pages | everybody addressed throughout is a recipient, nobody never addressed is; a report of an empty audience is true; pages are exact |
| Watch streams (`core.rs`, `core/rpc.rs`) | the filter of each session | watch/start, watch/stop, broadcast | the broadcast visits sessions one by one after the transaction, filters and names change under it | no record twice, none missing |
| TUI (`workplace/src/tui.rs`) | pending calls, the pending deletion, the queue of UI events | commands as spawned calls, two-command deletion, shutdown, quit | type-ahead, answers after the timeout, a lost broker | no unintended deletion; every call ends |
| Daemon start and configuration (`main.rs`, `config.rs`) | the admin-token file, the endpoint | lazy start, health check, token creation and reading | several clis start daemons at once, processes die between two steps | one credential; racing starts harm nobody |
| Wire protocol (`protocol/src/lib.rs`) | none | encodings, name grammar | | |

Components interact in these ways.  Every client is a TCP connection with a
*Connection* of its own, whose loop calls the handlers of the broker core one
request at a time.  Handlers of different connections interleave at every lock
and every store call.  A send spawns one task per recipient; a task either calls
the recipient's session (the shim at the other end answers) or runs
`deliver_via_codex` on a cached *Codex attach* client.  The supervisor keeps an
app-server behind that client alive.  `workplace cli` finds a daemon or starts
one, agrees with it on a credential through a file, and then talks to it over a
connection like any other client.  Everything durable is in one SQLite
connection under a mutex, so a store call is atomic.

## Modules

| Module | Models | Granularity |
|---|---|---|
| `Delivery` | registry, sends, delivery tasks, acks, grace window, store faults, restarts | one critical section, store call or spawn |
| `AckLifecycle` | what the acks table promises: a row is posted once and moves held → relayed → processed/failed, never back | one row change |
| `CodexAttach` | `deliver_via_codex`, the client cache, `CodexAttach::deliver` against an app-server | one call with its answer or its loss |
| `Channels` | channel administration; `audit` is what a reader of the system records reconstructs | a lookup or a transaction |
| `Connection` | `handle_connection`, writer task, `Session::send/call/resolve_response` | one atomic access |
| `Shim` | `BrokerLink`, `broker_loop`, `connected_loop`, tool tasks, with the broker reduced to one name | one select arm or call |
| `Supervisor` | `supervise_with`, with the processes at the endpoint | one probe, verification, spawn or timer |
| `Log` | the record log with its readers: audience resolution, storing, broadcast to watchers, paging of history | one store call or one lock of a session's state |
| `Startup` | `lazy_start`, `run_cli`, `run_daemon`, the admin-token file | one file, socket or process operation |
| `Tui` | the terminal client and the broker's side of its commands | one UI event, task step or message |
| `Cli` | `workplace cli` from start to end: `Startup` and `Tui`, joined by the daemon that serves the session | steps of both |
| `MC...` | instances for TLC | |
| `DeliveryProofs`, `AttachProofs`, `ChannelsProofs`, `ConnectionProofs`, `ShimProofs`, `SupervisorProofs`, `LogProofs`, `CliProofs` | theorems about the module of that name; `CliProofs` holds those about `Startup`, `Tui` and `Cli` | |

Each action carries the name of the function it stands for where there is one
(`register` is split into `RegisterClaim`, `RegisterBind`, `RegisterPersist`
and the drain, because other sessions run between these steps).
`PROJECT.json` maps every definition to its lines.  Definitions whose name ends
in `_Something` and whose comment begins with "Mutant" are plausible bugs: each
property has one that breaks it.

### Delivery

`conn`, `bound` and `claimLock` are `Inner.sessions`, `SessionState` and
`Inner.claim_lock`; `h[s]` is the program counter of the handler running for
session `s` (one at a time: server.rs:213-217); `task[t]` is a spawned future;
`known`, `sent` and `ack` are durable and survive `Restart`, everything else is
lost in it.  `handed[m][r]` counts how often the agent behind `r` was given `m`
and exists for the properties only.

Abstractions.  `session/hello`, denied requests and shutdown change no modelled
state.  A snapshot such as `session_of`, which the code takes under one lock, is
one step.  The audience of a send is an input.  Agents report `processed` only
for messages they were given (external).  The order in which a drain or a sweep
visits its rows is arbitrary.  The effect of deleting a channel on pending acks
is not modelled.  A Codex delivery is the outcome of `attach.deliver`;
`CodexAttach` models its inside.

`Lifecycle` is the refinement mapping: `sent` is the abstract `posted` and `ack`
the abstract `row`.  Every step of `Delivery`, restarts and store failures
included, is a step of `AckLifecycle` or leaves both alone.  `delivery_faults`
checks it and `DeliveryProofs` proves it.

### CodexAttach

One thread, the deliveries into it, the clients dialled over time.  The
app-server is external: it runs turns for its human, loads and unloads the
thread, accepts and drops a `turn/start` while a turn runs (attach.rs:348).
Each call either answers or is lost, and a lost call may have taken effect.
A dial holds the lock of the cache until it ends (core.rs:422-439), and nothing
makes it end: the WebSocket handshake has no timeout (attach.rs:91-92).  Every
other call has one.  Timers are untimed: a deadline may pass at any moment.

### Channels

A request is `...Lookup` (name to id, with its checks) followed by the
transaction on the id.  `SendLookup` looks the channels of a message up one by
one.  Ids are never reused (AUTOINCREMENT); the foreign keys of subscriptions,
overrides and record_channels are modelled, `records.channel_ref` has none.
Removing a deletion token is part of the confirm's lookup.  `audit` is what a
reader of the system records knows, kept by channel id: records name their
channel by id as well as by the name of the time, and ids do not move.  `stray`
holds the channels that a record says something about without a mutation: the
code stores such a record when a rename, an archive or a second deletion finds
its channel deleted since the lookup.

### Connection

The writer counts a message off before it writes it, so one message more than
`Limit` may be unread.  A peer may send any line and may stop reading; it
answers only requests it was given.

### Shim

The broker is reduced to the name this session wants: who holds it, and what
this session's requests do.  Requests in transit are lost with the connection.
Registrations are `open` (deliveries go to the session's stdio) or `half` (one of
the two Codex coordinates missing: no push path); a complete Codex registration
gets no message/deliver requests.  Every request, the re-registration included,
may be refused although the name is free (a store error).

### Supervisor

The endpoint has nobody, our child, an orphan (a child let go of), a good server,
one that is ready but refuses the token, one that takes anybody, or one that is
not ready.  A connect that times out counts as absent although somebody may
listen, as in the code.  A verification is two connections: with the token, which
must succeed, and without it, which must fail, for whatever reason; `cut` says
that the server it talks to has gone.  A wait for the child that fails drops the
child without killing it, and so does the end of the daemon (kill_on_drop is
off): the process is then an orphan, alive and perhaps listening.  `live` counts
all processes started and alive, `letgo` those let go of alive, `quiet` absent
probes independently of `absent_reads`; the last two exist for the properties.

### Log

The records table is a sequence, a record's id its index; `purged` holds the ids
of deleted records.  A send is `SendStart`, one `SendLookup` per channel name, one
`SendResolve` per query of the subscriptions, `SendCommit` for the transaction
that stores the record with its ack rows, and one `Cast` per session that the
broadcast visits.  Changes of channels and memberships are a lookup, a
transaction and the same broadcast.  The record of a rename is broadcast under the
new name (rpc.rs:622-626).  An admin may read and watch what others may not:
archived channels and the direct messages of any pair.  `seen` (the memberships throughout, and at
some time during, a send) and `due` (the records stored under a watcher's present
filter) exist for the properties.  Who may make a change is the subject of
`Channels`, what happens to the ack rows that of `Delivery`, the queue of a
watcher that of `Connection`.

### Startup, Tui and Cli

In `Startup` each cli may spawn one daemon, named after it.  The token file is
absent, empty (between `create_new` and the write), or holds the token of the
daemon that wrote it.  `MaxFaults` counts deaths, foreign listeners and waits that
run out, so a state with `faults = 0` is one in which only the race was at work.
`As[c]` is the name a cli registers, `@manager` unless it is told otherwise
(main.rs:42), and `server[c]` the daemon that has it registered.  A name that is
registered there is refused, and the cli ends with the error (rpc.rs:149-160,
tui.rs:189-195); this is no fault.  Names of agents are taken to differ from those
of clis.  A cli that ends is detached in the same step.

In `Tui` a command is an event of the UI queue; a call is a task with an id, in
the pending map from its start to its answer or its timeout.  Commands are
`delete`, `confirm`, `shutdown`, `quit`, `local` (those that only change what is
shown) and `call` (every other one: they differ in what they print).  The broker's
`delete_request` and `delete_confirm` are one step each here; `Channels` has
the lookup and the transaction of a confirmation apart, and no property rules out
a rename between them (below).

`Cli` runs both.  The operator's cli enters its session when `CliDials` succeeds,
and the death or the shutdown of the serving daemon cuts the session.

## Runs

| Run | Instance | Shows |
|---|---|---|
| `delivery_races` | 3 sessions, 2 names, 1 message, 2 tasks; the Claude and the Codex name write to each other, the Codex name registers twice | `UniqueClaim`, `HeldOwned`, `AckTruthful`, `HandoverBound` |
| `delivery_faults` | 2 sessions, 1 task, an admin, a Codex recipient; 1 store failure, 1 restart | `BoundIsKnown`, `HeldResolves`, `AckLifecycleSpec` |
| `attach_safe` | 2 deliveries, 2 clients, 2 turns, fairness | `CommitPoint`, `InjectOnce`, `ProcessedIsReal`, `LockExclusive`, `EndsAfterLeave` |
| `channels_race` | 2 handlers, 1 principal, 2 ids, 2 names, 1 message, 2 tokens | `OverrideWins`, `RowsHaveChannels`, `AuditFaithful`, types |
| `log_stream` | a sender, an admin who changes things, a session that watches or reads; 2 channels, one with the sender as its only subscriber, a pair, 2 new records, 2 changes of the filter, pages of 1 or 2 | `AudienceJust`, `ReasonExact`, `WatchExact`, `PagesExact` |
| `cli_session` | 3 clis, one of them remote and under a name of its own, two that share one, 1 fault; 2 names, 1 channel, 1 rename, up to 3 commands | `TokenAgrees`, `RaceHarmless`, `SomebodyServes`, `DeleteIntended`, `CallsExact`, `EveryCommandAnswered` |
| `connection_queue` | 2 calls, 2 notifications, responses; limit 2 | `QueueBound`, `CountCovers`, `PendingExact`, `AnswerIsOwn`, `OverflowTearsDown` |
| `shim_reconnect` | 3 tool calls, 1 message, 2 connections | `AnswersTrue`, `CarriesBinding`, `Rebinds`, types |
| `supervisor_loop` | debounce 2, 2 doublings, 2 restarts or failed waits | `OneChild`, `DebouncedSpawn`, `AbsentIsServed`, `CompatibleIsAdopted`, types |
| `delivery_v_double`, `attach_v_serial`, `shim_v_silent` | as above, smaller | known divergences, below |

Bounds.  The hazards here take two or three actors: a third session is there so
that one sends while another loses a name to a third.  Two tasks are the send's
and the drain's task for one row.  One message suffices because rows of
different messages do not interact.  In no run does a name come back with the
other client (the Codex name always returns with Codex): the theorems about
`Delivery`, which state the same invariants, cover that case.  Two clients are what a retry after an eviction needs; two
turns let a delivery's `turn/start` be dropped while the human's turn runs.  Two handlers are a request and
the one that runs between its lookup and its transaction.  One queue slot less
than the senders makes the queue overflow.  One restart of the broker is enough
because it forgets everything but the tables; two restarts or failed waits of the
supervisor leave two orphans, so that three of its processes are alive.  Two ids let a name move from one
channel to another.  In `log_stream` the log starts with the records of the
creation and of the memberships, so that there is something to page through; a
session watches or reads, as the two share nothing.  In `cli_session` three
commands are a /delete, a /confirm and one more of either; a command that is no
part of a deletion counts as two (`Weight`), so that it meets one deletion
command.  Commands are entered only where no other cli starts (`CliInit`): the
two halves share nothing but the serving daemon.  Symmetry is used for sets whose
members only occur in the actions uniformly, and never together with fairness.
Deadlock is not checked where clients may simply have no more to do; the
supervisor's loop never stops, and there it is checked.

Fairness.  Handlers never block (server.rs:213-217), tokio runs every ready task
and every timer fires: weak fairness of handler, task, loop and sweep steps.
Strong fairness is assumed where the environment may fail again and again but
not for ever: an app-server is reached (`CodexOutcome`), a broker is reached
(`DialOk`), a process starts (`SpawnOk`), an exited child is noticed by one of
the selects that wait for it (`ChildSeen`), a compatible app-server answers the
probe and the connection of a verification.  A dial of an app-server is not
assumed to end, for the code does not bound it: `EndsAfterLeave` excepts a dial
that hangs for ever, and a verification is assumed to end only if its server goes
or is a compatible one.  `HeldResolves`, in whose module a dial is no step of its
own, assumes with `CodexOutcome` that it ends.  Nothing is assumed of a peer that
reads or writes, nor of the model behind a tool call.  In `Startup` a process that
can run does, in `Tui` the UI loop, the reader and the tasks are polled and the
timer of a call fires; nothing is assumed of the broker they talk to, which is
why calls end by their timeout when it is gone.

## Proofs

| Theorem | Says, for all constants |
|---|---|
| `DeliveryProofs!TypeCorrect`, `RegistryCorrect` | types, and the registry invariant behind `ClaimUnique` |
| `DeliveryProofs!ClaimUnique` | `UniqueClaim` |
| `DeliveryProofs!BindingIsKnown` | `BoundIsKnown` |
| `DeliveryProofs!AckIsTruthful` | `AckTruthful` |
| `DeliveryProofs!RefinesAckLifecycle` | `Delivery` implements `AckLifecycle` |
| `DeliveryProofs!HeldIsOwned` | `HeldOwned`, as long as no store operation has failed |
| `DeliveryProofs!HandoversBounded` | `HandoverBound`, with any number of tasks, registrations, store failures and restarts |
| `AttachProofs!RetriesAreSafe`, `DeliveryInjectsOnce`, `ProcessedMeansCompleted`, `ThreadLockExcludes` | the four invariants of `attach_safe` |
| `ChannelsProofs!HumanWins`, `NoDanglingRows` | `OverrideWins`, `RowsHaveChannels` |
| `ChannelsProofs!AuditIsFaithful`, `ChannelTypes` | `AuditFaithful`, types of `Channels` |
| `ConnectionProofs!QueueIsBounded`, `CounterIsExact`, `PendingIsExact`, `AnswersAreOwn` | the invariants of `connection_queue`, for every limit and number of senders |
| `ShimProofs!ShimAnswersTrue`, `ShimCarriesBinding`, `ShimTyped` | the invariants of `shim_reconnect`, for any number of calls, messages and connections |
| `SupervisorProofs!NeverTwoChildren`, `SpawnIsDebounced`, `SupervisorTypes` | the invariants of `supervisor_loop` |
| `LogProofs!LogAudienceJust`, `LogReasonExact`, `LogWatchExact`, `LogPagesExact` | the invariants of `log_stream`, for any number of sessions, channels and records and every page size |
| `CliProofs!TokensAgree`, `RacesAreHarmless` | `TokenAgrees` and `RaceHarmless` of `Startup`, for any number of racing and dying daemons and any names of the clis |
| `CliProofs!CliHostsSession` | `Cli` implements `Tui`: each of its steps is a step of the session or leaves it alone |
| `CliProofs!SessionCallsExact`, `SessionDeleteIntended`, `CliTokensAgree`, `CliRacesAreHarmless` | the invariants of `cli_session`, in the whole cli |

Assumptions are the named ASSUMEs of the modules: `None` is outside the sets it
marks the absence in, bounds are natural numbers, and the sets whose members are
counted (sessions, tasks, senders of a connection, channels) are finite.  TLC
evaluates them in every run.

Arguments.

* *One holder per name.*  `UniqueClaim` is not inductive: between the check and
  the bind of a registration nothing in the registry shows the claim.
  `RegistryInv` adds that a handler at this point holds `claimLock` and that the
  name it is about to take is not active, so a second handler cannot be at the
  same point.
* *Bindings are persisted.*  `KnownInv` says a bound session's principal is
  known or its handler is still at the step that writes the row or undoes it.
* *Acks are true.*  `AckInv` follows a message from the task to the row: a task
  in a phase after the hand-over has `handed > 0` (`GivenInv`), rows exist only
  for recorded messages (`RowsInv`), and `ack_set` writes only what the task
  knows.  The refinement uses that `ack_set` moves a row along the ranks.
* *No delivery is forgotten.*  `HeldOwned` is not inductive: a Codex task leaves
  when it finds its name in other hands, and the restart sweep passes a row whose
  name is held and never looks at it again.  `OwnedInv` asks for an owner that
  stays: a task whose session still has the name, or whose name nobody has, once
  it will ask for it again; a drain or a detach that is about to act; or the
  restart sweep of a name nobody has.  A new holder brings its own drain, which
  takes over at the moment the old owners stop counting (`RegisterBind`), and a
  holder that goes leaves the sweep of its detach.  `UniqueClaim` is used for the
  name that becomes vacant.
* *Hand-overs.*  `HandoverBound` counts the past only.  `BudgetInv` counts what is
  still to come as well: hand-overs made, tasks that may still make one (requests
  whose caller has given up included) and handlers about to spawn such a task are
  together at most the registrations of the name, and one for the send.  A step
  hands over and ends its task's share, spawns and ends its handler's share, or
  adds a registration or a send with one handler.  Copies of the admin tap have no
  row and no share; `TapInv` says that they go to names without a row.
* *Injection.*  `AttachInv` consists of `LockInv` (the lock of a client has one
  holder, and whoever is inside holds it), `PollInv` (a delivery that polls has
  a turn, which has its text if it was not dropped) and `SteerInv` (a delivery
  about to steer names a turn).  `CommitPoint` is part of it: with nothing given
  before the commit points, each of them gives at most once.
* *Channels.*  `ChannelsInv` relates what a request has looked up to the tables:
  `ReqInv` says an id in hand has been created, which with the transaction's own
  checks (foreign keys, override lookup) is all a transaction relies on; what it
  looked up besides may be stale.
* *Audit.*  `AuditInv` says the reader's knowledge of every channel equals the rows
  about it.  It is inductive together with `RowsHaveChannels`: a new channel has no
  rows its record does not mention, and a stale rename or archive of a deleted
  channel finds neither a row nor a reader's entry to change.  `StrayInv` says that
  strays are about deleted channels: a request that finds no row for an id it has
  looked up is late, because ids in hand have been created (`ReqInv`) and a deleted
  channel does not come back.
* *Connection.*  `QueueInv` adds to `CountCovers` that the counter is at most the
  limit, that the writer holds a message exactly between its receipt and its
  write, and that a writer that has ended has dropped the channel.  `CallInv` adds
  to `PendingExact` that a call that has not begun has no result.
* *Supervisor.*  `SupervisorInv` says the processes alive are the child the loop
  remembers and at most those it has let go of, no child is remembered when one is
  about to be started, and every counted absent probe is recent.
* *One credential.*  `TokenAgrees` alone is not preserved by the write of the
  file.  `WriterAlone` says that a daemon about to write is the only one and that
  the file is empty, so no daemon and no cli has a token yet; `HoldersAgree` says
  that whoever has one has the one in the file.  `Unharmed` says what holds before
  any fault: a listener is a serving daemon, and a cli past its wait has one.
  `Admitted` says that a registration belongs to a cli that is up, and that
  whoever was refused met another cli of its name.
* *Shim.*  `ShimInv` follows a call through the queues: it is queued, on the wire,
  or answered, in one place at most (`QueuedOnce`, `WiredOnce`, `AnsweredOnce`),
  its tool task is as far as that place says (`TasksFit`), and the requests of a
  connection are gone with it (`Connected`).  For the binding, the
  re-registration is handled before anything else is answered (`AgainFirst`), and
  `Converges` says that the last response on its way that changes the binding
  carries the registration the broker has; with none on its way the shim has it.
* *Log.*  A send reads memberships one by one; `SendsInv` says of every read
  already made that what it found lies between the memberships throughout and the
  memberships at some time, and of the broadcasts (`CastsInv`) that every stored
  record is held by at most one of them.  `StreamsInv`: each record due to a
  watcher is with it or owed to it, and never both.  `PagesInv`: above its cursor a
  reader has missed no record of its scope that is still there, and below it lie
  only records that were there when it began, so the next page continues without
  gap or overlap.  That a page is the ascending list of its rows
  is `AscendingLists`: positions are ranks, which are distinct and fill
  `1..Cardinality`, by counting and without an induction.
* *The cli's session.*  `SessionInv` says that ids are fresh, that the pending map
  is the calls that wait (`PendingExact`), that a report is paid for by a deletion
  (`ReportsPaid`) and a deletion by a /delete and a /confirm, counted over the
  UI queue, the tasks, the wire and the broker's tokens (`CommandsPaid`), and that
  nothing is on its way that was not entered (`SpokenOnly`).  It is proved for
  `Tui` and carried to `Cli` by `CliHostsSession`.  `Apart` says that a daemon is
  shut down only where no other cli starts.

Only model-checked: the liveness properties (`HeldResolves`, `EndsAfterLeave`,
`OverflowTearsDown`, `Rebinds`, `AbsentIsServed`, `CompatibleIsAdopted`,
`SomebodyServes`, `EveryCommandAnswered`), which need fairness and are beyond the prover; every
invariant that a passing run checks is also proved.  `HeldOwned` is proved, as it
is checked, without store failures: with one it is false (below).  In
the theorems the bounds of the guards (`MaxClaims`, `MaxFaults`, `MaxRecords` and
the like) are arbitrary naturals.

## Known divergences

Shown by a run (each has a finding in `PROJECT.json`):

* `delivery_v_double`: a registration binds before it drains; a send in between
  hands the message over twice.
* `attach_v_serial`: an unreachable delivery evicts whichever client is cached;
  the next client has locks of its own, and two deliveries run into one thread.
* `shim_v_silent`: a tool call `register` that times out does not set
  `delivery_block`; accepted later, its deliveries are acknowledged and lost.

Seen while modelling, most of them reproducible with a small change of an
instance:

* The sweep of a detached session (core.rs:259-270) does not look whether the
  name has been claimed again, so rows of a present recipient may be failed;
  docs/adapters/session-lifecycle.md:20 ties failure to absence.
* With a store failure in `register_principal` after a stale Codex task has left
  (core.rs:494-498), a held row has no owner until the next registration or
  restart: `HeldOwned` fails in `delivery_races` with
  `FaultyOps = {"register_principal"}` and `MaxFaults = 1`.
* A subscription or an override looked up before an archive writes its row on the
  archived channel (the state is read at rpc.rs:404, 586 and 616, before the
  transaction), against docs/architecture/rpc-surface.md:74 and ADR-0018:19.
* A rename or an archive of a channel deleted since its lookup changes no row but
  stores its record, against the "(and vice versa)" of store.rs:11-13; two confirmations of one channel store two tombstones; a
  rename between the check and the transaction of `delete_confirm` lets a channel
  go under a name that is no longer the one typed.
* A message to a channel whose only subscriber is the sender reaches nobody and
  gives no reason: the test for an empty audience comes before the sender is taken
  out (rpc.rs:279).  message-model.md:108 promises a "zero-recipient reason".
  `ReasonExact` states the two cases apart; `log_stream` has such a channel.
* The shim says "the message was not sent" (lib.rs:211) also for calls the broker
  carried out and whose answer was late or lost.
* A re-registration can be denied, though docs/adapters/session-lifecycle.md:24
  says it "cannot be denied": another session may claim the name after a restart
  of the broker, the broker may not have noticed yet that the shim's previous
  connection is gone, or the store may fail.  The shim does not try again while it
  stays connected.  `Rebinds` is about re-registrations that are not denied; with
  `[]~denied` taken out of it the run fails.
* A registration or a deregistration that is unanswered when the connection is
  lost may have been carried out; the shim goes on with the older binding and
  re-asserts it.
* The same line says that the TUI reconnects and re-registers; tui.rs:295 tells
  the operator to quit and start again.
* The WebSocket handshake with an app-server has no timeout (attach.rs:91-92).  In
  the broker it runs under the lock of the client cache (core.rs:422, 439), so one
  app-server that accepts the connection and is silent stops every Codex delivery,
  also those whose session has left; in the supervisor it stops the loop, and an
  exit of the child goes unnoticed.
* A failed wait for the child (codex_supervisor.rs:244-249) or a restart of the
  daemon leaves the process running; if it has not taken the endpoint by the time
  the debounce is over, a second one is started beside it.
* The backoff of a child that keeps crashing is reset by the uptime of whichever
  server was verified at the endpoint meanwhile (codex_supervisor.rs:249).
* A server swapped in between two probes inherits the verdict of the verified
  one (codex_supervisor.rs:145); daemon.md:89 says an endpoint that does not
  enforce the token is rejected.
* Watchers may get records in another order than the log has them, an ack event
  before the record it is about, and none of a channel's events after a rename if
  they watch the old name, not even the record of the rename, which goes to the
  watchers of the new name; tombstones have no channel and reach only unfiltered
  watchers.  History read by name mixes two channels if the name moves between
  two pages.
* The TUI acknowledges deliveries that arrive between its registration and its
  watch/start without showing them.  Its "broker connection lost" branch does not
  drain the pending map, so calls end by the timeout; a confirmation that timed
  out may still delete; spawned calls may reach the broker in another order than
  they were entered.
* A daemon that loses the race for the endpoint has opened the store by then,
  against the single writer of store.rs:4 and ADR-0017:24.  A crash between the
  creation and the write of the token file leaves it empty, and every later daemon
  aborts until somebody removes it.
* Every cli registers as `@manager` by default, so a second cli beside a running
  one ends with a refusal unless it is given a name (main.rs:42, rpc.rs:149-160).
* send, status, history and who print nothing at all for a result that does not
  parse (tui.rs:717, 751, 769, 818).  The scroll offset of the TUI is 16 bits wide
  and saturates at 65535 rows (tui.rs:1004).

## Not modelled

* Parsing of commands and arguments, completion, formatting, wrapping and drawing
  in the TUI: layout, without state that a property is about.  Its reader's arms
  for watch events and admin-tap deliveries print a line or acknowledge by
  themselves.
* `directory/who`, `message/status` and `daemon/status`: single reads of tables
  that other modules keep.
* The broadcast of ack events, which uses the loop of `Cast`, and the records of
  sessions (registered, disconnected) in the log.
* What the deletion of a channel does to pending acknowledgments.
* Configuration files and the command line: sequential parsing.
* The wire protocol: message types and encodings.
* The shim's MCP handshake over stdio, which answers each line by itself.

The hazards in `PROJECT.json` without a property say why.

## Plan

1. Done: `Delivery` with `AckLifecycle`, `CodexAttach`, `Channels`,
   `Connection`, `Shim`, `Supervisor`, `Log`, `Startup`, `Tui` and `Cli`; every
   invariant of the runs is proved.
2. Next proofs: that a `Delivery` task sees of `CodexAttach` what its actions
   `CodexInject`, `CodexUnreachable`, `CodexFailed` and `CodexProcessed` say; the
   safety parts behind the liveness properties (what may disable a step that
   they rely on).
3. Later modules: a composition of `Delivery` with `CodexAttach`, in which these
   actions are steps of the engine; deletion of channels with pending
   acknowledgments; session records in `Log`.
