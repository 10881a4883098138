# Formal models of SysLens

SysLens collects system metrics.  An **agent** on every node samples the machine and reports to an
**aggregator**, which keeps the latest sample per node and forwards it to the **control plane**, where samples
are stored and nodes are registered and configured.  This directory holds TLA+ models of the three programs,
the TLC runs that check them and the TLAPS proofs about them. Paths below are relative to the repository.

## Inventory

| part | state | operations | hard behaviour |
|---|---|---|---|
| connection table, `internal/aggregator/server.go` | `connections.nodes`, a map behind one RWMutex | heartbeat, register, metrics contact, eviction ticker | a heartbeat takes the lock twice; a registration asks the control plane before it takes the lock; eviction interleaves with both |
| data processor, `internal/aggregator/processor.go` | latest sample per node behind one RWMutex | `ProcessMetrics`, batch on a ticker, forward node by node | the batch works on a copy; forwards fail, time out or are executed late |
| control plane client, `internal/aggregator/client.go` | none | `ValidateNode` (others have no caller) | the call lasts up to 10 s, its answer is used without a lock |
| aggregator lifecycle, `server.go:254-344`, `cmd/aggregator/main.go` | context, wait groups | `Start`, `Shutdown` | a signal in the middle of `Start`; cancellation before the HTTP server is drained; a join without a timeout |
| agent start-up, `cmd/agent/main.go:33-376`, `:485` | settings, `registrationSuccessful` | flags, file, defaults; registration attempts | three places supply defaults; attempts given up may still be executed |
| agent loop, `cmd/agent/main.go:212-482` | ticker goroutine, files of failed reports | collect, report, save | one goroutine; a file is named by a second, the ticker fires twice a second |
| HTTP reporter, `internal/agent/reporter` | none between calls | `Report`: `retry_count`+1 attempts with a timeout each | a timed-out attempt may have been, or may yet be, executed |
| collectors, `internal/agent/collector` | last network totals | `Collect` | nine or more goroutines fill in one value; rates are differences of unsigned totals |
| payload coding, `internal/common/utils` | keys | compress, encrypt and back | settings of the two ends differ |
| node table, `internal/server/api/gin_handlers.go`, `repository/node_repository.go` | table `nodes` in PostgreSQL | register, validate, configure, read configuration and token | several SQL statements per request, no transaction around them |
| memory store, `internal/server/storage/memory.go` | entries per node behind one RWMutex | store, query by time range | bound on entries; the range is computed before the lock |
| InfluxDB store, `storage/influxdb.go` | asynchronous writer | store, query | one error channel for all requests; a goroutine left behind by each |
| migration, `storage/migration.go`, `cmd/server/main.go` | `schema_migrations`, tables | check, execute, record | a crash in between; two processes on one database |
| groups, services, rules, notifications, users, `internal/server/repository` | tables | create, update from a copy, delete, clean up | deletions of two statements in a transaction, next to inserts and write-backs |
| old server, `internal/server/server.go` | WebSocket hub | - | never constructed: dead code |
| stub handlers, `gin_handlers.go:560-993` | none | fixed answers | - |

The parts interact by HTTP calls with timeouts: agent to aggregator (`/nodes/{id}/metrics`, register),
aggregator to control plane (forward, validate), operators to control plane.  Inside each program request
goroutines share one locked map or the database, and a ticker goroutine works on the same data.

What makes each part correct:

- connection table: only confirmed nodes are verified; a node that was just answered is there; verification
  lasts until eviction; vanished nodes go away.
- pipeline: every sample is accepted or saved, never both; what is accepted is cached and, unless something
  newer takes its place, stored; without lost answers nothing goes back in time; other nodes' failures do not
  matter.
- lifecycle: a shutdown answers what it admitted, forwards nothing more, leaves no goroutine behind when it
  says so, and returns.
- agent: it comes to collecting whatever becomes of its registration; an aggregator that refused or never
  answered is not taken for one that accepted; a value handed out is complete and final; rates add up to the
  traffic; a report saved after a retry stays saved.
- node table: the token handed out works for good; what one request wrote is there until another request
  writes that column (it is not: see Findings); a node gets its own configuration.
- stores: exactly the newest entries, and no query misses what was stored before it; the goroutines that
  writes to InfluxDB leave behind are few, and one failed write does not stop the later ones.
- migration: a start that reports success left every table there; an interrupted one is completed.
- repositories: one of two deletions succeeds; a failed one leaves everything as it was; nothing refers to
  what is gone; old copies bring nothing back.

## Modules

| module | models | checked by | proofs |
|---|---|---|---|
| `NodeLeases` | abstract: atomic leases with an age | through refinement | - |
| `AggregatorRegistry` | connection table and its handlers | `MCAggregatorRegistry` | `AggregatorRegistryProofs` |
| `MetricsPipeline` | agent loop, reporter, data processor, store's latest value | `MCMetricsPipeline` | `MetricsPipelineProofs` |
| `AggregatorLifecycle` | `Start` and `Shutdown` with all they start and stop | `MCAggregatorLifecycle` | `AggregatorLifecycleProofs` |
| `AgentStartup` | settings and registration of the agent | through `Agent` | `AgentProofs` |
| `ParallelCollector` | one collection after the other | through `Agent` | `AgentProofs` |
| `Agent` | composes the two: the agent's process | `MCAgent` | `AgentProofs` |
| `FailedReports` | clock, ticker, pauses and files of the agent's loop | through `NetworkRates` | `NetworkRatesProofs` |
| `NetworkRates` | extends it by the interface counters and their rates | `MCNetworkRates` | `NetworkRatesProofs` |
| `MemoryStorage` | bounded store and range queries | through `MetricsStore` | `MetricsStoreProofs` |
| `InfluxErrors` | concurrent writes to InfluxDB and their errors | through `MetricsStore` | `MetricsStoreProofs` |
| `MetricsStore` | composes the two: the store `main` chooses | `MCMetricsStore` | `MetricsStoreProofs` |
| `NodeHandlers` | the variables the next two share | through both | - |
| `NodeTable` | registration, validation and configuration handlers over the table | `MCNodeTable` (3 configurations) | `NodeTableProofs` |
| `NodeContacts` | rows found by token, `last_active_at` | `MCNodeContacts` | `NodeTableProofs` |
| `Repositories` | owners and the rows that refer to them, transactions | `MCRepositories` | `DatabaseProofs` |
| `Migration` | connect, check, migrate | `MCMigration` | `DatabaseProofs` |

The definitions whose comment calls them *plausible slips* are not part of any `Next`.  Each is a changed copy
of the definition below it, and replacing that definition by it breaks a property: `mutants` in `PROJECT.json`
says which.

**AggregatorRegistry.**  One action per critical section.  `pc[h]` is where the handler on goroutine `h`
stands: `admitted` (past `authMiddleware`, which only looks up), `missed` (a heartbeat that found no entry and
is about to take the lock again), `validated` (a registration with the control plane's positive answer),
`done` (about to answer 200).  Times are ages capped one past the timeout, all that `now - LastActive >
timeout` can tell apart.  `validated` and `served` are history variables. A refused and a failed validation
are one action, the handler treats them alike.

**MetricsPipeline.**  A sample is the number of its collection.  `Collect`, `Send`, `PrepareFails`,
`ReceiveOk`, `ReceiveRefusal`, `GiveUp` are the agent; `HandleReport`, `RefuseReport` the aggregator's
handler; `TakeSnapshot`, `NextNode`, `Forward*` the processor goroutine; `StoreLate` the control plane's
handler on a request its sender gave up on.  Timeouts may strike at any moment of a call.  A request that was
given up on stays in `requests` or `late`, to be executed at any later time or lost.  Equal requests given up
on (the same sample forwarded twice) are one element of `late`.  `gaveUp` and `unsure` remember the nodes for
which an answer was missed, and most ordering properties are conditional on them: with a late execution the
cache takes whatever comes last, so without the condition they are false, in the model and in the code.
`saved` is the call of `saveFailedReportData`; what becomes of the file is in `FailedReports`.

**AggregatorLifecycle.**  `starter` and `stopper` are the statements `Start` and `Shutdown` are at, on two
goroutines.  The HTTP server, its handlers, the loop with its batch and the eviction goroutine are kept as far
as they start, stop and wait for one another; which sample is forwarded is in `MetricsPipeline`. `Forward`
asks `~cancelled` because the request's context is a child of `p.ctx`.  A request under way when the context
is cancelled may still be executed (`late`).

**Agent.**  `Configure` is `main` up to the registration, with every combination of what flags and file give:
a file that cannot be loaded gives nothing and skips `ensureDefaultConfig`; `-debug` neither registers nor
reports; and without any interval `time.NewTicker` panics, once the registration is through
(`StartCollecting`).  An attempt ends by an answer or is given up; the aggregator's handler and its call of
the control plane go on beside the agent, also after it has begun to collect.  `Collect` starts four
goroutines, two of which start more; `counted` is what the wait groups wait for.  Of a part's fields those are
kept that a total is computed from or that say whether it succeeded.

**FailedReports, NetworkRates.**  These keep time, in `Second` units to the second, because file names and
rates depend on it.  The rest of the loop is that of `MetricsPipeline`, with one outcome per attempt; a sample
that cannot be prepared is saved without an attempt (`PrepareFails`), and `retried` remembers the samples that
were saved after a retry.  `os.WriteFile` is two steps, so that a signal may leave a truncated file.
`NetworkRates` adds the counters, which run on, restart and disappear while nobody looks, and
`lastNetworkStats`, which keeps its time only with a successful reading.  `run` is the history of what was
reported and what was sent.

**MetricsStore.**  `main` chooses once between the two stores.  In memory, `StoreMetrics` is one critical
section; a query fixes its range (`QueryRecent` is the default hour, `QueryRange` any given range) in one step
and reads in another; the history `log` holds every entry ever stored.  `InfluxErrors` keeps who has points in
the shared write buffer, which batch the library's writer is at, whose goroutine took which error and what
each call answered.  The client library is external: a flush hands over what is buffered as one batch and
returns when the library's writer is done with it; a failed batch offers its error on a channel, if anybody
has asked for that channel before, or the error is skipped.  Whether the writer then waits until somebody took
the error, or leaves it in the channel and goes on, this repository does not show, so `writerWaits` is either:
a writer that waits holds up every call that flushes.

**NodeTable, NodeContacts.**  One action per SQL statement.  `NodeHandlers` declares what both are about, the
table and where each handler is; they are two specifications, of different columns.  Definitions of
`NodeContacts`, and of `Migration`, that would have the name of another module's have a name of their own
(`ContactsInit`, `MigrationNext`), since one module of proofs extends both.  A row keeps the columns that tell
the writers apart: in `NodeTable` the credential (hash and encrypted token are always written together), name,
group and configuration; in `NodeContacts` the token and `last_active_at`, whose value is taken by `time.Now`
in a step before the statement is sent.  `labels`, `service_id` and `description` behave like the group,
`type` is never changed, and `status` is set once (`UpdateStatus` has no caller).  Hashing a token and
comparing it are equality of tokens.  `FindByToken` takes the first row in the order of the names, which are
the operators' choice, so any matching row.  `intended` is the history of what the table would hold had each
request changed only the columns it names, and `overlapped` the nodes somebody wrote between a registration's
read and write.

**Repositories.**  Rules, users, groups and services are *owners*, each of any of the four tables;
notifications, sessions and nodes are *rows* that refer to owners by foreign keys.  A deletion is a
transaction of two statements; what it did is visible at its commit (READ COMMITTED), what it has written is
locked until then (`Locks`): the rows of the first statement, and after the second, which deletes the owner,
also every row that refers to the owner by then, since the foreign key's action writes them. `Remaining` says
what the transaction and the foreign key's action (CASCADE for sessions, SET NULL for the others) leave.
Callers read a row, change the copy and write it back, over a row that may have changed.  Most of these
methods have no caller in the running program yet; the model takes callers that use them as their comments
say.

**Migration.**  Each statement is an action of one of several server processes on one database; `Crash` may
come between any two, `Fail` is a statement that errs.  A table check that errs (`CheckFails`) is to `main`
the same as a missing table: a process that migrates goes on to do so.  A start that failed serves on without
its tables, until somebody restarts it.

## Runs

| run | instance | distinct states | shows |
|---|---|---|---|
| `registry` | 2 nodes, 2 handlers, timeout 1 | 670 thousand | verification, presence, the refinement of `NodeLeases`; idle nodes are evicted |
| `pipeline` | 2 agents: one retries once and collects twice, one collects once; 1 late forward | 395 thousand | ordering, accounting; accepted samples arrive next to a node whose forwards may fail for ever |
| `lifecycle` | 2 nodes, 2 handlers, 2 samples each | 95 thousand | a shutdown at any moment drains, joins, forwards nothing new and returns |
| `agent` | 2 mount points, 2 attempts, every configuration | 748 thousand | the agent keeps collecting, success means verified, values handed out are final |
| `agent_loop` | 1 watched and 1 other interface, half seconds, clock to 4, 1 retry | 5.2 million | speeds add up to the traffic; a sample saved after a retry stays in its file |
| `metrics_store` | 2 nodes, 1 reader, bound 2, clock to 2, 3 entries per node; 4 calls of InfluxDB's store | 400 thousand | newest entries kept, answers complete; few goroutines stuck, the writer heard until all are |
| `node_table` | 1 node, 3 handlers, 2 tokens, 2 names | 777 thousand | handed-out tokens and undisturbed writes |
| `contacts` | 2 nodes, 2 tokens, 2 handlers, clock to 2 | 512 thousand | contacts that nothing raced stay; own tokens give the own configuration |
| `repositories` | 2 owners of any tables, 2 rows, 2 callers, clock to 1 | 165 thousand | deletions, references, copies written back |
| `migration` | 3 processes, 2 of which migrate, 2 faults | 220 thousand | success is complete, and comes |
| `node_table_config` | 1 node, 2 handlers | - | counterexample: `ConfigurationKept` |
| `node_table_validate` | 1 node, 2 handlers | - | counterexample: `MatchingTokenIsAccepted` |

The runs check what the parts promise.  Type invariants and strengthenings that a theorem establishes for all
instances are not checked again, but where the proofs of a composed module rest on them the type invariant is
part of the run.

Bounds, and why they are enough.

- *Registry*: handlers of different nodes share nothing but the lock, so races need two handlers on one node;
  the second node shows that others are untouched.  A timeout of 1 has an age below, at and above it.
- *Pipeline*: one retry gives two attempts of one sample in flight, two samples (`MaxSamples`) an older and a
  newer one; one forward given up on (`MaxLate`) can arrive after a newer one.  The second node only has to be
  in the same batches, so its agent does less.  The proofs cover any number of each.
- *Lifecycle*: two nodes, so that a batch can be cancelled between two forwards; two handlers, so that one is
  drained while another is not.
- *Agent*: `Seconds` and `Retries` hold "left out" and "given"; two mount points, so that one may fail and the
  other not, or one hang (only `root` is in `Responsive`); two attempts, so that one is the last and one is
  not.
- *Agent loop*: half seconds tell apart two collections in one second, the default interval being half a
  second; the clock reaches two seconds, past a retry.  `Modulus` 16 with counters up to 2 (`MaxBytes`) has
  the shape of 2^64: differences that wrap are far larger than any that do not.
- *Stores*: `MaxStores` is one more than the bound, so that entries are dropped; the clock passes the window
  (1). Four calls, so that the goroutine of one can take the errors of two others' batches and the fourth's
  finds nobody: then the writer does hang, and the run reaches it.  Calls are interchangeable.
- *Node table*: rows are independent, so one node; three handlers are two registrations and a configuration.
  *Contacts*: two handlers of one node can overtake each other, two nodes can share a token or not.
- *Repositories*: two callers can delete the same owner, or one write back while the other deletes; two rows,
  so that an old and a new one refer to it; symmetry makes owners, rows, callers and contents interchangeable,
  which no definition distinguishes.
- *Migration*: two processes race and a third only checks; two faults, so that the recovery from one may fail.

Deadlock is checked except where the system stops: in `metrics_store` the calls end, or hang as described
under Findings; in `agent` a panic ends the process; in `agent_loop` the agent is stopped by a signal, in
`lifecycle` the aggregator is.

**Fairness.**  Each assumption is on what the code or its surroundings do by themselves:

- `registry`: time passes and the eviction ticker (`server.go:350`) fires; nothing of the clients.
- `pipeline`: the batch ticker fires and the loop moves on, which the 5-second timeout of every forward
  (`processor.go:193`) guarantees; and strong fairness of successful forwards of the nodes in `Reliable`: a
  control plane that is asked again and again answers some time.  Forwards of other nodes may all fail.
  Agents, the network and executions of late requests have no fairness.
- `lifecycle`: goroutines are scheduled and timeouts strike.  `LoopEnds` is strongly fair: with a tick and the
  cancellation both ready Go's `select` chooses at random, so it takes the cancellation some time.  Handlers
  have none: they may never end.
- `agent`: `main`'s goroutine runs and its timeouts strike, the ticker fires, readings return with a result or
  an error; but `disk.Usage` (`parallel.go:167`) has no timeout, so only those of `Responsive` mount points
  do. The aggregator and the network have no fairness.
- `migration`: processes run, and an operator restarts one whose start failed.  Faults are bounded.

## Proofs

Proved by TLAPS for every value of the constants, from the named assumptions in the modules: a positive
timeout (`RegistryAssumption`, as `internal/config/aggregator_config.go` enforces), sets and bounds of their
types, and that names like `None`, or the ids of owners and of rows, differ from one another.  The bounds
(`MaxSamples`, `MaxStores`, `MaxFaults`, ...) are arbitrary naturals there.  `ReportsAssumption` has a pause
of at least a second between attempts: `WithRetryInterval` keeps the reporter's own second in place of
anything that is not positive, and a file gives whole seconds.  One theorem needs more, and says so:
`SpeedsFit`, below.

Every safety property of the passing runs, invariant or of steps, is stated by a theorem.

- `AggregatorRegistryProofs`: the inductive invariant is `TypeOK`, `VerifiedWasValidated`, `ServedIsConnected`
  and `HandlersRely`.  The last is needed because a validated registration and a handler about to answer act
  on what they saw earlier: the history covers the first; for the second, the entry is at least as young as
  the request, so no eviction can have removed it.  From it follow `VerifiedUntilEvicted` and the refinement:
  every critical section maps to one lease operation or to a stutter.
- `MetricsPipelineProofs`: the invariant is `TypeOK`, `PipelineOrdered`, `AckedIsCached` and `AccountedFor`.
  `PipelineOrdered` carries the argument: an undisturbed agent has at most the one request under way it waits
  for, thus the cache never goes back; the running batch is a copy of an earlier cache, the store an earlier
  batch. `StoreNeverGoesBack` is proved of each step from it.
- `AggregatorLifecycleProofs`: the invariant says that the wait groups count the goroutines that run
  (`Counted`), that a batch is left over only while the loop is in it, and what `Shutdown` has done before the
  statement it is at (`Stopped`).  So a join that succeeds, after a `Start` that was through, leaves nothing
  behind, and since forwards are children of the cancelled context `NothingNewSent` holds of every step.
- `AgentProofs`: of the collector (`CollectInv`), goroutines of mount points and of the network run only while
  their parent, itself counted, waits for them (`Nested`), so nothing runs once `Collect` returned.  Of the
  start-up, a success is only ever received from an attempt that was answered so, and such an answer is given
  after the control plane confirmed the node.  The agent's process is then shown to implement both parts
  (`ImplementsCollector`, `ImplementsStartup`): each of its steps is a step of one and a stutter of the other,
  so what holds of the parts holds of it.
- `MetricsStoreProofs`: `KeepsNewest` is preserved by appending and trimming, by lemmas on `Append` and
  `SubSeq`.  For `AnswersAreComplete`, `InRange` is characterised: what the loop over the entries has found
  after *k* of them is, in order, those of the first *k* that lie in the range.  No induction theorem of the
  library can be used, so the lemma takes the least *k* at which the claim fails, as a minimum of a finite
  set, and refutes it.  `QueryInv` then relates a query under way to the history, which only grows.  Of the
  InfluxDB store, `InfluxInv` says where an error can be (`ErrorsInPlace`) and that the places are finitely
  many (`FewMarked`), for any set of calls; each step moves one error from one place to another, so the sum of
  the cardinalities keeps to `failed` (`Accounted`), and each stuck goroutine accounts for two places, which
  gives `StuckTookTwo`; when nobody will take the writer's error, the goroutines of all calls that answered
  are stuck, and that error is one more, which gives `UnheardComesLate`.  The composed store implements either
  part, whichever `main` chose.
- `NetworkRatesProofs`: what keeps file names apart is not the name but the pause before a retry.  A sample
  that was tried again is saved at least a second after it was collected (`Behind`), so whatever is collected
  later, and saved with or without a retry, has the name of a later second, whatever the interval
  (`RetriedBehind`). Nothing is assumed of the number of retries; that there is one whenever an aggregator is
  used is `SettingsAreSensible`.  The loop with its counters implements the reports without them, which
  carries the result over.  `SpeedsAddUp` is inductive with `RatesInv`: the readings kept are those of the
  last time a reading succeeded (`ReadingsCurrent`), and the counters of an interface that did not restart
  have only grown since (`CountersRunOn`).  Its hypothesis `SpeedsFit` says that what an interface counts in a
  run, times a second's units, is below 2^64: the code converts to a rate within that width.
- `NodeTableProofs`: the invariant adds `CopiesCarryCredential`: a copy, however old, has the current
  credential, so writing the whole row back cannot change it.  This holds because no statement ever changes
  the credential and the primary key refuses a second insert.  For the contacts, `ContactsInv` says of each
  handler whom it serves (`KnowsNode`), that the row it works on is there and has the token it was asked with
  (`WorksOnRow`), and that a time it holds was taken after the last settled contact of that row
  (`StampIsLater`): a contact settles only when nobody else is under way to the row, which is what makes the
  last one inductive.  `OwnConfiguration` follows from tokens alone (`ServedByToken`): asker and served row
  share one.
- `DatabaseProofs`, repositories: the invariant is about locks.  No two transactions have written the same row
  (`LocksApart`), what one has written still refers to its owner (`LockedRefer`), and no two delete one owner
  (`OwnersApart`).  Hence the second of two deletions finds no row (`DeletedOnce`), a commit removes or
  releases exactly what refers to the owner (`ReferencesExist`, `LeaveForAReason`), and whatever notification
  the transaction has not written came after its first statement (`OthersLate`, which gives `OrphansAreLate`).
- `DatabaseProofs`, migration: tables never go, so what a process has seen or executed stays (`Established`):
  at migration *i* all earlier ones are recorded, whoever recorded them, whether it came there because a table
  was missing or because a check failed (`MissingStep`), and what is recorded was executed (`RecordedExist`).
  The order of the list respects the foreign keys (`ReferencedEarlier`), hence no schema is executed before
  those it refers to, and a start that came to the end of the list, or of the checks, left all tables there.

Only model-checked: the liveness properties (`IdleNodesAreEvicted`, `AckedIsStored`, `StoreCatchesUp`,
`ShutdownReturns`, `KeepsCollecting`, `MigrationCompletes`), since fairness and ENABLED are out of the
prover's reach; and the two violations under Findings.  No module declares a RECURSIVE operator; what a
recursive function of the models computes is proved only for `InRange`, by the argument above.

## Findings

- `node_table_config`: a registration of an existing node reads the row (`gin_handlers.go:165`) and writes all
  of it back (`:308`); a configuration stored in between (`:1135`, answered 200) is undone.
- `node_table_validate`: `ValidateNode` (`client.go:184`) posts no `name`, which the registration handler
  requires (`gin_handlers.go:133`), so the validation of an existing node with its token is answered 400,
  against the comment at `client.go:180`.  `AggregatorRegistry` and `AgentStartup` therefore leave the outcome
  of a validation open; their properties hold whatever the control plane answers.

Met while modelling, and the reason for the condition in a property:

- `Start` runs on its own goroutine (`cmd/aggregator/main.go:52`).  A signal before it is through lets
  `Shutdown` log that all goroutines are done (`server.go:337`) while `Start` goes on to start the loop and
  the eviction: `ShutdownJoins` asks for `orderly`.
- A call of the InfluxDB store takes, answers and logs under its own node the error of another call's batch
  (`influxdb.go:247`), and may answer success although its own failed.  The code promises nothing else, so no
  property does.  After errors enough, all goroutines left behind (`:246`) are blocked; with a writer that
  waits, every later call then hangs in its flush (`:197`).  `UnheardComesLate` says how many it takes.
- After an interface restarted, `netIO.BytesSent-prev.BytesSent` (`parallel.go:234`) is a difference modulo
  2^64: `SpeedsAddUp` speaks of interfaces that did not restart.
- The agent's `-interval` has a default, which replaces the interval of the file even if the flag is not given
  (`cmd/agent/main.go:85`).
- The time stamp in the name of a failed report's file is said to make it unique (`cmd/agent/main.go:465`).
  It is in seconds: without a configuration file there are no retries, and then, or when samples cannot be
  prepared (`reporter.go:127-136`), two failed reports of one second share a file (`:467`).
  `RetriedSamplesStay` speaks of samples saved after a retry, and as the code does of a clock that is not set
  back.
- Without a file and with an `-interval` that is not positive the agent panics (`cmd/agent/main.go:85`,
  `:217`); a mount point whose `statfs` hangs stops its collecting for good (`parallel.go:167`).
  `KeepsCollecting` asks for an interval and for mount points that answer.
- A notification inserted while its rule is deleted outlives the rule without one
  (`alerting_rule_repository.go:348`): `OrphansAreLate` says that this is the only way.
- Nodes may be registered with one token (`node_repository.go:561`), and then one gets the other's
  configuration: `OwnConfiguration` asks for tokens of their own.
- Of two contacts under way the one that took its time first may be written last (`gin_handlers.go:1040`):
  `SettledContactsStay` speaks of contacts that nothing raced.

## Not modelled, and why

- `internal/server/server.go` with its WebSocket hub: `NewControlPlaneServer` has no caller and its routes are
  not installed; the code cannot run.  The authentication middleware is not installed either, and keeps no
  state.
- The stub handlers (`gin_handlers.go:560-993`) answer fixed texts.
- Payload coding: pure functions of one payload, gzip and AES of Go's library in an order that configuration
  fixes; no state and no interleaving.
- Configuration files beyond what `AgentStartup` takes from them, logging, request ids, the texts of queries,
  the readings of the operating system.
- Lists, counts and pages of the repositories only read.  `UpdateStatus`, `Resolve` and
  `UpdateSessionLastUsed` write columns that no statement or handler looks at.
- The connections behind a forward: `processor.go:192` builds an HTTP transport per forward, whose idle
  connection stays for 90 seconds; connections are below the level of these models.

What could come next: an abstract register per node that only moves forward, with the refinement from
`MetricsPipeline`; an abstract set of entries that `MemoryStorage` implements; the registration chain with the
real answers of `NodeTable` in place of an open outcome.
