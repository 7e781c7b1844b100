# A verification of cpa-channel-gateway

TLA+ models of the gateway in this repository, the TLC configurations that check
them on small instances, and TLAPS proofs of what holds for every instance.
Paths below are relative to the repository root.

## 1. The system

One Node process is the public gateway. It starts and supervises two children,
HAProxy and CLIProxyAPI (CPA), that run from a generated *release*; it routes
OpenAI-compatible requests to upstream *channels*, at most one exchange per
channel; and it serves an administration interface that edits the private
configuration (four files in `config/`) and applies it to the running process.

| Component | State | Operations |
|---|---|---|
| Channel scheduler, `src/scheduler.mjs` | reservations, channel health, candidate evidence, draining, suppressed, half-open sets | `reserve`, `recordOutcome`, `release`, drain/resume, suppress/resume, `resetChannelHealth`, `reload` |
| Candidate evidence, `src/candidate-evidence.mjs` | counts, streak, latency average, circuit | `observeEvidence`, `normalizeEvidence`, `circuitStatus`, `compareEvidence` |
| Control gateway, `src/control-gateway.mjs` | requests in flight, sessions, login failures, remembered tests | proxying, manual tests, admin routes, `reloadConfig` |
| Job queue, `src/control-jobs.mjs` | running job, 16 waiting, 50 finished | `run`, `pump`, `finish` |
| Configuration manager, `src/config-manager.mjs` | loaded and pending revision, sync flag | about twenty edits through `mutate`, model sync, rollback |
| Configuration transactions, `src/config-transactions.mjs` | `runtime/config-transaction/` | begin, commit, roll back, recover |
| Revisions and releases, `src/config-revisions.mjs`, `src/generate.mjs` | revision directories, release directories, `runtime/active.json` | create, link, list, diff, prune, generate, activate |
| Runtime children and manager, `src/runtime-children.mjs`, `src/runtime-manager.mjs` | supervised release, applied configuration | start, replace, stop, apply |
| Control state, `src/control-state.mjs` | `runtime/control-state.json`, memory fallback | load, persist, reconfigure, restore |
| Client access, `src/client-access.mjs` | `config/clients.local.json` and its loaded form | normalise, create a key, resolve a key |
| Catalog, `src/catalog.mjs` | none (built per configuration) | build, resolve, filter |
| Model sync, `src/model-sync.mjs` | none | fetch, merge |
| Event logs, `src/usage-monitor.mjs`, `src/audit-events.mjs` | bounded JSONL files | record, compact |
| Process, `scripts/gateway.mjs`, `src/supervisor.mjs` | children, signals | start, readiness, terminate |
| Conversions (`src/cpa.mjs`, `src/haproxy.mjs`, `src/legacy.mjs`, migration, install, static assets) | none | rendering, import |

How they interact. A request reserves a candidate, which takes the channel's
lease; manual tests and model sync take the same lease from the other side.
Administrative changes are jobs of one FIFO queue. A job edits the files through
a configuration transaction, and a separate job applies them: the manager
generates a release, drains the scheduler, exchanges the children, reloads the
routes (which rebuilds the scheduler's state), moves `active.json` and marks the
revision as loaded.

What is hard here, and what makes each part correct:

- *Interleaved callbacks.* Three kinds of exchange share a channel across
  awaits, beside drains, tests and reloads. Correct: a channel has at most one
  exchange and is never lost; a half-open trial ends and is the only one; no
  outcome of an old configuration lands in a new one; no success of an earlier
  exchange talks a later block, fault or open circuit away.
- *Crashes and failing calls between file operations.* Correct: the four files
  change as one value from valid to valid, and each value has a revision.
- *A switch that can fail at every step and whose undo can fail too.* Correct:
  what is served is one configuration; children are exchanged in silence; the
  answer of a job is true of the files and of what is loaded; drains are lifted.
- *Counters at their limits and clocks.* Correct: counts add up after halving;
  the circuit opens, backs off and closes as documented.
- *Bounded queue and pruned histories.* Correct: the queue is one line with a
  bound; what is loaded, pending, held by a job or running is never pruned.
- *Files that change while a job waits*: by hand, by another process, by a crash.
  Correct: what is overwritten is in the history, what is shown as loaded is what
  is routed with, and exceptions are exactly those edits.
- *Two versions of one document*, the one on disk and the loaded one, each with
  checks of its own. Correct: both always load, clients stay in their group, no
  sequence of edits ends where no edit is accepted.
- *A store that may fail at every write.* Correct: the file holds what a restart
  may need as long as writes succeed, and the scheduler never notices a failure.

The hazards are listed, each at its line, in `PROJECT.json`.

## 2. Modules

| Module | Models | State and actions in terms of the code |
|---|---|---|
| `Circuit` | transient-failure circuit of a candidate | the operators of `candidate-evidence.mjs` that the scheduler depends on; instants are distances from the clock |
| `CandidateEvidence` | the whole evidence record | `Observed` = `observeEvidence`, `Normalized` = `normalizeEvidence`; actions `Observe`, `Restore`, `Tick` |
| `Scheduler` | `scheduler.mjs` with its three callers | `active` = `ChannelReservations`, `sel` = the selections held by requests, `chan`, `circuit`, `misconfigured` = the two state maps; one action per callback: `Reserve`, `Answered`, `Cancelled`, `StartTest`, `FinishTest`, `StartSync`, `FinishSync`, the drains, `Reload` |
| `AtomicConfig` | what a configuration transaction promises | one variable, one step |
| `ConfigTransaction` | `config-transactions.mjs` and `mutate` | `disk` = the four files, `backup` = the recovery directory entry by entry, `pc` = place in the program, `pending`, `revisions`; one action per file-system effect, plus `StepFails`, `Crash`, `Start` |
| `RuntimeApply` | `runtime-children.mjs`, `runtime-manager.mjs`, the apply and rollback jobs, process life | `router`, `applied`, `loaded`, `link`, `active`, `up` = the places that say what is running; `job` = the job under way; one action per stretch between two awaits |
| `Switchover` | what `runtime-manager.mjs` promises of an apply | `release`, `routes`, `loaded` = what is supervised, routed with and shown; `attempt` = the apply under way; they move together, or what a failed commit did is taken back |
| `RoutingEdits` | the edits, model sync, audit and rollback of `config-manager.mjs`, with `model-sync.mjs` and the rules of `config.mjs` | `doc` = providers and routes on disk: channels, flags, status of each listed model, aliases, logical models; one action per edit, each a job that writes a valid document or nothing; `ReferencesValid` and `Bootable` = `loadConfig` in its two strictnesses |
| `JobLine` | what `docs/control-jobs.md` promises of the queue | a sequence that is served from its head |
| `ControlJobs` | `control-jobs.mjs` | `waiting` = `pending`, `running`, `job` = what each job object waits for; `Run`, `TaskEnds`, `Settle` with the synchronous `Pump` in them |
| `Revisions` | `config-revisions.mjs`, `generate.mjs`, the revision side of `config-manager.mjs` | `history` = revision directories that read, `damaged` = those that do not, `releases`, `pointer` = `active.json`, `pending` and `loaded` = the manager's two variables, `child` and `serving` = what runs, `task` = what a job holds across its awaits; one action per callback of a job, plus edits by hand, commands of other processes, start and crash |
| `ControlPlane` | the composition of the two | the queue decides which job runs; every action of `Revisions` on a job is a step of the running job or its end |
| `ClientAccess` | `client-access.mjs`, the client and group edits of `config-manager.mjs`, the key check of `control-gateway.mjs` | `disk` and `running` = the two versions of channels and access, `request` = what a request holds between key check, reservation and end; one action per edit, apply, rollback, restart and step of a request |
| `ControlState` | `control-state.mjs` composed with all of `Scheduler` | `state` = the copy, `file` = `control-state.json`, `storage` = `writable`; each action of the scheduler with the notification it causes, reloads from the copy, failed reloads, restarts from the file |
| `*Proofs` | theorems about the module they extend | |
| `MC*` | instances for TLC | |

`Scheduler` and `RuntimeApply` meet in the drain, the leases and `reloadConfig`:
`Scheduler` has the full effect of a reload on health and leaves open when it is
called; `RuntimeApply` has the order of the calls and keeps of the scheduler
only which channels hold a lease and which are draining.
`RoutingEdits` says which documents come to be and `ConfigTransaction` how one
replaces the other: its set `Valid` is `Bootable` there.
`CandidateEvidence` refines `Circuit`, so `Scheduler` may use the smaller one.
`ControlState` refines `Scheduler`: its records are the scheduler's own, and the
freedom `Scheduler` gives a reload is what the copy and the clock make of it.
`ControlPlane` has the jobs of `RuntimeApply` and `RoutingEdits` under the queue
they assume: an apply there is its first callback, its last and, when a commit
fails, the way back between them; a mutation, which `ConfigTransaction` shows to
be atomic, is one step. In turn `RuntimeApply` has every step of the exchange.
Both refine `Switchover`, so the two views of an apply agree on what it does to
the release, the routes, the loaded revision, the files and `active.json`.

Abstractions. A release is the digest of what it is generated from. A
configuration of the scheduler is its candidates, which of them are live or
staged, the channel keys and the digest. Status codes are seven classes, those
that `recordOutcome` tells apart. `loadConfig` is the set `Valid`. A file
operation either happens or fails; the rename inside `atomicWrite` is one step.
In `RoutingEdits` a job is one step, because jobs run one at a time in the queue
and `modelSyncActive` refuses a second writer; the document is that of provider
mode, all models are generation models, and names, keys, protocols and priorities
are left out, except whether `<channel>/<model>` makes a client alias (`Nameable`):
a synchronisation reads ids by a wider pattern than the loader allows in aliases.
A synchronisation is one step there, too. The code reads, awaits the upstreams and
writes the merge of what it read, so an edit by another process in between is
overwritten; the documents that come to be are the same, and `Revisions` has the
await with what is lost. A job that changes nothing or is refused is no step. The audit
script writes one document for all channels of a report; here it takes them one
by one, which comes to the same because its effects on different channels are
independent. A rollback is one step that succeeds with its apply (`RuntimeApply`
has the others). In `Revisions` a configuration is one value, the order of
revisions and releases in time is left open (the clock may be set back and ties
are broken by names), and so any that nothing protects may be the ones pruned.
Every part of a commit and of its way back may fail there, `active.json` moved or
not, the pruning of releases cut short, the files put back or left.
In `ClientAccess` a channel is its name, keys are their hashes, and an apply is the
moment of the reload. In `ControlState` how long ago a channel was seen healthy is
left open; every write may fail, and then never happens again.

## 3. Runs

| Run | Configuration | Shows |
|---|---|---|
| `scheduler_leases` | 2 channels, 1 candidate each, 2 exchanges, threshold 1, fair | exclusion of exchanges, every trial ends, a channel that stays drained falls silent |
| `scheduler_health` | 1 channel, 2 models, 2 exchanges, all seven status classes, 3 configurations (serving, staged with the same digest, smaller with another key) | tokens, reload and the exchange in flight stay consistent; traffic never lifts a block, a fault or an open circuit (`FaultsStayUntilCleared`) |
| `config_transaction` | 4 configurations of 4 files, one of them invalid; two optional files come and go | atomicity as a refinement of `AtomicConfig`, revisions, pending revision |
| `runtime_apply` | 2 channels, 3 configurations, 2 releases; two configurations share a release | consistency, quiet exchange, one release, refinement of `Switchover`, a job's answer tells what became of files and runtime (`AnswersTruly`), every apply ends |
| `routing_edits` | 2 channels, 3 models that can be named and 1 that cannot, 1 alias with its own name and 1 named like a model, 1 logical model with 3 candidate lists (mixed, enabled, none enabled), 2 baselines (one with a pinned, stale model) | the document always boots, a synchronisation validates exactly when every listed id makes an alias that is free, and settles; no alias loses its last model (93,204 states) |
| `candidate_evidence` | 1 candidate, sample limit 6, threshold 2, cooldowns 1 2 3, latencies 0 2 4, expiry after 3 ticks | counts, restore, refinement of `Circuit` |
| `control_plane` | 2 configurations with 2 releases, 3 revision ids, 1 kept revision, no spare release, 4 jobs, 2 places in the queue | history and releases that are needed survive, the loaded revision is what is served, nothing unrecorded is overwritten, applies implement `Switchover`, the queue implements `JobLine` (384,186 states) |
| `client_access` | 2 channels, 2 groups, 1 client, 2 keys, 1 request, earlier documents without clients or with a client in one of two groups | both documents load, exchanges stay inside their group, the document stays editable |
| `control_state` | 1 channel with 1 model, 1 caller, 3 configurations (staged, another key with the same digest, in production), a circuit that opens at once | the file is what a crash needs, storage faults are invisible to the scheduler |

The three runs of section 4 use the instances of `config_transaction`,
`runtime_apply` and `routing_edits`.

Why the bounds are enough. Two exchanges and two channels make every conflict
on a lease, a token and a drain; the invariants quantify over pairs at most, and
the ones proved do not depend on the number. One channel with two models is the
smallest place where what happens to one candidate touches another through the
channel. In `routing_edits` one channel has two models, so that a synchronisation
can drop one and keep the other, and the other channel has one, so that it can
be emptied; the candidate lists reach across channels; and one id that makes no
alias is enough, because every such id refuses the synchronisation that lists it. A sample limit of 6 lets the counts be
halved many times in both parities. Three ticks of cooldown reach the cap of the backoff (1, 2, 3).
Three revision ids with one kept are the smallest history in which something is
pruned while the loaded, the pending and the next revision are all different; when
they are used up, jobs that need a fourth must prune first, and no path is cut
that a longer history would need to violate a property. Three jobs fill the
queue, one running and two waiting, and a fourth is refused. In `client_access` two groups over two channels can
exchange and share channels, and two keys allow a rotation; one request suffices
because `IsolatedService` speaks of single requests. In `control_state` no plain
client error occurs, so no candidate is `misconfigured`; evidence, which is kept
by the same rule, stands for it.
`FailureCap` and `MaxOpens` cut counters where they no longer matter to the
circuit, and `AbstractionAssumption` says so. Deadlock is checked except in
`config_transaction`, where a damaged recovery snapshot really stops the system.

Each property has a mutant: a plausible bug in one definition that makes TLC
find the property violated.

Fairness. `Scheduler` assumes that an exchange, once started, ends: an idle
timeout on the upstream request (`control-gateway.mjs:1089`), its error and
close events, and the deadlines of tests and sync all lead to a release.
Nothing is assumed of clients and administrators. `RuntimeApply` assumes that
the switch goes on: `waitForIdle`, the grace period and the readiness deadline
are all bounded. Safety properties use no fairness.

## 4. Disagreements between documents and code

Three runs check something that a document says, and TLC finds a counterexample.

- `config_recovery_stuck`: the recovery directory is removed entry by entry, and
  a crash in between leaves one that every later load refuses.
- `runtime_failed_apply`: a commit that fails after it loaded the new routes has
  already lifted the drain; requests admitted then make the way back fail, and
  the new routes stay over the old children.
- `retired_model_returns`: a disabled model that is not listed for once is
  dropped with its decision and comes back as active.

Met while modelling and not run:

- A 2xx response that is cut short makes its channel healthy and clears the
  candidate's `misconfigured` mark, because `recordOutcome` looks at the status
  first (`scheduler.mjs:153`); the stage 3 plan, lines 101-102, calls a 2xx
  response successful only after its body ends.
- The `finally` of `replace` resumes every channel (`runtime-children.mjs:112`),
  also one that was drained because the administrator disabled it; after a
  failed apply the old routes serve it again (`docs/control-jobs.md:19-22`).
- `compareEvidence` (`candidate-evidence.mjs:118`) is not transitive: by rate
  where both have samples, else by latency, three candidates can form a cycle,
  while the stage 3 plan, lines 134-139, speaks of one stable order.
- A request whose key was checked before a reload and whose body arrives after it
  is reserved with the old grant (`control-gateway.mjs:109-135`); its channel may
  by then belong to another enabled group (`README.md:262` promises isolation).
  `IsolatedService` excepts it by `outdated`.
- Deleting the last channel leaves the groups that name it, because
  `normalizeClientAccess` checks names only when channels are known; the next
  channel with another name is then refused until the groups are changed.
- After a fallback to memory the old file stays, so a restart does not lose the
  state, as `docs/control-state.md:40` says, but goes back to that of the last
  write, with the blocks of then. A file that does not parse is never replaced.
- The file is under the release digest, which a staged channel is no part of: its
  key can be replaced between two starts, and the block of the old key stays. A
  reload compares the keys and clears it.
- An edit by hand during a synchronisation, a rollback or an apply is overwritten
  or taken for what was applied (`edited`, `strayed` in `Revisions`).
- A revision names at most 500 changed models (`config-revisions.mjs:606`), so a
  synchronisation that changes more always fails.
- `consecutiveTransientFailures` has no cap while the reader refuses more than
  10,000, so such a record is dropped at the next outcome (stage 3 plan, line 62,
  says that counts saturate); `observeEvidence` reuses expired evidence that the
  same plan says is discarded.
- A shutdown during an apply finds no active release to stop, and the apply starts
  children afterwards.
- An alias may be called `<channel>/<model>` before that model is listed; from
  then on every synchronisation that finds it fails. So does every synchronisation
  that finds an id with a space, a bracket or more than about 250 characters:
  `MODEL_ID` (`model-sync.mjs:3`) admits it, `ALIAS` (`config.mjs:11`) refuses its
  `<channel>/<model>`, and with it all that the other upstreams list.
  `SyncAccepted` says that these two are all the reasons there are.
- The audit script disables a model that an alias leads to, which the
  administration interface refuses.

## 5. Proofs

All proofs are for arbitrary constants under the assumptions stated in the
modules (`CircuitAssumption`, `SchedulerAssumption`, `ConfigsAssumption`,
`SnapshotsAssumption`, `RuntimeAssumption`, `EvidenceAssumption`,
`RoutingAssumption`, `ControlJobsAssumption`, `RevisionsAssumption`,
`BaselineAssumption`, `ClientAccessAssumption`, `StorageAssumption`), which TLC evaluates in the runs.
They say that limits are positive numbers, that a configuration speaks of known
channels and releases, and that a null value (`None`, `Missing`, `Damaged`) is no
configuration, release, revision or record; `BaselineAssumption` says that earlier
runs recorded no document whose enabled channels have no model. Nothing is assumed of sizes.

- `SchedulerProofs`: `TypeCorrect`, `ChannelExclusion`, `TokensBacked`,
  `StateStaysWithinConfig`, `AdmissionStays`, `FaultsStayKnown`.
  The invariant `LeaseInv` adds to `LeaseMatchesRequest` that a selection names
  the channel of its candidate; without it, releasing a lease could free a
  channel other than the one that was taken. The token invariant needs that only
  production requests are trials and that reload finds the process idle.
  `StateWithinConfig` is inductive beside `LeaseInv`, for the same reason. For
  `InFlightStaysTrusted` one more conjunct is needed, that only a cooling channel
  has a cooldown; the rest is that two exchanges have different channels, hence
  different candidates, so that no outcome falls on what another one relies on.
  `FaultsStayUntilCleared` follows from it: a request in flight finds no block, no
  fault and no open circuit that its own outcome could lift, unless it is the
  trial of a half-open one.
- `ConfigTransactionProofs`: `TransactionTyped`, `ImplementsAtomicConfig`,
  `DurableRecorded`, `PendingDurable`. `TransactionInv` says at each place of the
  program which of files and snapshot is complete; its core is that the snapshot
  is damaged only when the files are valid. The refinement maps every step to a
  change of `Durable` or to a stutter.
- `RuntimeApplyProofs`: `RuntimeTyped`, `ConsistentRuntime`, `QuietExchange`,
  `ExclusiveRelease`, `AnswersAreTrue`, `RuntimeImplementsSwitchover`.
  `SwitchInv` says for each step of a switch which children run, that the target
  is on disk and the markers still name the previous configuration, and that until
  a commit everything is drained. `AnswersAreTrue` reads it at the end of a job: a
  failed one has moved no marker, and its files are those its answer says. For the refinement `Midway` adds whose routes
  are loaded at each step: the abstract apply is in its way back exactly when the
  target's routes are. Stopping and starting children are stutters; while an apply
  is under way the mapping shows the old release as the one that is supervised,
  because it is the one to be brought back.
- `CandidateEvidenceProofs`: `EvidenceBounded`, `OutcomesAddUp`,
  `RestartKeepsEvidence`, from the arithmetic of the halving and of the rounded
  average, and from a closed circuit having no cooldown. `BackoffGrows` says that
  the cooldown grows with the number of openings up to its limit, and with it
  `EvidenceImplementsCircuit` that the record implements `Circuit`: capped counts
  stand for what they cap because beyond `FailureCap` and `MaxOpens` neither the
  threshold nor the cooldown changes any more. That powers of two grow would
  need an induction; instead `PowersOfTwo` counts subsets: `2 ^ n` is the number
  of subsets of `1 .. n`, which are more for a larger `n`.
- `RoutingEditsProofs`: `TypeCorrect`, `AlwaysBoots`, `SynchronizationValidates`,
  `SynchronizationSettles`, `AliasesServed`. The invariant is the type and
  `Bootable` together; that it is inductive rests on lemmas about the merge: it
  lists every selected channel's answer and every reference, so it leaves no
  channel empty and no reference dangling, and a second one keeps the same; what
  was listed before can be named already, so only the answers can refuse it. An
  alias of a group is served in every document that boots, so only aliases of a
  model need a case for each edit.
- `ControlPlaneProofs`: `QueueIsJobLine` and `PlaneImplementsJobLine`, the
  refinement of `JobLine` by the queue alone and with its tasks. `QueueInv` says
  that `waiting` has no job twice, holds the queued jobs and no other, and that
  nothing waits while nothing runs; the last is why `Pump` may be called at the
  end of a job only. `PlaneTyped`, `HistoryStaysIntact`, `RunningReleaseStays`,
  `LoadedStaysServed`, `OverwritesStayRecorded` rest on one invariant: at most one
  job has a task, the running one; what that task holds is in the history; the
  loaded revision names the release that runs, and between the two halves of a
  failed commit the job knows what was served. Pruning keeps it because it is a
  job, so no other job holds anything then, and the loaded and pending revisions
  are protected.
  `PlaneImplementsSwitchover` is the refinement of `Switchover`: a callback of the
  running job is a step of the apply or leaves the runtime alone
  (`LoadedStays`: growing or pruning the history does not change what the loaded
  revision says). `RoutesStayFitting` follows from it by an invariant of
  `Switchover` itself (`Fitting`): a commit that fails takes back the routes of
  the release that runs. It says, also where files were edited while they were
  applied, what `LoadedIsServed` says only where they were not.
- `ClientAccessProofs`: `AccessTyped`, `ServiceIsolated`, `AlwaysEditable`. The
  invariant says of a request that is not outdated that what it holds is what its
  key resolves to under the loaded routes, and of the two documents that they can
  still be edited: their groups name only channels that are there.
- `ControlStateProofs`: `NothingLost`, `StateImplementsScheduler`,
  `SchedulerSurvives`. `StateInv` joins the scheduler's invariants, the type of
  copy and file and `CrashLosesNothing`: copy and file are compared with what the
  scheduler remembers after the normalisation a start applies to them, so time
  that passes, reloads that carry the copy over and reloads that are taken back
  each need one lemma about that normalisation. Every step but a restart is one
  of the scheduler; the restart, which installs what the file says, keeps its
  invariants all the same. So they hold of the composition too.

The types of `Scheduler`, `RuntimeApply` and `ControlPlane` are proved, and no run
checks them beside the proof.

Model-checked only: the liveness properties (`HalfOpenTrialEnds`,
`DrainQuiesces`, `ApplyEnds`), which are out of the prover's reach. Every safety
invariant, action property and refinement that a passing run checks is a theorem.

## 6. Not modelled, and the plan

What is left of the plan, in order:

1. Theorems about what the refinements say together: an apply of `ControlPlane`
   whose files nobody edited is one of `RuntimeApply`; what of `ConfigTransaction`
   makes a mutation of `Revisions` one step.
2. A second process that recovers, in `ConfigTransaction`: another process that
   loads the configuration rolls a transaction back that is still going on.
3. `Catalog`: resolution of aliases, groups and client access against a reference
   definition.

Not modelled in the components that are:

- Sessions and failed logins of the administration interface: they decide whether
  a job is submitted, nothing of what it does.
- The protocol tests that allow a change of protocol, and that change; the
  discovery page; the one-off migration of the routes schema.
- The limits on remembered tests (1000), on the job list (50) and on the size of
  request bodies.
- That an accepted job is answered in the end: every await of a task has a
  deadline, but not the audit call of `onFinished`, which belongs to its caller.
- In `RuntimeApply` a `reloadConfig` that throws after its busy check and puts the
  previous routes back (`control-gateway.mjs:861-877`); `ControlState` has it.

Left out for good: the logs of usage and audit events, which nothing modelled
reads; rendering of CPA and HAProxy configuration, migration and import scripts,
installation, static assets and text extraction, which have no state and are
covered by tests; the optional tunnel process; the delay between SIGKILL and the
exit of a process.
