# A formal model of Agent Skill Doctor

This directory holds TLA+ models of Agent Skill Doctor, a local tool that diagnoses agent
skills, the configurations that TLC checks, and proofs checked by TLAPS. Paths such as
`worker.py` are relative to `src/skill_doctor/` of the repository.

## The system

The command line (`cli.py`) submits a diagnosis to an on-demand background process, the
*worker*, over an authenticated local socket, then polls it for events until the job is in a
terminal status. The worker executes one job at a time, keeps jobs and events in SQLite, and
exits when it has been idle.

| Part | State it keeps | Operations | What is hard |
| --- | --- | --- | --- |
| Job tables, `store.py` | tables `jobs`, `events`; report files | one SQLite transaction per method | no transaction spans two calls; a crash between any two |
| Worker, `worker.py` | `worker.lock`, the queue, `_running_job`, threads | submit, cancel, resume, status, shutdown, idle exit | three threads and a second process that share the tables |
| Engine, `engine.py` | none of its own | three `execute_*` entry points | cancellation polled between phases; error paths that write the row; what a cached result depends on |
| Client, `cli.py`, `worker_client.py`, `ipc.py` | a cursor into the events, the socket path | submit and poll, cancel on Ctrl-C, launch a worker, run the job itself | lost answers, stale polls, competing launches, late exits |
| Flight recorder, `store.py` | rows and encrypted files | append, evict, purge | row and file are written apart |
| Artifacts and keys, `store.py`, `security.py` | content-addressed encrypted files, a master key | put, get, create the key | races of first use, a crash between an artifact and what refers to it |
| Snapshots, `snapshot.py` | none | create, verify, persist | files that change between two system calls |
| Rule packs, `supply_chain.py` | `state.json`, installed packs, a pin | install, update, rollback, pin | read-modify-write without a lock |
| Dynamic tests, `dynamic_orchestration.py`, `runtime.py`, `sandbox.py` | plan token, trials, containers | plan, consent, run, clean up | edits between plan and run, timeouts, cancellation, containers that outlive their client |
| Discovery, sessions, `discovery.py`, `session.py` | none: they read directories, settings and transcripts | inventory, resolve, collect evidence, select targets | precedence: of five kinds of settings files, of copies, aliases and qualifiers |
| Baselines, `performance.py` | a table of samples | record, compare | the result depends on the history of checks, edits, budgets and rules |
| Causal analysis, `causal.py`; suppressions, `suppressions.py` | two suppression files | pure functions | which findings block; when an acceptance lapses |
| Telemetry, static rules, reporting, bootstrap, benchmark | small files or none | reading and rendering | data, not behaviour |

How they interact: the client talks to the request thread of the worker by messages; the
request thread talks to the coordinator thread through a queue and through the tables; the
coordinator calls the engine, which calls back into the store, the emitter and the
cancellation test; the heartbeat thread shares the emitter of the job. A worker process that
is leaving may overlap with its successor, and a command with `--direct` runs the engine
beside any worker: then the tables, the files and the container engine are all they share.
Inside a job the engine takes a snapshot, stores it, analyzes it through a cache, verifies
it, asks for dynamic tests, measures them against budgets and baselines, weighs them
causally, subtracts what the user has accepted, and writes a report whose blocking findings
become the exit code.

What makes each part correct:

- worker: a job is never forgotten (queued with no queue that holds it, or running with no
  thread that runs it); a row's columns agree with each other whatever the order of the
  writers; a complete job has a whole report of its own attempt; the events of a job are one
  sequence without gaps that only grows; every job settles;
- client: every event shown once and in order, an exit code that agrees with the row, one
  worker that everybody finds, an end for every command;
- flight recorder: rows and files agree after any crash, limits are respected;
- rule packs: the active pack was verified, no update by another process is lost;
- snapshots and artifacts: what is reported was on the disk, what is referred to is stored,
  and one key reads all of it;
- dynamic tests: nothing runs that was not consented to, no verdict rests on part of the
  plan, everything started is cleaned up;
- diagnosis: what is analyzed is what the platform loads, what is left out is said, and no
  cached analysis, baseline or acceptance of other inputs speaks in a report.

## Modules

| Module | Models |
| --- | --- |
| `JobStore` | the tables `jobs` and `events` and the report files; one operator per SQL statement or file |
| `Worker` | the processes and threads of `worker.py` and the engine's calls into them, over `JobStore` |
| `EventFeed` | abstract: what a polling client relies on, one feed per job that grows at its end |
| `WorkerProperties`, `MCWorker` | their properties (the refinement of `EventFeed` among them) and instances for TLC |
| `WorkerProofs`, `WorkerRowProofs` | TLAPS proofs: types, events and the feed; rows, threads and the queue |
| `CheckClient` | commands and the worker processes they launch, over `JobStore` |
| `ClientProperties`, `MCClient`, `ClientProofs` | their properties, an instance, proofs |
| `FlightRecorder` | files and rows of the flight recorder of `store.py`, by threads and processes |
| `FlightProperties`, `MCFlight`, `FlightProofs` | its properties, an instance and proofs |
| `RulePacks` | `state.json` and the installed packs of `supply_chain.py`, by commands and the engine |
| `RuleLedger` | abstract: what the rule packs promise when operations come one at a time |
| `RuleProperties`, `MCRules`, `RuleProofs` | their properties, an instance and proofs |
| `SnapshotStore` | the static phase of a check: walks, artifacts, the master key, the analysis cache |
| `SnapshotProperties`, `MCSnapshot`, `SnapshotProofs` | its properties, instances and proofs |
| `DynamicTests` | plan, approval, trials and containers of several processes |
| `DynamicProperties`, `MCDynamic`, `DynamicProofs` | their properties, instances and proofs |
| `Discovery` | settings, statuses and selectors of copies; a selector's resolution |
| `SessionTrace` | what a transcript names and which copies it selects, over `Discovery` |
| `Assessment` | budgets, baselines, causality, suppressions and what blocks, over `SessionTrace` |
| `Diagnosis` | diagnoses one after another while skills, rules and suppressions change, over all three |
| `DiagnosisProperties`, `MCDiagnosis`, `DiagnosisProofs` | their properties, seven instances in one run, and proofs |

`Worker` has the threads of a worker and takes its clients as an environment; `CheckClient` has the clients and
takes the threads of a worker together: a request is answered in one step (a poll in two) and a job executed in
few. Both write through the same operators of `JobStore`. `Diagnosis` takes a snapshot and a run of trials as
one step each; `SnapshotStore` and `DynamicTests` are what happens inside.

### The worker: state

| Variable | Code |
| --- | --- |
| `jobs[j]` | row of `jobs`: status, attempt, cancel_requested, result_state, whether report_path is set |
| `order` | `created_at` order of the rows |
| `events[j]` | rows of `events` as a function from sequence number to stage |
| `artifacts[j][f]` | the attempt that last wrote report file `f` (`json`; `rendered` for HTML, SARIF and JUnit) |
| `lock` | holder of `StateLock` |
| `mode[p]` | where `main()` of process `p` is: not started, between lock and restored queue, serving, stopping, lock released but process alive |
| `queue[p]`, `running[p]` | `JobCoordinator._queue`, `_running_job` |
| `coord[p]` | coordinator thread: program counter, job, `DurableEmitter.sequence`, the cancel flag it read, attempt, phase, heartbeat |
| `main[p]` | request thread: program counter, request, job, its emitter's sequence |
| `used` | how much of each bound has been spent |

### The worker: actions

One step is one transaction, one file replacement, one queue operation or one assignment
another thread can observe. Everything between two of them may be interleaved with the other
threads, cut short by a crash, and in the case of `released` overlapped by another process.

- process: `Start` (lock and `recover_interrupted_jobs`), `Restore` (the constructor of
  `JobCoordinator`), `IdleExit`, `Shutdown`, `StopJoined`, `StopTimedOut`, `Exit`, `Crash`;
- request thread: `Submit`, `Cancel`, `Resume` commit the first transaction of the handler and
  `CancelLook`, `CancelMark`, `HandlerEmitter`, `HandlerEmit`, `Enqueue` follow one by one; the
  handler is busy until its last step, which is what serialises requests;
- coordinator: `Dequeue`, `StopSeen`, `ReadJob`, `CoordEmitter`, `PreCancel`, `PreCancelEvent`,
  `Claim`, `BeginExecution`, `NoThread`, `CrashFail`, `CrashEvent`, `Finish`;
- engine: `NotCancelled`, `CancelHonoured`, `CancelSwallowed`, `EmitStage`, `WriteJson`,
  `WriteRest`, `ReportEvent`, `Complete`, `EngineRaises`, `EngineCancel`, `CancelEvent`,
  `EngineFail`, `FailEvent`;
- heartbeat thread: `Heartbeat`.

An INSERT whose key is taken raises `sqlite3.IntegrityError`. Each caller meets it its own
way, and the model keeps them apart: the engine turns it into an internal error
(`Raised`), `_safe_emit` drops it (`LastEvent`), the heartbeat thread ends, `Worker.run` does not
catch it and the worker stops (`HandlerEmit`), and the coordinator's `except` clause does not
guard its own emit, so that its thread ends (`crashDead`).

### The flight recorder

`FlightRecorder` has the directory (`files`, the `*.enc` files; `temps`, what `mkstemp` made), the table
(`table`: a row's `recorded_at`), the open write transaction (`writer`) and, for each thread, where it is in
which method. `append_flight_record` is `Append`, `WriteTemp`, `Replace`, `Insert` and then the eviction
(`SelectExpired` to `DeleteRows`); `purge_flight_recorder` is `Purge` to `GlobDrop`, after which the
request thread asks for the status, and the status evicts. Files are unlinked one by one. A statement may
raise `sqlite3.Error` (`StatementFails`), a file may resist (`UnlinkFails`), a process may die (`Crash`).
Sizes are units of the limit; a clock that ticks at each append stands for `recorded_at`, so no two
records tie and time never runs backwards. Which thread appends and which purges is a constant:
the coordinator runs the engine, the request thread purges, and a command run with `--direct` appends from a
second process.

### The rule packs

`RulePacks` has the packs on disk (`packs`), `state.json` (`meta`: active pack, history, pin, whether a feed is
approved, `last_checked`) and, for each process, where it is, the state it has read (`copy`) and the state it is going to write
(`next`). Every operation reads `state.json` whole and later replaces it whole; the steps in between are `Install`,
`ReadState`, `WriteDocument` and `WriteState` for `_activate`, one read and one `WriteState` for `Pin`, `Rollback`,
`ConfigureFeed` and `DisableFeed`, and `AutoUpdate`, `WriteChecked`, `Fetch` and `Compare` before `_activate` for the
engine, which updates before each job. A document is a value whose signature holds; it has a version and expires at
a time. What `load_active` returns to a job changes nothing and is not a step; that it raises for an expired
active pack, and so ends an update, is in `Compare`.

### Commands and workers

`CheckClient` names a command by the job it submits. A command is at one of the places of `_run_worker_check`
(`client[c]`), its last request and the answer are in `request[c]`; a process is at one of the places of `main()`
(`proc[p]`, with the command that launched it); `lock` and `socket` say who holds `worker.lock` and who bound the socket path.

- worker process: `Lock`, `AlreadyRunning`, `Bind`, `IdleExit`, `AnswerTooLarge`, `Close`, `Exit`, `Crash`. `Close` unlinks whatever is
  at the socket path, as `server.close()` does; `Crash` leaves the path behind;
- requests: `HandleSubmit`, `HandleCancel`; a poll reads the row (`StatusRow`) and the events (`StatusEvents`) in two transactions;
- execution: `Claim`, `Engine`, `EngineCancelled`, `EngineRaises`, in the order of the engine's calls;
- `ensure_worker`: `PingAnswered`, `PingFails`, `Launch`, `LaunchFails`, `GiveUp`;
- the polling loop: `Send`, `Answered`, `Refused`, `Late`, `LoadReport`, `Interrupt`;
- `--direct`: `StartDirect`, `FinishDirect`, `InterruptDirect`: a row is inserted as running without the worker's lock, so
  that a worker that starts meanwhile takes it for interrupted.

### The static phase and the artifacts

In `SnapshotStore` a directory maps names to inodes and an inode has the version of its last write. A walk lists the
names (`Walk`), then for each calls `lstat`, which tells links and what is not a file (`Look`), `lstat` again (`Inspect`), `open` and `fstat` (`OpenFile`) and reads and compares the status again
(`ReadRest`), while the user writes in place, replaces, removes or links (`Edit`) between any two of these. `Put` and `Replace` are the two
halves of `put_bytes`, for each file and then the manifest; `Open` and `MakeKey` create the master key, which two processes may do
at once; `Walk` from `analyze` is `verify_snapshot`, after which `Report`. `GiveFeedback` and `RecordFeedback` store a reason and then its row.
`WriteFails` and `Crash` may come between any two of them.

### Dynamic tests

`DynamicTests` has the checks of several processes (`job`), the files as they are now (`live`), the plans reported so far
(`plans`), what the one container engine runs (`containers`) and what it was asked for and has yet to create (`requests`). A token is the digest of a
plan's inputs: here the record of them. A check goes through `Submit`, `Capture`, `StaleOrCancelled` or the early returns of `orchestrate_dynamic` in
their order (`Skip`, `NotReady`, `NoContext`), then for the version probe, each dependency setup, each trial and each control run through `Launch`,
`ClientExits` or `ClientAlone` or `Killed`, `Remove`, `LeakCheck` and `Record`, and ends with `PersistTraces` and `Merge`.

Names are texts, sequences of characters. A container is called after skill, case and repetition joined by dashes, of which the first forty
characters are kept (`ContainerName`, `Cut`): a skill with a long name has one name for all its containers, two skills may get the same one, and so do skill `a`
with case `1-1` and skill `a-1` with case `1`. Containers are removed, and leaks looked for, by name.

`LaunchFails`, `Unkillable` and `CleanupUnknown` are the engine's faults, and three more are outcomes of other steps: a slow engine that creates the
container later, perhaps after its client was killed (`LaunchLate`, `Creates`); one that refuses to remove it (`Remove`), which the code does not notice,
since `rm --force` runs unchecked; one that does not honour `--rm` (`ClientExits`). What is left of a container is in `left`: created too late for its client, or refused. A container
nobody waits for may end by itself (`OrphanExits`).

### Diagnoses

`Diagnosis` runs checks one after the other: of a path, of a selector, of everything, of a session. `Begin`, `Find`,
`ReadSnapshots` (or `ReadFails`, for a copy that cannot be read), `Analyze`, `Test`, `Measure`, `Conclude`; `Fail` raises anywhere. Around them
`EditSkill`, `Move`, `EditBudget`, `UpdateRules`, `Accept` and `Tick` change what the next step reads. `Discovery`, `SessionTrace` and `Assessment` are the operators they
use, in the code's order: settings merged layer by layer (`LastSaid`), statuses (`Materialized`), then qualifiers (`Selectors`), then
rivals (`SettledStatus`); signals of a transcript in the order of their strings; rows of baselines committed one by
one, so that a result may be compared with an earlier one of the same check.

What a check has read (`entries`) is a function on the places of the copies among the selected, those that could not be read left out; the static
analysis takes each content once, and the trials go through the copies grouped by content, as the code's dictionary by digest keeps them.
Places are numbered in the order of precedence. A nested place has a directory (`DirectoryOf`), a plugin's a name and a marketplace (`PluginOf`). Only Claude's
nested and plugin copies have a selector with a prefix (`Prefix`): Codex gives its plugins' skills their plain names, so that they are ambiguous beside
others. Settings switch a plugin by name and marketplace or, where they do not have that, by the name alone (`PluginOn`, `Table`).

A series of baselines is of one skill name, one context (`Context`: platform, runtime version, model, permissions, configuration and backend together), one rule set and
one set of budgets. Trials that timed out or were cancelled are never recorded; failed ones are (`Steady`).
`baselines` is a set of rows with their time (`at`), of which `latest_performance_baseline` takes the latest that is eligible.

### Abstractions

- Timers: an idle timeout, a heartbeat interval, the deadline of a client or `join(timeout=5)` may expire whenever the
  code could observe it. A join that expires, and an answer that comes too late, are counted in `MaxFaults`.
- Store faults other than the key collision (disk full, a locked database) are not modelled in `Worker`, except that
  the engine may raise anywhere between its steps.
- The engine's three phases stand for its events; each phase emits one event in `Worker`, several in
  the code. `CancelSwallowed` is `_analyze_inventory_copies` taking `SnapshotCancelled` for an
  unreadable copy.
- The result state of a report is `"reported"` in `Worker` and `CheckClient`: control never depends on which it is there.
- Requests that change nothing (`ping`, `jobs`, refused requests) are not steps, nor is `status` in `Worker`.
- Snapshots: digests are equal exactly for equal versions, and no content returns to a file; a skill is one flat
  directory; the limits in bytes and in depth are left out beside the one on the number of files. Edits are counted only
  while a walk could meet them.
- Dynamic tests: one skill per check; `DYNAMIC_LOCK` is left out, since it belongs to one process, which runs one check at a
  time; what a trial answers is free, and so is what the causal analysis makes of failing trials beyond what it needs at least.
- Diagnosis: parsing is left out; what a rule set finds in a content is a constant; of the budgets only latency and
  context are there, since the others go through the same loop; digests are the contents themselves, and those of budget documents their limits. A table of a Codex
  plugin without `enabled` counts as one that says true: both leave it on.

## Runs

| Run | Instance | Shows |
| --- | --- | --- |
| `Worker_one_job` | 1 process, 1 inventory job, 3 requests or heartbeats, 1 fault, fair | `TypeOK`, `CompleteHasReport`, `RunningHasRunner`, `CompleteStays`, `JobsSettle` |
| `Worker_overlap` | 2 processes, 2 jobs (both symmetric), 2 requests or heartbeats, 1 fault | `ResultMatchesStatus`, `FeedSpec`, `EventsContiguous`, `NoStrandedQueuedJob` |
| `Worker_cancel_lost` | 1 job | violated: `AcceptedCancelKept` |
| `Client` | a command and a direct one, 2 processes, 1 fault or Ctrl-C, 2 attempts, fair | `CommandOK`, `ExitMatchesRow`, `CommandsEnd`, `ServingIsReachable`, `OneChildAtATime` |
| `Flight` | coordinator, request thread, a second process; 2 records, 1 purge, 1 fault | `TypeOK`, `NoOrphanFile`, `RowsHaveFiles`, `CapacityHeld`, `PurgeErases` |
| `Flight_temporaries` | coordinator and request thread; 1 fault | violated: `PurgeLeavesNothing` |
| `Rules` | 1 command, 1 engine, 3 packs of 2 versions, 4 commands | `StateOK`, `LedgerSteps` |
| `Rules_consent` | the same | violated: `ConsentIsGiven` |
| `Snapshot` | 1 process, 2 files, 3 edits; or 2 processes, a limit of 1 file, 1 edit; 1 fault | `TypeOK`, `ReportIsReal`, `StoreSound`, `KeysAgree` |
| `Dynamic` | 6 settings (`Together`, `Colliding`, `Edited`, `Repeated`, `Deep`, `Again`), up to 2 faults, fair | `TypeOK`, `OnlyApprovedRuns`, `UsesAsPlanned`, `LeavesNothing`, `NoPartialVerdict`, `NobodyElseEnds`, `ChecksEnd` |
| `Diagnosis` | 7 worlds (`claude`, `codex`, `both`, `moved`, `history`, `contexts`, `accepted`) | `TypeOK`, `LocksHold`, `EffectiveCopy`, `AllAccounted`, `ReportFollowsRules`, `SuppressionLapses`, `GateHolds`, `RegressionIsReal` |
| `Diagnosis_baseline` | the world `history` | violated: `BaselinesSucceed` |

`CommandOK`, `StateOK` and `StoreSound` are conjunctions of named parts, each with its own comment.

### Bounds

*Worker.* Three requests let a job be submitted, cancelled and resumed, with the cancellation
racing the execution and a second execution racing the remains of the first. A process may
start again as often as it likes; one fault (a crash, a join that expires, a thread that cannot
start) can fall between any two steps. A heartbeat counts as a request here. Two jobs put one behind the other, in a queue or in two processes. Two
processes are the most that overlap after one expired join. `ListLimit` stands for 1000 and here exceeds the
number of jobs: recovery looks at the newest 1000 rows only, and with a smaller `ListLimit` `NoStrandedQueuedJob` fails.

*Commands.* Two processes are enough for one to serve while another is on its way in or out, and two attempts stand for three:
the last one and one before it. A direct command and a worker that recovers its row need one of each. A Ctrl-C counts as the fault. That commands
compete for the lock with launches of their own is also proved for any number of them (`WorkerIsReachable`, `OneChild`).

*Flight recorder.* A small record and one that fills the ring force an eviction whichever comes first, and the clock lets the first
record expire while a thread is evicting.

*Rule packs.* One pack kept for a rollback stands for ten; four commands install three packs,
or two with a rollback or a pin between; a process may die at any step, as often as it likes.

*Snapshots.* Two files are what it takes for two of them to be read at different moments, and three edits change one, change the other and
still hit the second walk. Two processes race for the key and for an artifact; then one file is the limit, so that the second is
one too many.

*Dynamic tests.* `Together`: two skills in one container engine, one of them with a name that leaves its containers nothing else. `Colliding`: two whose containers get one
name. `Edited`: a plan, its approval and a file edited between, with two authored cases, installations or replaced context. `Repeated` and `Deep`: approved plans at the standard
and the deep depth. `Again`: the same check twice, the first crashed and its container left, with a second fault. A fault can fall on any step. Seven characters of a name are kept, which is
as many as the colliding names have.

*Diagnosis.* `claude` and `codex` start from inventories of up to three copies of one name over the places of that platform (enterprise,
personal, two nested, plugin and command; repository, user and plugin), with aliases and broken links, under settings that contradict each other or switch a plugin under
another key (three copies of Claude's under fewer of them); `both` adds trials to two copies that are equal or differ, `moved` moves one between two checks; `history` has three tested checks of
one skill edited between them, so that a baseline can be the wrong one of two, with loads that fail or are cut; `contexts` has two in two contexts with a budget
edited between, and hung or cancelled trials; `accepted` lets rules, content and clock change around an acceptance.

`CHECK_DEADLOCK FALSE`: commands, checks and diagnoses end; a recorder nobody calls any more stops, and a worker whose budget of
requests is spent and whose coordinator's thread has ended has nothing left to do.

### Fairness

`Worker!FairSpec` assumes that the operating system schedules the request and coordinator
threads and that the engine returns (every wait in it has a timeout), and that a process is
started whenever none holds the lock: a client polls every 50 ms and each poll calls
`ensure_worker`, which launches one. Requests, crashes, expired joins, idle exits and heartbeats are
never owed to anyone. Weak fairness on a thread as a whole is enough since each thread is
sequential: once a step of it is enabled, only itself or the end of its process disables it.

`CheckClient!FairSpec` assumes as much of the commands and of each process: its own course, its handler and its execution. There a worker
starts only if a command launches one, so `CommandsEnd` includes that somebody does. Faults, Ctrl-C and idle exits owe nothing.

`DynamicTests!FairSpec` asks only that a host process goes on, its deadline included (`Killed`). Nothing says that a container, or
the container engine, ever does anything by itself.

### What the violated properties say

1. `AcceptedCancelKept`: the coordinator reads the row, a cancel request is accepted, and
   `mark_running` clears `cancel_requested` (`store.py:183`).
2. `ConsentIsGiven`: `maybe_auto_update` reads `state.json` and writes it back with a new `last_checked`. A `disable-auto` in
   between is undone, feed and approval included. `LedgerSteps` is stated for writes that are not
   outdated for the same reason; `StateOK` holds even for those that are.
3. `PurgeLeavesNothing`: `docs/SESSION_EVIDENCE.md:75` says that a purge deletes "any remaining encrypted recorder files immediately". It lists `*.enc`
   (`store.py:707`), and an append that dies between `mkstemp` and `os.replace` (`store.py:445`) leaves an encrypted file called `tmp...` that nothing looks for. `PurgeErases` is the part
   that holds: the `*.enc` files.
4. `BaselinesSucceed`: `docs/PERFORMANCE.md:15-16` asks for "at least three successful, non-cancelled treatment trials". The code asks for three, of which none timed out or was
   cancelled (`performance.py:467-471`): trials that failed become a baseline. `RegressionIsReal` states what the code compares with.

### Seen besides

Disagreements between the code and what is said of it that have no run of their own; the models keep to the code.

Worker and stores:

- `has_work()` looks at the queue and `_running_job`, and a job just dequeued is in neither until `worker.py:162`: a shutdown
  is then accepted while its row may already say `running` (`worker.py:412` refuses it "while jobs are active").
- The coordinator's thread can end in its own exception handler (`worker.py:265`, or the join of a heartbeat that never
  started, 269); the worker keeps answering and executes nothing. `JobsSettle` excepts this case.
- Where a worker leaves while its coordinator still executes (the join of five seconds expired, `worker.py:457`), its successor takes the
  row for interrupted. The old thread may then claim a row of the successor's queue and exit with it: the row says `running` and no thread runs it
  until the next start. Or it completes a row that was resumed, whose files are those of the earlier attempt. `RunningHasRunner`
  and `CompleteHasReport` fail on such an instance with two processes; they are checked with one, and proved under
  the premise `Alone`. `NoStrandedQueuedJob` holds there too.
- `mark_cancelled`, `fail_job` and `complete_job` overwrite any status, though `cli.py:36` calls three of them terminal; `CompleteStays` says how far
  this goes for a complete job.
- Expired flight records go when something is appended or a purge asks for the status, not at 24 hours (`docs/SESSION_EVIDENCE.md:74`).
- An append
  overtaken by a later one may evict its own record, and one whose insert comes after a purge's `DELETE` keeps a row whose file is gone,
  hence the premise of `RowsHaveFiles`.
- A rollback looks neither at the pin nor at the expiry, and two in a row undo each other; an expired active pack ends every automatic
  update, also the one that would replace it.
- Where the credential store replaces what it holds (Secret Service, the DPAPI file), two processes that open an empty store at once can
  leave artifacts nobody can decrypt; `KeysAgree` has its premise for this.
- A snapshot's files were on the disk together (`ReportIsReal`); its absences and links may have been seen at other moments.

Dynamic tests:

- `DYNAMIC_LOCK` belongs to one process, though `docs/DYNAMIC_TESTING.md:44` speaks of one test at a time.
- After a cancellation up to four more containers start: the loop looks at it before a repetition, neither after a setup nor before a control run.
- A cancellation that falls on the last trial of the plan is not noticed: the test is completed with that trial counted as run (`runtime.py:735-783`), as
  `NoPartialVerdict` says.
- A leak check that could not be made counts as clean, and that of the probe and of installations is not read (`runtime.py:620-631`), hence the cases of `LeavesNothing`. A
  container the engine creates after its client was killed is looked for once, too early.
- Containers are named by the first forty characters of skill, case and repetition, so that two checks may meet under one name and one ends the
  other's; `NobodyElseEnds` is about skills whose names differ there.

Reports:

- A static finding of high severity and confidence has one kind of evidence, is not flagged, and leaves exit 0 (against
  `docs/REPORTING.md:23-24`).
- A baseline is recorded from the trials before the failure of a dynamic run too, and is found by the skill's name rather than its path.
- Where a nested directory is named like a plugin, its copies come first, under the selector of the plugin's.
- Two nested copies of one name without a base copy both lose their qualifier, and one is shadowed (against
  `docs/DISCOVERY.md:46-48`, which keeps them apart under their directories); `EffectiveCopy` leaves such a name out (`Contested`). A disabled copy that comes first keeps its enabled alias from loading.
- Equal contents are analyzed once, under the first copy's directory name, so that the finding about the name is that of the first copy
  (`docs/DISCOVERY.md:80-83` speaks of each copy); `ReportFollowsRules` leaves that finding aside.
- A session's report always has a hypothesis, so its state is never `no_confirmed_issues`. A failing case leaves "eliminated" the skill
  node of another. A managed settings file that cannot be read lifts the lock, with a `DISCOVERY_CONFIG` diagnostic
  that changes no state and no exit code (`discovery.py:217-224`). Inputs and outputs
  of Claude's tools count as words of the conversation (`session.py:345`), those of Codex do not.

## Proofs

Eight modules prove theorems for every value of the constants that satisfies the named assumptions of the modules: that
sets are disjoint or finite and bounds are naturals; of the instances (`SnapshotAssumption`, `DynamicAssumption`, `InstanceAssumption`), the types
of what they let users and trials do; `PlaceAssumption`, that places are numbered in the order discovery scans them;
`SortedAssumption`, that the order of a transcript's strings is a sequence; `DiagnosisAssumption`, the types of what rules find. TLC evaluates each of them on its run. A
theorem that needs more says so in its statement (`Alone`, `Few` below).

Every invariant and every action property of the passing runs is proved. Each proof goes the same way: a strengthening that is inductive, one lemma per action or group
of actions that keeps it, and a temporal step at the end.

### Worker

`WorkerProofs`:

- `InductiveInvariant`: `Spec => []IInv`, where `IInv` is `TypeOK`, `Gapless` (the keys of a job's events are
  `1..n`) and `Behind` (no emitter's counter is ahead of the table);
- `TypeCorrect`, `EventsAreContiguous`: its consequences;
- `WorkerImplementsFeed`: `Spec => FeedSpec`. Since the keys are `1..n` and an emitter inserts at its counter plus one,
  an insert either collides and changes nothing or appends at `n + 1`: every step is a `Publish`
  or leaves the feed alone;
- `ResultsMatch`: status and result column agree. It needs that a thread on its way to `fail_job` carries a failing result
  (`FailuresKnown`), and nothing about who writes when: each statement writes both columns.

`Behind` is why the first theorem is inductive: contiguity alone does not survive an insert by an emitter whose
counter has run past the table. A counter does move when its INSERT raises
(`self.sequence += 1` precedes `append_event`), but then the key it moved to is in the table.

`WorkerRowProofs` relates the threads of a process to its rows:

- `RowInvariant`: `Spec /\ []Alone => []RowInv`. One unfinished coordinator at a time (`OneActive`); a row that says running
  is in the hands of a thread that will settle it (`RunningInHand`); and what a thread may rely on at each of its places, such as the attempt
  it counts and the files of it that are written (`RowsSound`);
- `CompleteJobsHaveReports`, `RunningJobsHaveRunners`, `CompleteJobsStay`: the properties, under the same premise;
- the premise `Alone` is that no worker serves while a thread that outlived its join still executes. Without it the first two are false
  (see "Seen besides"). It holds when every join succeeds (`AloneWhenJoined`) and always where a state directory has
  one process at a time (`AloneByItself`), so that `OneProcessKeepsRows` has no temporal premise, whatever crashes, restarts and joins that expire;
- `NoJobStranded`: `Spec /\ []Few => []NoStrandedQueuedJob`, with any number of processes and no `Alone`. `Few` is that the table has no more rows
  than `list_jobs` is asked for. The invariant (`QueueInv`): no thread and no queue names a job without a row (`RowsKnown`), `list_jobs` knows every row
  (`Listed`), the request thread enqueues only what it made a queued row of (`HandlerRests`). `NoJobStrandedOfFew` puts the cardinality of `Job` in the place of
  `Few`.

### Commands

`ClientProofs`:

- `MeetingInvariant`: `Spec => []IInv`, where `IInv` is the shape of the records, `LockIsHeld` (a process past the lock holds it),
  `ServingIsReachable` and `ChildrenWaitedFor` (a command that is not waiting has no process, one that waits has one);
- `WorkerIsReachable`: `ServingIsReachable`. A process on its way out unlinks the socket path while it still holds the lock, and
  nobody binds the path without it: this is why a late exit cannot hide a successor;
- `OneChild`: `OneChildAtATime`;
- `CommandsInvariant`: `Spec => []JInv`: what a thread that executes relies on (`Doing`), what a direct command and a command of a worker know of
  their rows (`Directly`, `Remotely`). The argument is that rows only go on: an answer that was true of the row and the events when it
  was read (in two transactions, the row first) is a prefix of what is true later (`Grown`);
- `CommandsShowRight`, `ExitsMatch`: `CommandOK` and `ExitMatchesRow`, its consequences.

### Flight recorder

`FlightProofs`:

- `RecorderInvariant`: `Spec => []IInv`, with `TypeOK`; `FreshUnused`; `InsertPending` (until its row is in, a record
  belongs to one append and to no eviction); `UnlinkedFirst` (a row goes only after its file);
  `OrphansAwaited` (a file without a row has an append about to insert, or a purge that will list it
  or has listed it);
- `RecorderTypes`, `NoFileIsOrphaned`: its consequences. `NoOrphanFile` alone is not inductive: an eviction that
  deleted a row whose file was left, or a record that came back under an eviction's
  selection, would break it;
- `NoRowIsStripped`: `RowsHaveFiles`, from `Evictions` (what a thread holds at each point of an eviction) besides;
- `PurgesErase`: `PurgeErases`: a purge that ends has unlinked the `*.enc` files that were there when it was asked for. (The temporary files of dead appends stay: `PurgeLeavesNothing`.)
- `RingHolds`: `CapacityHeld`. The invariant is `RoomLeft`: the rows fit, or some eviction has yet to look, or what will be left when one has deleted
  what it selected fits. An append between what an eviction selects and what it deletes has its own eviction to follow. That the loop over the rows, newest first, keeps no
  more than the limit is `KeptFits`.

Sums over sets of records are folds. The prover cannot instantiate an induction rule, so the lemmas about them argue from the least
counterexample instead: every set of naturals that is not empty has a least element (`LeastNumber`, from `WFMin` and
`NatLessThanWellFounded`), hence every set of finite sets a smallest. `DiagnosisProofs` does the same for sums of trials and
for sorted sequences.

### Rule packs

`RuleProofs`:

- `RulesInvariant`: `Spec => []IInv`: what `state.json` holds is orderly (a bounded history of distinct packs, without the active one) and names
  installed packs; so does what a process is about to write, but for the document it writes first, and one operation makes it of what that process has read (`ActorOK`);
- `StateStaysOK`: `StateOK`, its consequence, also where a write undoes another's;
- `WritesAreLedgers`: `LedgerSteps`. A write that is not outdated is an operation on the state as it is, and each operation of the code is one of
  `RuleLedger`. The history of an activation is the one before it without the activated pack (`Others`); `OthersShort` says that this drops at most one
  element and leaves the others in order, since packs in a history are distinct.

### Snapshots and artifacts

`SnapshotProofs`:

- `SnapshotInvariant`: `Spec => []IInv`. Of the disk, that inodes have versions up to the number of edits; of each
  process (`RowOK`), what it has found (`Holds`), how that relates to the trees it has seen (`Fits`, `Real`), what of it is stored (`Kept`) and
  under which key (`KeyOf`);
- `ReportsAreReal`: `ReportIsReal`. The moment is the end of the first walk: a file of the snapshot that was not then
  as the snapshot says is not so now either, since no content comes back, has not been found so by the second walk, and
  will not be (`Differs`). So a second walk that agrees leaves no file that differed;
- `StoreIsSound`: `StoreSound`, from the order of the writes (`KeptIn`): each file before the manifest, the manifest before the
  analysis and the report, the reason before its row;
- `KeysFit`: `KeysAgree`;
- `SnapshotTypes`: `TypeOK`, with the limit on files: no walk goes on past it (`LimitInv`).

### Dynamic tests

`DynamicProofs`:

- `TestsInvariant`: `Spec => []IInv`: `Bounds`; `JobsOK`: what a check has captured (`Captured`), and that trials run under the
  token of a reported plan that equals what was captured (`Approves`); `ContainersOK`: where every request and every container of a check comes from, and why one that is neither
  the one it waits for nor about to be removed is still there;
- `TestTypes`, `OnlyApproved`, `NothingLeft`: its consequences. `NothingLeft` is for an engine that refuses removals and creates containers late, and for names that collide;
- `OnlyOwnEnds`: `NobodyElseEnds`, for any names and wherever they are cut: every container and request has the name its check computes for it (`NamesOK`), and two names
  whose skills differ among the characters that are kept differ there;
- `CallsArePlanned`, `VerdictsAreWhole`: from a second invariant, `CInv`, that counts. At each place of the loop (`Progress`) the uses of
  the model are those of the cases before it plus those of its own case (`Called`), and likewise the treated trials, so that a
  completed loop has used `Selected * Repetitions + ControlRuns`. Of the trials that were made at most the last was cut by a cancellation, since the loop
  looks at it before the next.

### Diagnoses

`DiagnosisProofs`:

- `DiagnosisInvariant`: `Spec => []IInv`: an entry of a suppression file was accepted for what it names (`FilesAccepted`); a row of the cache is
  the analysis of what its key says (`CacheSound`); and, as far as a check has come, that every selected copy is read or makes the
  coverage fail, that its static findings are those of its contents, and that what is suppressed was accepted (`ReportOK`);
- `CompleteReportsAccount`, `ReportsFollowRules`, `TimeoutsGate`, `SuppressionsLapse`: its consequences;
- `LocksAlwaysHold`, `ChecksFindTheCopy`: `LocksHold` and `EffectiveCopy`. The inventory of a check is what discovery makes of some disk (`CInv`), and
  the lemmas about `Discover` say which copies have which selector and status: the layers of settings are folds, the candidates are ordered
  (`BeforeOrders`), and of the copies of one selector the first is active. What the platform loads is stated without selectors or statuses (`EffectiveCodex`, `EffectiveClaude`), in terms of
  sources, names and settings;
- `RegressionsAreReal`: `RegressionIsReal`. The rows of baselines are at any moment those that the history of measurements makes (`MInv`), so that
  the latest eligible row is the latest eligible measurement: of another content in the same context, under the same rules and budgets, neither timed out nor cancelled;
- `DiagnosisTypes`: `TypeOK`, from `TInv`, the types of everything a check holds. That a baseline rests on three trials needs the sum of the
  trials to be a natural; that a copy selected by a session is in the inventory needs `SessionCopies` to return copies of it.

### Only model-checked

Liveness under fairness (`JobsSettle`, `CommandsEnd`, `ChecksEnd`) is beyond the prover: `ENABLED` is. The four properties that fail
(`AcceptedCancelKept`, `ConsentIsGiven`, `PurgeLeavesNothing`, `BaselinesSucceed`) have counterexamples instead of proofs. `Alone` and `Few` are premises over whole behaviours; the runs of the
worker satisfy them where the properties need it (one process; `ListLimit` above the number of jobs).

## Not modelled

- The static rules, dependency and eval checks: pure functions of text and syntax trees; `Diagnosis` takes their result as a
  constant. Likewise the parsing of manifests, settings and transcripts, and where directories lie.
- Rendering, data classes, export archives: layout.
- Telemetry: an opt-in flag and one request per event that nothing waits for.
- The ciphers, the socket library, the container engine and the credential stores: external; modelled by what the code relies on.
- `materialize_snapshot`, the rotation of keys, deletion of the whole state, the subcommands that only print.
- Of the sandbox, the options that confine a container and the proxy: a matter of what the container engine does with them.
- Bootstrap and benchmark: installation and measurement scripts outside the service.

What could be added next: a refinement of `Worker` by `CheckClient`'s coarser execution; the liveness properties, should the prover come
to reach them; the other budgets of `performance.py` beside latency and context.
