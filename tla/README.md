# Formal models of multiplai-core

TLA+ models of `multiplai_core`, the Python package under `src/multiplai_core/`
that the other parts of multiplai are built on: it runs agents (the Claude
Agent SDK and the Pi coding agent) with timeouts and retries, keeps logs, run
records and a spend budget on disk, and keeps the specifications of changes.
TLC checks the models on small instances; TLAPS proves theorems about all of
them, for every value of their constants. Paths below are relative to
`src/multiplai_core/`.

## 1. The system

The package is a library. A plugin's *hook* is a short process the harness
starts and may kill; a *pipeline* is a long process with many asyncio tasks.
Processes share no memory and no server. What they share is files: the error
log and the logs of components, `runs.jsonl`, the cost ledger, `.change.yaml`,
the registry of requirements, checkpoints, and what Claude Code writes: the
transcripts of sessions and the settings of plugins. Inside a process the package uses asyncio (one event
loop), a timer thread in a hook, and a lock around the resolving of paths.

| Component | State | Operations | Talks to | Modelled |
|---|---|---|---|---|
| Agent runner, `agent_runner.py` | loop variables of one call: counted failures, network deadline and backoff, the tasks and debug log of each attempt | `run_agent` | Claude SDK (external), `aio`, cost ledger, spend ledger | `AgentRun` |
| Hard timeout, `aio.py` | the task it started | `hard_timeout` | its caller's event loop | in `AgentRun`, `PiRun` |
| Pi backend, `pi/backend.py` | attempt index, outcome of the attempt, the driver task | `run_pi_agent`, `supervise`, `_drive`, `_send_abort` | Pi (external) by `pi/rpc.py` | `PiRun` |
| Pi transport, `pi/rpc.py` | process, stderr task, line buffer | `spawn`, `send`, `stream`, `close`; `LineFramer` | operating system | `PiRun` (no framing) |
| Spec store, ready record, `specs.py` | `.change.yaml`, spec files | `mark_ready`, `mark_draft`, `set_spec_issues`, `is_ready` | editors, other processes | `ReadyRecord` |
| Spec store, archive, `specs.py` | registry files, `archive/` | `archive_change`, `merge_delta_requirements` | file system, other archivers | `ChangeArchive` |
| Error log, `log_utils.py` | `hook-errors.log` and dated files | rotation, error handler, sweep | other processes, shell hooks | `ErrorLog` |
| Hook run, `log_utils.py` | stages, timer, lines | `hook_run`, `stage`, `_watchdog` | its timer thread, the harness | `HookRun` |
| Run records, `runs.py` | `runs.jsonl` | `append_row`, `read_rows` | other processes | `RunsFile` |
| Spend ledger, `budget.py` | totals, per stage, ceilings | `start`, `check`, `record`, `to_state`, `load_state` | asyncio tasks, checkpoint | `SpendLedger` |
| Checkpoint, `checkpoint.py` | one file | `save_model`, `load_model` | spend ledger | in `SpendLedger` |
| Cost ledger, `costing.py` | one JSONL file a month, `pricing.json`, its cache in a process | `append_records`, `iter_ledger`, `session_msg_index`, `load_pricing`, `refresh_pricing` | the collector of the context plugin (external), the runner, the pricing page | `CostLedger` |
| Banks, `banks.py` | list of banks | `load_banks`, `bank_ref`, `parse_bank_ref` | configuration, file system | `Banks` |
| Component logs, `log_utils.py` | dated files of a component, files of old releases | `_DatedRotatingFileHandler`, `_merge_or_rename`, sweep | other processes of the component | in `ErrorLog` |
| Model and effort of a step, `session.py`, `env.py` | the environment of a run, `multiplai.conf` | `session_model`, `pin_session_settings`, `default_model`, `default_effort` | Claude Code, which writes the transcript; child processes | `SessionModel` |
| Paths, `paths.py` | `_cached_paths`, its lock | `get_paths`, `Paths.resolve`, marker walk | threads of the process, `plugin_options` | `Paths` |
| Plugin options, `plugin_options.py` | cache of the saved options | `option`, `_plugin_id`, `_saved_options` | settings and plugin record of Claude Code | in `Paths` |
| Choice among arguments, `env.py` (`pick_*`), `stage_config.py` | none | pure functions | | no |
| Model client, `model_client.py` | the provider registry | one call of an API | vendor's client (external) | no |
| Configuration, `config.py` | one file | atomic write | file system | no: same pattern as the checkpoint |
| Event parsing, text, citations, structured answers, untrusted text, progress, exports | none | pure functions on strings | | no |

### What is hard in it

* **Time against answers.** A CLI that hangs does not honour cancellation, so
  `hard_timeout` cancels its task and returns without waiting for it. Attempts
  that were given up live on beside the retry. A free retry for network
  errors has a deadline of its own, beside the budget of attempts. Pi is asked
  to stop before it is killed, under a second timeout.
* **Cancellation.** Any await may raise `CancelledError`; what is cleaned up
  depends on which one.
* **Files without locks.** Rotation, sweep, `.change.yaml` and registry are
  read and then written in separate system calls, by processes that may be
  killed between any two, or run two at a time: two that rotate one log, or
  archive different changes of one capability.
* **Short writes.** `os.write` may write less than it was given.
* **A thread beside the body of a hook**, which reads a dictionary the body
  changes.
* **Collect again and again.** The collector prices only the messages it does
  not find in the ledger; a torn line hides the message next to it, and a cache
  outlives the file it was read from.
* **A configuration in any order.** Banks may nest either way round, repeat a
  name, or fail to parse, and the personal one may be moved on top of another.
* **Reading backwards while another writes.** The model of a session is looked
  for from the end of a transcript that Claude Code appends to, in chunks that
  cut lines anywhere.
* **Values that are looked up once.** A pinned model, cached options and cached
  paths stay while the session, the settings, the plugin and the directories
  change; a process and its children, or a hook and a script, should agree.
* **Check, await, record**: the budget is checked before a call and charged
  after it, with other tasks running in between.

PROJECT.json lists each of these at its line, with the properties that would
catch it going wrong.

### What makes each component correct

* Agent runner: a budget that no number of free retries stretches; a usage
  limit that ends the call; at most one attempt that was not cancelled (one
  that was may hang on beside the retry); a heartbeat that does not outlive its
  attempt; at most one cost record, of the last attempt; an end.
* Pi backend: a result exactly of an attempt that went well, by what its own
  process did; a bound on the time of `supervise`; no process left behind; every
  attempt billed, or its bill lost with a warning; an end.
* Ready record: "ready" said of files that stood there together, and that some
  `mark_ready` has recorded.
* Archive: the registry reflects the deltas, whatever was run twice and
  whoever else archives.
* Logs: no line lost to rotation, migration or roll-over, but in the two cases
  section 3 names; a sweep deletes old files.
* Hook run: the ENTRY/EXIT pair tells how the run ended; a hang is reported.
* Run records: an acknowledged row is read; a loss shows, to a reader that can
  read the file.
* Spend ledger: bounded overshoot; a resume keeps what was spent; the breaker
  is final.
* Cost ledger: a message is counted once, whatever failed, and in the end it is
  counted; a model of the package is never priced at the fallback rate; a pass
  that refreshed the prices uses them.
* Banks: a file belongs to one bank; whether the personal bank moves does not
  depend on the order of entries; the first entry of a name decides what becomes
  of it, and a reference to a bank leads back to it.
* Model of a step: the scan finds the last model of the transcript; a pinned
  run and its children keep their model and effort; a lookup ends.
* Paths: one set of paths a process; a hook and a script of one plugin agree;
  the walk finds the nearest marker and, for a project below `$HOME`, stays
  below it; the lock comes free.

## 2. The modules

| Module | What it is |
|---|---|
| `RetryPolicy` | abstract: what both backends promise about retries |
| `AgentRun` | `run_agent`; implements `RetryPolicy` (`KeepsRetryPolicy`) |
| `AgentRunProofs` | theorems about `AgentRun` |
| `PiRun` | `run_pi_agent`; implements `RetryPolicy` with the window closed |
| `PiRunProofs` | theorems about `PiRun` |
| `ReadyRecord` | `.change.yaml` of one change |
| `ChangeArchive` | two archivers of changes, and the registry |
| `ChangeProofs` | theorems about `ReadyRecord` and `ChangeArchive` |
| `ErrorLog` | rotation, roll-over, migration and sweep of the shared log and of a component's log |
| `HookRun` | one hook run and its watchdog thread |
| `RunsFile` | `runs.jsonl` |
| `LogProofs` | theorems about `RunsFile`, `HookRun` and `ErrorLog` |
| `SpendLedger` | budget and checkpoint |
| `SpendLedgerProofs` | theorems about `SpendLedger` |
| `CostLedger` | the cost ledger, its collector and its prices |
| `CostLedgerProofs` | theorems about `CostLedger` |
| `Banks` | loading of the memory banks |
| `BanksProofs` | theorems about `Banks` |
| `SessionModel` | the model and effort of a step: transcript, pin, configuration |
| `Paths` | `get_paths` in the threads of two processes, over the plugin options |
| `SettingsProofs` | theorems about `Paths` and `SessionModel` |
| `MC*` | the instance of each module that TLC checks |

The map in PROJECT.json gives the lines of every definition. A definition named
`...Mutant` is a plausible mistake in the definition that follows it; replacing
one by the other makes TLC find the property named in PROJECT.json violated.

### AgentRun

One action is the code between two awaits of `run_agent` (coroutines of one
event loop are not preempted). `pc` is where the call stands: `opening` an
attempt, `consuming` (in `hard_timeout`), `teardown` (in the `finally` that
awaits the heartbeat), `backoff`, `ended`. `HandleFailure` is the whole
`except` block: `StopAtLimit`, `RetryForFree` or `CountFailure`, then the close
of the debug log. `LeaveAttempt` is what follows the `finally`. The `_consume`
tasks are sets of attempts: `running`, and `cancelling` once `hard_timeout` has
cancelled them; nothing makes them end. `Cancel` is the caller cancelling at
any of the three awaits, with what each really does: in `hard_timeout` the
inner task is left alone, and in `finally` `suppress(CancelledError)` takes the
cancellation for the heartbeat's. Times are ticks of the loop's clock; the
clock advances only while the call waits. `RecordCost` may fail, which is logged
and swallowed; `unrecorded` is history and holds such attempts. Data left out: messages,
tool-deny hooks, stderr text, the class of the exceptions beyond the four kinds
the handler tells apart.

`KeepsRetryPolicy` maps `pc`, `outcome` and `retry` to the status of the
abstract call, `countedFailures` to the budget used, and the network deadline
to the window.

### PiRun

The clock is the attempt's. `driver` is the `_drive` task inside `supervise`:
prompting, reading, writing an abort at `max_turns`, reading for the grace
period. Pi is external: any event of its protocol, an exit, no reading, silence;
what it wrote before it exited is still read from the pipe.
`TimeoutFires` cuts the driver off wherever it is and writes a last abort
under a second `hard_timeout` (`FinalAbortEnds`). `close` is `ProcessReaped`
then `StderrDrained`. `FailureClass` is the classification in `run_pi_agent`,
which reads `out`, the outcome that `supervise` hands on. What the process
of the attempt really did is `met`, a history variable that the steps of Pi fill:
`RunSucceeded` is about it and about where the driver was, and not about the
fields `FailureClass` reads, so that `ResultIffRunSucceeded` compares what
happened with what was told. `Bill` may fail, which is logged and swallowed
(`unbilled`).

### ReadyRecord

`write_change_meta` is a read of the record and, later, a replacement of the
whole file. `is_ready` reads the record, then `spec_files` asks whether `plan.md`
counts (`ChoosePlan`), what is in `requirements/` (`GlobRequirements`) and
whether each candidate is there (`ListFile`), and `spec_revision` reads each file
listed (`ReadFile`). Each is a step of its own, with an editor between, who may
also remove a file or put an earlier content back. A digest is the record of the
versions read, so equal digests mean equal contents. History: `then` is the disk
when the record was read, `undone` the files removed or put back to an earlier
content since then, and `recorded` the revisions `mark_ready` has written.

`ReadyIsOneSnapshot` exempts the files in `undone`: an edit that is undone is for
`is_ready` no edit, so the files it has read, each as recorded, may not have
stood there together (a checkout and back while it hashes). It also leaves out
the `plan.md` of a change: when `specs.md` is away for the moment in which
`spec_files` asks for it, the plan is not hashed at all. `ReadyWasMarked` has no
exemption: not even a lost update makes something ready that no `mark_ready` has
hashed.

### ChangeArchive

Two processes archive different changes, which share registry files; there is
no lock. A file is a sequence of blocks (name, text), read in `ReadTarget`,
emptied in `Truncate` and written in `Write` (the two halves of `write_text`).
A process may be killed between any two steps, and the caller then runs
`archive_change` again from the first delta. `DeltasOf` and `TableOf` are the
changes: in the instance they list components twice, have deltas of one
capability in two components, and one of a capability without a file. `Move`
puts the change into the archive of the day the run began. History variables:
`outdated`, who holds a file that was written since it read it; `spoilt`, the
files that a kill left torn or that were written over an unread write;
`outcome`, the last delta written that names a requirement. `DeltasAreApplied`
says what a file that is not spoilt must hold, and that whatever was archived
has been merged. Two processes that archive the same change are left out.

### ErrorLog

A file is an inode: `current`, `dated` and `legacy` are names, `handle` what a
process has open. `owners` are the processes of the component whose log this is;
they have both logs. The others are of another component: they share
`hook-errors.log`, and their sweep migrates and deletes the files of every
component. `Stat`, `Link`, `Unlink`,
`OpenErrorLog` are the rotation of the shared log; `MigrationFinds`, `Merge`,
`RemoveLegacy`, `Rename` bring a file of an old release to its dated name;
`SweepFinds`, `Delete`, `SweepEnds` prune old files of both logs: one system
call each. The handler of a component opens the file of the day
(`_DatedRotatingFileHandler`) and drops it at midnight, as its first line of
the new day would. Only error lines are modelled, which go to both logs of a process. A
migrated line has a copy for a while, so a line has a number, and `NoLineLost`
asks for one copy under some name. Times are days; a file that turns as old as
the retention today may be taken for older or not, since that depends on the
hour. Shell hooks append by name (external). The shared log never had the
names of the old release, so only the component's file is migrated. A process
may be held up at any step, over midnight too. Lines are lost in two cases, which
`NoLineLost` exempts and two history variables mark: `heldUp` (how many files the
shared log had had when midnight first came while a process was rotating; a later
file may be unlinked in its place) and `replaced` (files of the component that a
process of another one has renamed the old file over).

### HookRun

The main thread and the timer thread interleave at every step that touches
what they share. `BeginWalk` and `EndWalk` are the iteration of
`_stages_field`, which raises when a key was added meanwhile; the watchdog then
writes nothing. `HangIsReported` is therefore about a body that hangs. A hook
may be killed at any step, hang, or end.

### RunsFile

The file is a sequence of pieces: a row is a head, then a tail with the
newline. A head alone may be a stub or a whole JSON object. `Readings` is what `read_rows`
may return on the file: `Rows` and `Skipped`, or, when the file cannot be read, no
rows and nothing skipped. `style` is what a row means to the
reader: plain, holding a Unicode line separator, or of a newer version.

### SpendLedger

`record` and `check` have no await, so each is a step. Costs are integers in
millionths of a dollar, the precision the checkpoint keeps. A pipeline saves when it
likes, is killed, and starts from what was saved; the first checkpoint may
be of a release that had no stages. `restored` is history.

### CostLedger

Two processes write: the collector, external, of which the code in `costing.py`
fixes the order (refresh, index, build, append), and the runner, which
appends a record when a run ends. A ledger file is a sequence of pieces: whole
lines, stubs, and objects that lack only their newline. `AppendRecords` is one
write of the buffer; `WriteFails` is a write that stops in the middle, or a kill
there; the exception leaves the pass. `ReplaceFails` is an error of a file
operation of `refresh_pricing`, which leaves the pass as well. `IsRead` says which pieces `iter_ledger`
takes for a record, and `SessionMsgIndex` is built from it, so that a message a
tear has hidden is appended again. `ByMonth` holds the order `append_records`
writes them in, month after month. A price is the version of the page it was
read from; `cache` is `_pricing_cache` of each process. The amounts
themselves, and the parsing of the page, are left out: a page is the set of
models it lists, and `MayFetch` is the floor on their number.

### Banks

`load_banks` entry by entry. Directories are resolved paths in a tree given by
`Below`. Parsing compares an entry with nothing but the names seen; the
relocation of the personal bank is settled against the candidates;
`FilterNext` is one step of `_without_overlaps`. `Init` takes every
configuration up to `MaxEntries` entries. `FirstEntryDecides` looks at the first
entry of each name. If it is usable and apart from the banks around it, its bank
comes back and references to it lead to it (`bank_ref`, `parse_bank_ref`); if it is
not usable, no bank of that name comes back, whatever follows. Mode, remote and sync are left out:
they decide nothing about which banks come back.

### SessionModel

A transcript is a sequence of bytes: a line is a head, bodies and an end, then
the newline, and every byte carries the model of its line. Claude Code
(external) appends bytes in order; after a kill a line may begin anywhere.
`OpenFile` notes the size, `ReadChunk` reads one chunk further back and looks
at the lines it completes, and `ReadStart` ends the scan at the start of the
file: the loop of `_last_model_in`. `BeginStep` and `EndStep` are `default_model` and
`default_effort`; `multiplai.conf` is read in each of them, and edited at any
time. `BeginPin` and `EndPin` are `pin_session_settings`, after which `Spawn`
copies the environment to a child. `promise` is history: what a run was pinned
to. The transcripts of a session id may be several; `OpenFile` takes them in
any order, since the order of a glob is the file system's. An `OSError` in the
middle of a scan, which ends it as if there were no model, is left out.

### Paths

Threads of a process call `get_paths`: a look at the cache, the lock, a second
look, then one step for each option that `Paths.resolve` asks for and one for
each directory of the marker walk, and `Publish`. Resolving raises for a path
that `expanduser` rejects, and `with` then frees the lock. A hook has the
options in its environment; a script asks `plugin_options`, which finds the
plugin by the record of installed plugins or by the layout of the plugin cache
(a session may run on with a superseded version), and reads the settings once.
Settings, installed versions and `.multiplai` directories change meanwhile.
`read`, `ever` and `always` are history: the settings a process has looked at,
and the markers that were there at some time, or all the time, of a walk. The walk
compares a resolved directory with `Path.home()` as it is: with `env.home = None`
that goes through a symlink, and the walk passes `$HOME` by (`StopsAtHome`). Left
out is a `settings.json` that is torn or cannot be read, which counts as one
without options for the rest of the process (`plugin_options.py:183`).

## 3. The runs

Times are of two workers. CHECK_DEADLOCK is off everywhere: each model stops
when the call, run or day limit is over.

| Run | Instance | Shows |
|---|---|---|
| `agent_run` | 2 attempts, timeout 1, window 3, backoffs 1 and 2; 0.8 M states | safety of a call, contract, end. The window holds several free retries, of which the last is cut to what is left of it, and closes while attempts are running |
| `pi_run` | 2 attempts, 2 turns allowed of at most 3, timeout 4, abort write 1, grace 2; 75 k | safety, contract, end. The timeout can fall before, in and after the grace period and the abort |
| `ready_record` | 2 processes, a change with `plan.md` and `specs.md`, 3 edits; 3.4 M | is_ready speaks of one snapshot, and of what was marked |
| `change_archive` | 2 processes, 2 changes, 2 capabilities, 2 runs each, 2 days; 2.1 M | what the registry holds after interrupted, repeated and concurrent merges |
| `error_log` | 2 processes, each of the component or of another one, 3 days, 2 lines, retention 0 or 2, a file of an old release; 5.3 M | what rotation, roll-over and migration can lose; what a sweep deletes |
| `spend_ledger` | 2 tasks, 2 stages, 4 calls, ceilings of 2; 0.9 M | overshoot, resume, breaker |
| `cost_ledger` | 3 messages in 2 months, 2 models, 1 run, 1 change of the page, 2 failures; 0.6 M | messages counted once, and in the end; prices |
| `banks` | 5 directories, 2 names, all configurations of at most 4 entries; 2.3 M | one bank per file; no order decides a relocation; what the first entry of a name decides |
| `runs_file` | 3 writers, 1 short write, 2 kills; 0.2 M | which rows are read; every append comes back |
| `hook_run` | 3 stages, 4 entries; 83 k | lines of a run; a hang is reported |
| `session_model` | a pipeline and a child, 2 models, 5 bytes in chunks of 2, 1 torn line; 0.3 M | the scan finds the last model; a pin holds; a lookup ends |
| `paths` | a process of 2 threads and one of 1, projects below, beside and above `$HOME`, 3 directories that may have a marker, walk of 2, 1 change, `$HOME` with or without a symlink; 0.8 M | one answer a process; processes agree; the walk; the lock |

Why the bounds are enough: two processes or tasks are all that each of these
races needs, and a third actor (an editor, a shell hook, the reader, the
harness) is there wherever the code has one. `RunsFile` has three writers
because a row is judged by the row before it, which may itself follow a cut
one. Two attempts show every transition between attempts; free retries come on
top, until the window closes. Three days let a file be rotated, aged and swept;
a retention of two days lets a file be old on the last one only. Two lines, beside
that of the old release, are one in a fresh file and one before it. The requirements
and the proposal are left to the proof of `ReadyRecord`: `plan.md` and `specs.md` are the files that
depend on each other, and in three edits a file is written, changed or removed, and
put back.
In `CostLedger` two failures let a second tear fall
beside the record that was appended to mend the first, and one month is shared
with the runner while the other is not. In `Banks` four entries are
a relocation, two banks that nest and one more that fails or repeats a name,
in any order; two of the five directories can be shared banks side by side,
and the others have every way two directories can lie to each other. In
`SessionModel` five bytes hold a whole line and a torn one, or two short ones,
so that a line may be longer than a chunk, end at its edge, or be growing; there
is one transcript file, since files are scanned one after the other. In `Paths`
one project lies right below `$HOME`, one beside it and one is the directory above
it, which is further up than the walk from the first goes; there is one plugin, in
two versions; and
one change is enough to fall between any two steps of a walk or a resolution.

Symmetry is used on process names, tasks and stages, and only in runs without
liveness. Three instances carry a constraint that leaves out interleavings of
steps that commute or states of which nothing more is said, and the MC module
gives the reason: `OneAtWork` and `OneAfterAnother` (processes that share only
files neither writes; of the second one `Paths` takes a single project to walk from), `OneIsSound` (both registry files spoilt).

### Disagreements with the documentation

Met while modelling:

* `read_rows` returns "every row"; a row with U+2028, U+2029 or U+0085 in a
  string is acknowledged by the writer and cut by `splitlines` in the reader
  (`runs.py:178`, `191`). It counts as skipped (`LossIsCounted`), and
  `WrittenRowIsRead` leaves such rows out.
* The watchdog "writes a line if the body is still running"; a stage that
  ends during its walk over the stages raises a `RuntimeError` that is
  swallowed, and no line is written (`log_utils.py:775`, `804`, `863`).
* `read_rows` returns no rows and zero lines left out for a file that it cannot
  read (`runs.py:187`), which a caller cannot tell from an empty one.
  `WrittenRowIsRead` and `LossIsCounted` speak of readings that did not fail.
* `mark_draft` says `is_ready` is False until `mark_ready`; a concurrent write
  that read the record before it puts "ready" back (`specs.py:527`, `674`). A
  property that denies it was violated in TLC, and none is left that does:
  `ReadyWasMarked` says what holds in spite of it.
* `is_ready` is said to be True of specs "unchanged since" they were marked
  (`specs.py:613`); edits that are undone while it hashes are not noticed, and
  `plan.md` may be left out of both digests (ReadyRecord in section 2).
* The error log says nothing is shortened by a rotation; one that is
  held up over midnight unlinks the new day's file (`log_utils.py:196`, `214`).
  Lines of files made after such a stall are exempted in `NoLineLost`; without the
  exemption TLC finds this loss.
* `_merge_or_rename` says that two processes that cross midnight lose nothing;
  `rename` replaces a file that was made since `exists` (`log_utils.py:185`,
  `190`). A process of the component cannot get there, since it makes the day's
  file before it sweeps (`Migration`); one of another component can, while a process of
  the component opens that file. `NoLineLost` exempts lines in files so replaced.
* The sweep trusts the time of the file it looked at and deletes a name. With
  three processes the name can go to another file in between
  (`log_utils.py:213`, `248`): one has looked at `hook-errors.log` and not yet
  linked it; a second rotates it, opens a new one, and looks at the dated name
  in its sweep; a third deletes that name; the first links the new file to it;
  the second deletes it, with the lines of today. `SweepDeletesOldFiles`
  therefore speaks of a file of the shared log only while it has the name it was
  looked at under; TLC's instance has two processes, in which the name never goes to
  another file, and the theorem is about any number.
* `AgentRunTimeout` is said to be raised when every attempt timed out; the
  last one decides (`agent_runner.py:914`, `1272`, `1397`).
* A failed call records the usage of its last attempt only
  (`agent_runner.py:1395`); the Pi backend records every attempt. In both a failed
  append is logged and swallowed (`agent_runner.py:819`, `pi/backend.py:559`), so
  even that usage may be nowhere: `LedgerHoldsFinalAttempt` and
  `EveryAttemptBilled` say "or its append failed".
* A retry is meant to start afresh, but a CLI that was cancelled and hangs may run
  beside it (`agent_runner.py:1245`); `OneLiveConsumer` counts uncancelled tasks.
* `hard_timeout` does not cancel its task when the caller is cancelled
  (`aio.py:25`, `37`).
* Two archives of one name on one day nest (`specs.py:469`, `482`).
* A short `os.write` still returns True (`runs.py:154`, `166`).
* Two archivers of different changes that meet in one registry file lose the
  update of the first; a shorter text written into a file that another has
  just written leaves the end of the longer one (`specs.py:454`).
  `DeltasAreApplied` exempts files marked `spoilt`.
* The first delta of a capability without a file becomes its file as it is
  (`specs.py`, `merge_delta_requirements`): the requirements it says it removes
  are in it, and one that it repeats with another text is there twice. The first
  is exempted in `Shows`; that the second does not happen is the hypothesis of
  the theorem, `DeltasAreClear`.
* A WATCHDOG line written between the building and the writing of the EXIT line
  is not marked on it, and the line may follow the EXIT line, since the thread
  runs on until the interpreter exits (`log_utils.py:809`, `916`).
* A logging setup that failed half way is not tried again: the next call finds
  handlers and returns (`log_utils.py`, `setup_logging`).
* "A retired model stays priced" holds of the models of the package
  (`BundledStaysPriced`). A model launched after the release and retired later
  leaves the refreshed file with the page and is priced at the fallback rate
  (`costing.py:27`, `81`).
* A process that finds the price file young keeps the table it has, though
  another process has replaced that file meanwhile (`costing.py:249`);
  `PassUsesItsRefresh` is about the process that refreshed.
* `refresh_pricing` is said never to raise ("a pricing refresh must not stop a
  collect pass", `costing.py:244`); an `OSError` of its `mkdir`, `write_text` or
  `replace` leaves it and the pass (`costing.py:265`; `ReplaceFails`).
* Failures of `append_records` are said to be logged and re-raised; they are
  only re-raised (`costing.py:433`).
* Banks are said not to depend on the order of entries. The relocation does not
  (`RelocationIgnoresOrder`); of two shared banks that overlap, the first one
  is kept (`banks.py:580`).
* An unusable entry is said to cost itself and nothing else; it also takes its
  name, so a later, usable entry of that name is skipped (`banks.py:514`, `523`):
  of `a` with a bad path and then `a` with a good one, no `a` comes back. A property
  that said otherwise would be violated; `FirstEntryDecides` says what happens.
* A run is pinned only to a model that was found; with none, its children look
  for themselves, and may find one that the session has got meanwhile
  (`session.py`, `pin_session_settings`). `PinHolds` speaks of pinned runs.
* A misspelt `MULTIPLAI_EFFORT` in the environment hides a valid one in
  `multiplai.conf` (`session.py`, `default_effort`).
* `multiplai.conf` is read twice for a step, so its model and effort may be of
  different versions of the file.
* "`$HOME` itself does not satisfy the marker test" (`paths.py:81`): the walk
  resolves the project's path and not `Path.home()` (`paths.py:93`, `96`), so it
  does when a symlink leads to `$HOME`, and so do the directories above. For a
  project outside of `$HOME` these may count anyway (`StopsAtHome`).
* A path option like `~nobody/notes` makes `get_paths` raise, though a bad
  option is said never to crash a hook (`paths.py`, `plugin_options.py`).

Met, and outside the models:

* A record without `ts` is written to `ledger-unknown.jsonl`, which
  `iter_ledger` does not read by month name; every pass would append it again
  (`costing.py:425`, `482`). `CostLedger` has messages with a month only.
* A session id with transcripts in two project directories: the order of a glob
  decides which is read (`session.py`). `SessionModel` takes them in any order;
  its instance has one.
* Two threads that ask for the saved options at once may each parse the
  settings, since `lru_cache` runs its function outside its lock
  (`plugin_options.py`).

### Fairness

* `AgentRun`, `PiRun`: weak fairness of the steps the event loop schedules and
  of timers that are due. Pi, the SDK and cancelled tasks have none, so
  `CallReturns` holds though they hang. In `PiRun` the operating system also
  answers a spawn, and reaps a killed process.
* `RunsFile`: weak fairness of every process, killed ones apart. It covers the
  lock too: `flock` queues its waiters, and each writer holds it once.
* `CostLedger`: weak fairness of the collector's `Pass`. The harness starts it
  again and again, which is outside this package: `EveryMessageIsRecorded`
  says what repeated passes achieve. Failures, kills and changes of the page are
  bounded and have none.
* `HookRun`: weak fairness of the timer thread (a daemon thread gets the
  interpreter's lock sooner or later). None of the body.

* `SessionModel`: weak fairness of `Proceed`, the steps of a process that has
  begun a lookup or a step. Claude Code has none, and may write meanwhile.
* `Paths`: for each process, weak fairness of the thread that resolves. Locks
  need not be fair: what is shown is that the lock comes free, not that a given
  thread gets it.

`ReadyRecord`, `ChangeArchive`, `ErrorLog`, `SpendLedger` and `Banks` have no
liveness: nothing in the code makes a caller go on.

## 4. The proofs

TLAPS checks the eight proof modules to the last leaf. Assumed are the named
assumptions of the modules: constants are numbers, times are
not zero, the sets of tasks and of messages are finite, a run has not the id of a
message, directories form a tree, a path is a sequence of names, no thread
belongs to two processes, and a sentinel such as `Unset`, `NoWriter` or `Fallback`
is none of the values it stands beside. One theorem has a hypothesis more,
which its statement shows and the section below explains:
`RegistryHoldsWhatIsArchived` (`DeltasAreClear`).

### AgentRunProofs

For any `MaxAttempts` (zero and negative too), timeout, window and backoffs:

| Theorem | Property |
|---|---|
| `TypeCorrect` | `TypeOK` |
| `LimitNeverRetried` | `UsageLimitIsFinal` |
| `FreeRetryInWindow` | `FreeRetryStartsInWindow` (proved only) |
| `HeartbeatOrdered` | `HeartbeatFollowsAttempt` |
| `NoCompetingConsumer` | `OneLiveConsumer` |
| `FinalAttemptRecorded` | `LedgerHoldsFinalAttempt` |
| `BudgetHolds` | `HardFailuresBounded` |
| `ImplementsRetryPolicy` | `KeepsRetryPolicy` |

Each has an invariant that is inductive beside `TypeOK`. What they add is what
the code relies on without saying so: between attempts only earlier tasks
are being cancelled and none runs; counted failures stay below the budget
until a call gives up; a usage limit sets `outcome` before anything can open an
attempt. `BudgetHolds` cannot count over `failures` directly: the proof keeps,
as an invariant, that the hard failures are no more than `countedFailures`, plus
one when a usage limit ended the call, and uses the cardinality theorems for
one added element. The refinement shows that initial states map to initial
states and that each action is a step of `RetryPolicy` or a stutter; the one
that needs care is `Tick`, under which an open window may close.

### PiRunProofs

For any `MaxAttempts`, number of turns, timeout, grace period and time for the
last abort:

| Theorem | Property |
|---|---|
| `TypeCorrect` | `TypeOK` |
| `ResultIsSuccess` | `ResultIffRunSucceeded` |
| `SuperviseIsTimely` | `SuperviseReturnsInTime` |
| `ProcessIsReaped` | `NoProcessLeft` |
| `AttemptsAreBilled` | `EveryAttemptBilled` |
| `ImplementsRetryPolicy` | `KeepsRetryPolicy` |

The bound on the clock is not inductive. `ClockInv` adds which deadline holds
where: the run's own until the timer fires, then that of the last abort, which
is set once, `AbortWrite` later. `ProcessInv` says that past `ProcessReaped` no
process is alive, so that only a cancelled close can leave one. `BillInv` says
that an attempt that has not started has consumed nothing, which is why the
next one cannot owe what an earlier one has used, and `OutcomeInv` that the
call is decided in no place but classification and cancellation. `MetInv`, for
`ResultIsSuccess`, is about two accounts of one attempt: `OutcomeIsMet` says that
the fields of the outcome agree with what the process was seen to do (`met`), and
that the outcome says "timeout" exactly when the driver was cut off, also when it
had reached `max_turns` before; `DriverMeets` shows it of each step of the
driver, and `ClassIsRight` that the classification then answers as `RunSucceeded`
does. The driver
moves in nine ways; `DriverOutcome` collects what all of them leave as it was, and
`StepPreserves` treats it as one. The refinement is that of `AgentRunProofs`
with a window that is always closed.

### ChangeProofs

`ReadyRecord`, for any spec files, processes and number of edits, for a change and for a
component:

| Theorem | Property |
|---|---|
| `TypeCorrect` | `TypeOK` |
| `ReadyIsASnapshot` | `ReadyIsOneSnapshot` |
| `ReadyIsMarked` | `ReadyWasMarked` |

`is_ready` reads the record, looks for the files, reads them one by one, and yet what it has
compared when it says yes stood on the disk at one moment. The argument is one
of age: a record holds versions written before it was read, so what has changed
since and was not undone is newer than what the record can hold (`Newer`), on
the disk (`DiskIsLater`) as in what was hashed (`ViewIsLater`), and a digest with it in does not
match. A file that was not listed was not there (`PassedOver`), or was removed
since, or is a `plan.md`. That needs `Made`: every version on the disk, in the
record and in the view of a call comes from an edit that was made. `Marked`, for
the second theorem, says that a revision in the record, or in the copy of it that
a call will write back, is one that `mark_ready` has recorded: a lost update
brings back an old record, never a new revision.

`ChangeArchive`, for any processes, changes, components, deltas, registry files, days
and number of runs:

| Theorem | Property |
|---|---|
| `RegistryHoldsWhatIsArchived` | `DeltasAreApplied` |

The proof has a part about `apply_delta` and one about the steps. `Follows` says
that a file shows the outcome of every requirement and that, without the
requirements that were written, it is the first file without them. `ApplyFollows`:
a delta applied to a file that follows some outcomes gives one that follows them
with its own put over them, whatever the file repeats and whether or not the
delta has been applied before. It rests on lemmas about `Dropping`: what it
leaves, that it can be done twice, and that it may be swapped with appending and
replacing. `Dropping` is defined by recursion over the file, and induction with a
predicate is out of the prover's reach; `BuiltByAppending` states it with a
set (a set of sequences that has the empty one and is closed under appending
has them all) and is proved from the least number. `MergeFollows` adds the
case without a file, which needs `DeltasAreClear`: what one delta for such a
capability modifies, it says once. A change may break that, and then the file
holds both texts, as section 3 says.

The invariant is `ArchiveInv`. `FileInv` says that a file nobody is writing
follows its outcomes. `ContentInv` says it, one delta further, of the text a process holds
between its read and its write, as long as nobody has written the file since
(`outdated`). A truncated file follows nothing: between `Truncate` and `Write` both are silent, and
a kill there makes the file `spoilt`. `MergedInv` ties what was merged to the
outcomes: of the deltas a process has merged, the last that names a requirement is
the last written of it, or another change has written it since. With `DistinctInv`,
no two processes archive one change, that gives the half of `DeltasAreApplied`
that speaks of the end of a run. The proof found a mistake in the model that
TLC's instance could not show: the operation of a delta on a name it both
modifies and removes was a CASE with overlapping guards (`OpOn`, now an IF
in the order of the code).

### LogProofs

For any writers, and any number of kills and of short writes (`RunsFile`); for
any stages and number of entries (`HookRun`); for any processes, days and
number of lines (`ErrorLog`):

| Theorem | Property |
|---|---|
| `TypeCorrect` | `TypeOK` of `RunsFile` |
| `RowsAreRead` | `WrittenRowIsRead` |
| `LossShows` | `LossIsCounted` |
| `PairTells` | `PairTellsTheEnd` of `HookRun` |
| `NoLineIsLost` | `NoLineLost` of `ErrorLog` |
| `SweepsTakeOldFiles` | `SweepDeletesOldFiles` of `ErrorLog` |

The proof about `RunsFile` has two halves. The first is about the file. Whoever works on it
holds the lock and no two do, which `TypeOK` states; from that follow the four
parts of `FileInv`: a tail lies right behind the head of its row, a row has one
head, a head is followed by its tail unless it was cut or is being written, and
a row that was begun is in the file from then on. The second half is about the
reader and speaks of one file, not of steps: in a file with these parts, a whole
row that follows no cut one is a line of its own (`WholeRowIsRead`), which is
read if it is plain and counted if it is not, and every
piece lies in a line (`PieceIsInLine`), so that a reader that left out no line
has met every row. The line of a piece is found as the least end at or behind it
and the greatest start at or before it; `NatMin` gives both.

The log of a hook run: `EntryFirst` says that nothing is written before the ENTRY
line, which the timer thread starts behind; `BodyIsOver` that past the body
nothing changes that the EXIT line tells, and the line, once built, says it;
`OneExit` that there is one such line exactly when the process has got past
writing it. Three steps write a line (`LineWritten`); `QuietStep` covers the
rest, those of the timer thread in any order among them.

`NoLineIsLost` is not about lines but about names. In the shared log no
file is ever without one, unless it was made after a stall (`ErrorsNamed`), so it does not matter which handler is
still open on which file. Until midnight first comes while a process rotates, that holds because of
`OneRotation`: within a day all
who rotate have the same dated name in mind, so one links and the others fail,
and what it then unlinks is still what it has linked. After that (`AfterStall`),
what is unlinked either has a dated name or was made after the stall, and no older
file loses its only name. In the component's log a
line moves only in a migration. `Migration` says that a process of the component
finds the target of its rename free, which takes `OwnFiles` (day 0's file is made on day 0 by any process of
the component that gets that far), and that a file removed after a merge has been copied whole.
Given that no name is taken from a file but one that was renamed over
(`NamesStay`, `Replaces`), `LinesStep` follows.

The theorem about the sweep (`SweepInv`) needs a part for each log. In the component's log the name decides:
`OwnDays` says that a file takes no line after the day of its name and a file of an old
release has lines of its own day only, so that no line of a file whose name is
old enough is younger. It also says that a file has one name, which is why a migration
cannot bring lines under another one. In the shared log the time decides: a
file's time is that of its last line (`FileTimes`), so a file that was old when a
sweep looked holds old lines and those that came since (`ErrorSweeps`).
Both theorems are for any number of processes, of one component or of several.

### SpendLedgerProofs

For any ceilings, finite set of tasks, stages and costs:

| Theorem | Property |
|---|---|
| `TypeCorrect` | `TypeOK` |
| `OvershootIsBounded` | `OvershootBounded` |
| `ResumeKeepsSpend` | `CheckpointIsRestored` |
| `BreakerHolds` | `BreakerIsFinal` |

The bound is not inductive: it says nothing of calls under way. The
strengthening `Room` says that what has been spent, plus the most that the
calls under way can still cost, is within the bound: a call starts only below
the ceiling, and each task has one at a time. Two more conjuncts are needed:
no task is in a call while the process is down, and a task that was stopped
means that a ceiling is still passed (spending never falls within a process).

### CostLedgerProofs

For any finite set of messages, any months, models, runs and prices, and any
number of failures:

| Theorem | Property |
|---|---|
| `TypeCorrect` | `TypeOK` |
| `MessagesAreCountedOnce` | `RecordedOnce` |
| `PackageModelsArePriced` | `BundledStaysPriced` |
| `RefreshIsUsed` | `PassUsesItsRefresh` |

The index is read once, at the start of a pass, and used until its end, while
the runner writes to the same files and a write may tear. `OnceInv` says why
that is safe: a message on its way is not readable anywhere, and is on its way
once. It stays true because of `NothingBecomesReadable`: whatever is added to
the end of a file, a whole line, a part of one or an object without a newline,
no piece already there can be read that could not be read before.
`LedgerGrows` turns that into what one write of any writer can change. Reading an
object that lacks its newline is the delicate case: it is read as long as
it is last, and appending to it hides it, never the reverse. `RefreshInv` follows a
fetched page through the pass: it is in the file, and the cache is empty, before
a record is priced.

### BanksProofs

For any tree of directories, any configuration and any names:

| Theorem | Property |
|---|---|
| `TypeCorrect` | `TypeOK` |
| `NoFileInTwoBanks` | `OneBankPerFile` |
| `OrderDoesNotDecide` | `RelocationIgnoresOrder` |
| `FirstEntriesDecide` | `FirstEntryDecides` |

`OneBankPerFile` speaks of directories below two banks; the tree assumption
turns that into an overlap of the banks themselves, and the inductive
invariant `KeptApart` is that the banks kept so far overlap neither each other
nor the personal one. `RelocationIgnoresOrder` compares the result with a
description of the configuration that knows no order. It needs two
invariants: `ParsedIsKnown` ties `seen`, `candidates` and `personal` to the
entries parsed so far, in both directions, and `Settled` holds the answer from
the moment the relocation is decided. `FirstEntryDecides` speaks of the
configuration, and the filter of candidates: `CandidatesAreDeclared` says that
the candidates are the banks of the entries parsed so far, each name once, and
`KeptIsFiltered` that the filter has kept every candidate behind it that overlaps
no other. The other half, of a name whose first entry is unusable, follows from the same
two: a candidate of a name comes from its first entry (`FreshCounts`). `ReferenceLeadsBack` adds that a reference to a bank, one named like
the personal bank too, is parsed to that bank.

### SettingsProofs

The two modules of what a process resolves from its environment, its settings and
the disk. `Paths`, for any processes, threads, plugins, versions, options and directories, and
any depth of the walk:

| Theorem | Property |
|---|---|
| `TypeCorrect` | `TypeOK` |
| `PathsAreResolvedOnce` | `OnePathsPerProcess` |
| `PluginKeepsItsPlaces` | `ProcessesAgree` |
| `WalkFindsNearest` | `DiscoveryIsNearest` |

`LockInv` says that a thread that resolves holds the lock of its process, that
nothing is cached yet, and that whatever a thread was given is what is cached.
`ProcessesAgree` compares two processes that may differ in all but the settings
they looked at. `OptionsInv` therefore speaks of one: its plugin is found
(`PluginIsFound`: a path below any version of a plugin in the cache of Claude
Code leads to that plugin, which is a fact about `IsPrefix` and no particular
directory), every option it has been told comes from settings it looked at, and
once it has looked at one set of settings only, its paths are those of
`Resolved` for them. `OptionsDecide` is the step from there to two processes:
`Resolved` of the same options is the same, wherever the plugin is. `WalkInv` is
the loop invariant of the marker walk: where it is lies on the project's path
and, if `$HOME` stops the walk (`StopsAtHome`), not above it; and every marker that
counts (`Eligible`) and has been there all the time is no deeper.

`SessionModel`, for any chunk size, transcripts, processes,
values of `multiplai.conf` and environments, under its named assumption
(`ConstantsAreSound`: aliases stand for models, the chunk is not empty):

| Theorem | Property |
|---|---|
| `SessionTypeCorrect` | `SessionTypeOK` |
| `LastModelIsFound` | `ScanFindsLast` |
| `PinIsKept` | `PinHolds` |

`ReadingAt` is the loop invariant of `_last_model_in`: the bytes behind `pos` are
read, those up to `cut` are a piece of one line kept for the next round, a line
ends at `cut`, and no line of the file that starts behind `cut` has a model. A
round keeps it (`ChunkRead`): the complete lines of the buffer are lines of the
whole file (`PieceHas`), so a model among them is the last one of the file and
without one the invariant holds further to the front (`ChunkDecides`).
`GrowthKeeps` is why the session may write on meanwhile: appending changes no line
that ends in the part that was there, the unfinished one included, because the
size was noted when the file was opened. `PinInv` ties the promise to the
environment: a process that looks for a model was promised none, so what a lookup
finds never replaces a pin, and a pin that is repeated finds its own value. The
theorem also needs that a promise is never withdrawn (`PromiseStays`) and that
only `EndStep` leads from the effort to the run (`RunsAfterEndStep`). TLC
checked the invariant on the instance of the run before it was proved. The
proofs do not use the run's constraint that one process is at work at a time.

### Only model-checked

Liveness (`CallReturns`, `AppendReturns`, `HangIsReported`,
`EveryMessageIsRecorded`, `LookUpReturns`, `LockComesFree`), which TLAPS does
not do under fairness. All other properties of the runs are proved. The type
invariants of `HookRun`, `ErrorLog` and `ChangeArchive` that no theorem names are parts of the
invariants above or were checked by TLC while the modules were written. What the
`Behind` text of an overtaken write leaves in a file (`spoilt`) is in the model
and no property speaks of it.

## 5. Not modelled, and what comes next

Not modelled:

* String formatting and parsing, argument lists of subprocesses, event
  translation, prompts and citations: pure functions whose content is the format.
* Configuration writes: the atomic replacement is modelled for the checkpoint.
* The model client: one call of an API, whose retries are inside the vendor's
  client. The `pick_*` functions and `stage_config.py`: a choice among
  arguments, without state.
* The splitting of Pi's bytes into lines (`LineFramer`): `PiRun` has events.
* Two processes that archive one and the same change; typed readings of an
  option; directories the marker walk cannot look at.
* Progress, package exports, release scripts.

Next: `LineFramer`, chunks to lines with the size bound, under `PiRun`'s stream.

## 6. Running it

    tlasany AgentRun.tla
    tlc -workers 2 -config MCAgentRun.cfg MCAgentRun
    tlapm AgentRunProofs.tla
