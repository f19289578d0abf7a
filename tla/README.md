# Formal models of the VibroAgent live stack

VibroAgent watches up to six ST sensor boards with a USB logger, scores their
vibration with a codec, and lets language-model agents on a local NPU comment on
what they see. Three long-running processes make up one installation: the board
logger, the model service and the web application. A shell script starts them
and a stop helper stops them. Boards must never be left streaming behind a
stop that claims success, since a board that streams without an owner has to be
unplugged by hand; the most delicate code of the repository is about that, and so
is the core of this project. Around it stand the web application's monitor, its
board readers and its memory of past windows, the model service, and the second
stack in the repository, whose monitor works differently.

Paths below are relative to `src/`. `LG` stands for
`stdatalog_examples/vibroagent_two_vibrometer_logger.py`, `SS` for
`vibrodiag_mcp_prototype/scripts/safe_pipeline_stop.py`, `VA` for
`vibroagent.sh`, `mcp/` for `vibrodiag_mcp_prototype/src/vibroagent_mcp/`, and
`gemma/` for the directory of the same name in `VibroAgent-Gemma/`.

## Contents

| file | what it is |
|---|---|
| `ShutdownLog.tla` | the log as evidence: its lines, and the checks of `SS` on them |
| `BoardLogger.tla` | one logger process after another, its boards and its log |
| `SafeStop.tla` | launcher, stop helpers, their files, and the logger: the lifecycle |
| `MCSafeStop.tla`, `*.cfg` | the lifecycle on small instances for TLC |
| `FleetControl.tla` | what the lifecycle promises, without files, log and signals; `SafeStop` implements it |
| `ReplayMonitor.tla` | recorded-data mode: clock and claims, monitor polls, chats |
| `EventLedger.tla` | what recorded-data mode promises of each scheduled event; `ReplayMonitor` implements it |
| `BoardReader.tla` | one board's reader process and the threads that use its client |
| `WindowHistory.tla` | the rolling history of windows and the registry of anomalies, in memory and on disk |
| `ModelService.tla` | the model service: gate, single-flight lock, reloads, breaker, watchdog |
| `GemmaMonitor.tla` | the Gemma stack in live mode: monitor thread, injection switch, snapshot, pages, its model service |
| `MC<module>.tla`, `*.cfg` | each of these on small instances for TLC |
| `<module>_proofs.tla` | theorems about the module and their proofs |
| `SafeStopRefinement_proofs.tla` | that `SafeStop` implements `FleetControl` |
| `PROJECT.json` | the index: components, runs, mutants, source lines, hazards, theorems |

## Inventory

**Board logger** (`LG`). Opens the native engine, prepares one session per board,
starts each board's log, polls until its time or a stop request ends it, and then
stops every board it began to start, closes the engine and prints a *shutdown
result*: its pid, the sessions it began, those whose stop was acknowledged, and
errors. State: the engine, the sessions begun and stopped, the stop flag its
signal handlers set. Hard: a stop request in every phase; a native command that
fails after it reached the board; callbacks in native threads during teardown;
death before the cleanup. Correct when each board that was begun is stopped, and
the printed result never claims more than happened.

**Stop helper** (`SS`). `--service all|logger|webchat|geniex`, with `--check-start`
for the launcher's gate and `--allow-legacy` for loggers older than the shutdown
result. Persists a stop request, sends one SIGINT through a pidfd, waits, judges
the log, and removes the pid file and the request; then stops the services. It
holds `.run/safe-stop.lock`. Hard: everything that can interrupt it between two
of those steps, followed by a retry; evidence in the log that belongs to another
process; a log that still grows. Correct when success means that the boards are
idle, failure leaves the evidence for a retry, and no retry signals twice.

**Lifecycle launcher** (`VA`). `start`, `stop`, `restart`, `stop-model`,
`restart-webchat`, `status`, one at a time under `.run/control.lock`. Starts the
model service, the web application and the logger, in this order; the last only
behind the helper's gate, `pgrep` and a native probe. Hard: the gate and `pgrep`
ask the same question at different times. Correct when it starts a logger only
on idle boards.

**Two-checkout stop wrapper** (`linux_setup/vibroagent-safe-stop.sh`). Takes the
control locks of two checkouts that share the boards and stops both. Correct when
neither is stopped partly behind a success.

**Per-board reader processes** (`mcp/board_reader_process.py`). One worker process
per board behind a client with two locks, a start-up grace, a time-out that
terminates the worker, and a pool. State: process, queues, start time, deadlines.
Hard: a time-out racing a late answer; prewarming and shutdown racing a read; a
worker replaced under a thread that captured it. Correct when an answer is never
given to another request, and reads end although workers hang and die.

**Offline replay controller** (`mcp/offline_replay.py`). A clock over a recorded
schedule of events, in cycles; `claim_agent_event` gives each event of a cycle to
one caller and `release_agent_event` gives it back. Hard: the wrap of a cycle
between a caller's snapshot and its claim. Correct when every event is analysed
at most once per cycle, and none is lost.

**Agent monitor and chat guard** (`mcp/webchat_server.py`,
`_agent_monitor_payload`). Polled by every open page; decides whether a window is
due, whether a chat owns the NPU, and whether an answer is cached, then runs the
window pipeline and the model under one monitor lock. State: the chat counter,
the answer cache, the monitor lock, the claims of the replay. Hard: several polls
and chats in flight, and one of many steps failing after the claim. Correct when
a claim ends in a recorded analysis or a release.

**Window history and anomaly registry** (`mcp/webchat_server.py`). Appends windows
to a rolling JSONL file, rewrites it every 2000 appends, and derives what is
normal from it; lists anomalous windows in a second file, each with a file of
details. State: the rows in memory, cached percentiles, a counter of appends, three
kinds of files. Hard: a crash or a full disk in an append or a rewrite, followed
by more appends. Correct when percentiles are those of the rows, files stay
bounded, losses are accounted for, and the list and the details agree.

**Model service** (`mcp/geniex_openai_server.py`). An OpenAI-style HTTP server
around one NPU context: a single-flight lock with a queue time-out, reloads with
a budget, a breaker that takes the model out of use, and a watchdog that
re-executes the process.
Correct when at most one generation runs, an expired request never runs, and the
service either answers or gives up visibly.

**Live data reader** (`mcp/sdk_vibrometer.py`). Reads `.dat` files the logger is
writing, through the SDK; freshness checks and probes. **Codec verdict**
(`mcp/live_codes.py` and the worker under `scripts/`). A worker process that turns
windows into codes, and the rule that turns codes into an anomaly.
**Sensor agents and MCP host** (`mcp/llm_sensor_agent.py`, `mcp/qwen_mcp_host.py`,
`mcp/service.py`, `mcp/mcp_server.py`, `mcp/model_client.py`). Prompts, validation
of answers, tool routing. **Signal features** (`mcp/spectral.py`,
`mcp/features.py`, `mcp/baseline.py`). Numerical. **Sensor registry**. A
configuration file. **SDK overlay** (`sdk_patches/`). The vendor's SDK, patched.
**Installers.** Run once by hand.

**Gemma fork** (`VibroAgent-Gemma/`). A second stack with the same lifecycle
scripts. Its web application (`gemma/vibrogemma_webchat.py`) does not analyse on
request: one monitor thread runs cycle after cycle and publishes a snapshot that
all pages are served, and a test injection can be switched on while it works. Its
model service (`gemma/vibrogemma_geniex_server.py`) is a plain lock and a watchdog.
State: the injection in the environment, its generation, the snapshot and its
age; at the service, the start of the running generation. Hard: a switch in the
middle of a cycle of half a minute; answers on the way to a page when it
switches; a slow model. Correct when no page shows, after its switch, a verdict
about the boards before it, and no old verdict as current. The training pipeline
of its model (`VibroAgent-Gemma/models/`) is an offline program.

How they interact. The launcher runs the helper and waits for it, and spawns the
three long-running processes in the background. Launcher, helper and logger share
`.run/logger.pid`, `.run/logger-stop-request.json` and `.run/logger.log`; the
helper signals the logger. The reader processes read the logger's data files; the
web application calls them, the codec worker and, over HTTP, the model service.

## How the modules correspond to the code

**`ShutdownLog`** has no state. A log is a sequence of lines, of which only the
kinds the helper's regular expressions look for carry content; a byte offset is a
position. `Verified` is `verify_shutdown`, `Unambiguous` is `shutdown_receipts`.
The JSON of a receipt is its pid, the two sets of boards and whether its error
list is empty; a receipt with malformed fields is refused by the code and never
written by it, and is left out.

**`BoardLogger`** models `main()` of `LG`. `phase` is the place in `main()`; the
other variables are its locals (`begun` is `started_sessions`, `stopped` is
`stopped_device_ids`, `flag` is `stop_requested()`, `errors` whether
`shutdown_errors` has entries). One action is one native call or one stretch of
code between two: `BeginStart` adds the session to the started ones *before*
`start_log` is called, as the code does, and `StartFails` lets that call fail
after or before it reached the board. `owner` is ground truth that no process
reads: the run for which a board streams. A run (number of the launch) stands for
the pair of pid and start time that the code compares; a reused pid is a fault of
its own (`reuse`), in which the helper refuses. `Crash` is any end without
`finally`: SIGKILL, power, a fault in the native library, and the SDK's own
`sys.exit` inside a cleanup call that leaves no receipt.

**`SafeStop`** adds launcher and helpers. `hpc` is the place of a helper in
`run()`; `evidence`, `judge`, `recheck` are `resolve_exited_logger`, `running` is
`check_logger_start`, `read`, `handle`, `persist`, `signal`, `wait` are
`stop_logger`, `unpid` and `unintent` the removal of the two files. Each access to
shared state (log, pid file, request, signal, a look at the process) is a step of
its own, so every interleaving with the logger, an operator's own helper and an
interruption is explored. `cpc` is the place of the launcher's command. The
launcher's helper is a process that outlives a killed launcher; `control.lock` is
that at most one command runs (`cpc # "idle"`), and `safe-stop.lock` is `lock`.
When a helper ends, only its exit status is kept.

The logger is a background job of a non-interactive script, so it begins with
SIGINT ignored and a signal before `InstallHandlers` is lost (`Deliver`).

Hazards of the environment are switched by the constant `Faults`: `native`
(a native call fails), `exception`, `crash`, `external` (a signal nobody
requested), `helper` and `launcher` (either is killed at any step), `pidlost`,
`reuse`, `service`.

**`ReplayMonitor`** models recorded-data mode of the web application. `claimed` is
the controller's `_claimed`; a claim is a pair of cycle and event, the events
numbered in the order of their start times, and `position` counts those the clock
has reached. Each page (`Polls`) has one request at a time, as the page's
`agentInFlight` ensures. `pc` is the place of its thread in
`_agent_monitor_payload`; a step ends wherever the thread reads or writes what
others share: the chat counter (`Guard`, `YieldToChat`), the clock (`Look`, the
snapshot that `claim_due_inference` takes *before* its lock), the claims
(`Claim`), the cache (`LookInCache`), the monitor lock (`TryLock`, `Dequeue`).
`Acquire` is the pipeline service, `Decide`, `DecisionFails` and `DecisionRaises`
are `_apply_codes_monitor_decision`, `Record` is history, registry and cache.
`CachedPolls` are clients that do not pass `skip_cache` (the page does, the
interface's default does not). `analysed` is ground truth. One
assumption about time is made: a thread that has taken its snapshot has the lock
before the clock comes round to the same place of the next cycle (`Wrap`), a
minute or more later.

**`EventLedger`** is recorded-data mode as its schedule sees it: time passes, and an
event that was reached is taken by one page at a time, the earliest free one of its
cycle first, and then given back, wasted (nobody works on it, it has no verdict and
it cannot be taken: after an exception, or when the cache answered for it), or
concluded by a verdict. `Ledger` in `ReplayMonitor` instantiates it with the claims as
hands and `Wasted` as what is spent. Snapshots, lock, cache and chats
are not part of it; nor is the set `_claimed`, of which only `Wasted` shows.

**`FleetControl`** is the lifecycle as an operator sees it: loggers come one after
another, boards stream for one of them, a requested stop stays pending until it
is settled, and a helper that calls a logger stopped is right, then and from then
on (`VerdictsHold`). `Fleet` in `SafeStop` instantiates it with the
pid of the request on disk as `pending` and, as the `verdict` of a helper, the run
it confirmed, from the confirmation to its next command. Everything in between
(evidence, judging, signals, locks) is a stutter.

**`BoardReader`** models one `BoardReaderProcess`, its worker and the threads that
share it. A step ends at each access that another thread may interleave with: the
two locks (`requests`, `lock`), the queues, the process. Queues and worker are
replaced together, and a thread may be left holding those of before
(`on = "old"`); an answer that was cut off by the worker's death is `torn`, and the
read that finds it does not return. `own` is ground truth: the callers for
which the worker is still the one `ensure_started` left them with. What a window
contains is no part of it, a request is known by its caller, and one given up by
its caller is `None`. The Codec stack's copy of the file names an undefined
`cpu_index`, so its workers end at once; the module models the Gemma stack's
copy, which is otherwise the same, and the map points there.

**`WindowHistory`** models `_attach_window_history_context`, `_record_window_history`
and `_register_anomaly_window`. A window is a number, a log is its readable rows
in order, a count of lines that cannot be read, and whether its last line has no
newline: the next append continues such a line, and both are lost (`Appended`).
`Loads` is `_load_window_history_locked`, which may be cut off by an error;
`Crash` is death and restart of the process at any place, a write in progress
included. `recorded`, `registered`, `broken`, `unlisted` and `spoiled` are ground
truth by which losses are counted.

**`ModelService`** models `main()` of `mcp/geniex_openai_server.py` (load, smoke test,
re-arming, serving, exec), the handler threads and the watchdog. A thread's `pc`
is its place between the connection and its answer; `gate` is the semaphore for
bodies, `lock` the single-flight lock, `handle` the model (`fresh` or `used`: a vision
handle may generate once). `Dispose` and `Reloaded` are `_reload_model` around its
construction, `TripBreaker` the decision to reload no more. `Wedges` are the native
calls that may never return. Time passes in ticks, for what the code measures
only: waiting for gate and lock, the age of a generation and of a reload.

**`GemmaMonitor`** models `_monitor_loop` with the parts of `_agent_monitor_payload`
and `apply_vibrogemma_monitor_decision` that it runs in live mode, the switch
(`_set_synthetic_injection`), what pages are served (`latest_monitor`) and what they
do with it (`fetchMonitor`, `toggleSyntheticInjection` in `static/vibrogemma/vibroagent.js`),
one chat, and the model service with its watchdog. An injection is known by the
number of the switch that set it, and a verdict by the injection its cycle read;
the cycle reads the environment without the lock and long after it copied the
generation, and both are in the model. The sleep between cycles touches nothing
and is no step. `orphans` are requests whose caller has timed out and which the
service runs all the same; `slow` is a generation that outlasts the watchdog's limit
or never returns. The watchdog looks (`Notice`), and then measures (`Measure`), and
what it saw may have ended in between. `confirmed` is ground truth.

A window ends before its capture is complete, and the code dates it by an `end_utc` it
can only estimate (`_finalize_capture`): by the common end of the boards, from the
times of their files, or, when the boards cannot be aligned, by the completion of the
capture (`capture_completion_upper_bound`). So `Capture` picks the lag between the
window and its capture's completion, up to `MaxLag`, and how much of it the date misses
(`slip`; the whole lag without alignment): `endAge` counts from the date, as
`_capture_age_s` does, and `windowAge` is ground truth. Encoding takes time, which passes
in stage `ask`. `ServedIsRecent` holds the verdicts served as current to the limit and the
slip of their own window: what the model takes, what a paused or a failing cycle takes,
and when a page asks must add nothing to it.

## Runs

`MCSafeStop` runs the lifecycle, `MCReplayMonitor` the recorded-data monitor
(`Replay`, `ReplayLive`, `LeakedClaim`), and each other run has the module of its name;
each checks what its `.cfg` names.

| cfg | instance | question |
|---|---|---|
| `SafeStop` | two boards, one launch, launcher's helper and a direct one, native failures, crashes, interrupted helpers and launchers | is an accepted stop real, does the next start accept it, and is all of it a behaviour of `FleetControl`? |
| `SafeStopFaults` | one board, two launches, native failures, exceptions, crashes, interrupted helpers, lost pid file, reused pid, `--allow-legacy` | is the one SIGINT never repeated and always on record; does a request outlive failures; is evidence of one run ever taken for the other; what does a legacy stop cover? |
| `SafeStopLive` | one board, both services, all commands, no native faults, fair scheduling | do stops terminate and resolve; do the services go last? |
| `StartRace` | two launches, native failures | does a failed stop block every start? **No.** |
| `LostSignal` | no faults, fair scheduling | does retrying a stop resolve it? **No.** |
| `Replay` | two pages, one with the cache, two events, three cycles, a chat, a failure, an exception | does one poll at a time hold an event, never one analysed, and is all of it a behaviour of `EventLedger`: taken when reached, the earliest first? |
| `ReplayLive` | two pages, no looping, a chat, two failures, fair scheduling | is every remembered claim in work or analysed, and every event analysed in the end? |
| `LeakedClaim` | two pages, an exception | is a failed claim given back? **Not if the decision raises.** |
| `BoardReader` | two readers, a thread that prewarms, the exit; workers that crash, hang, cannot be spawned | does every read end, is no answer given to another request, is no worker taken from under a read? |
| `WindowHistory` | two requests, four windows, three retained rows, compaction every second append, a restart, a failed operation | are percentiles true to the rows, is the file bounded, is every loss accounted for, do list and details agree? |
| `ModelService` | three requests, one with an image, two bodies, budget and failure limit of two, four configurations, three native calls that may hang | is everyone answered, does the lock come back, does the breaker hold, does nothing leak? |
| `GemmaMonitor` | one page with one request in flight, a switch, a chat, a fault, a window that may end a tick before its capture | does a page ever show a verdict of before its switch, or as current one that is older than the limit and the error of its date allow; does a verdict return? |

What the properties say stands at their definitions. Nine runs pass; three are
disagreements between the code and what its documentation, comments or messages
say, listed under `findings` in `PROJECT.json`:

* `StartRace`. The gate accepts a logger that runs healthily. If that logger is
  then stopped directly and exits without acknowledging its boards before `pgrep`
  looks, the start goes on to probe the hardware and replaces the log.
* `LostSignal`. A stop in the moment between the launch and the installation of
  the handler loses its only SIGINT; later stops wait for it in vain. (A helper that
  is interrupted between writing the request and sending the signal leaves the
  same state; with `helper` among the faults, `PendingStopResolves` fails too.)
* `LeakedClaim`. An exception out of the decision (a full temporary directory is
  one) releases the lock and not the claim.

*Limits of the code* that the models contain and no property excludes, because
the code promises nothing else:

* Lifecycle. If starting a board raises and all boards then stop cleanly, the
  traceback is printed behind a complete receipt, and every later start refuses
  until the log is removed by hand (`exception` among the faults; `StopPermitsStart`
  holds all the same, since no stop without `--allow-legacy` succeeds there either).
  So it is after a legacy stop, and after a logger that could not open the engine.
* Recorded data. Only events of the current cycle can be claimed, so a chat that
  outlasts the cycle takes a pending event with it; a chat may begin right after
  the monitor asked for one; the earliest event is claimed first, so one that
  always fails holds up the others; the page that polled may be gone when its
  event is answered.
* Board readers. A worker that dies while it writes an answer leaves its read, and
  those that queue behind it, waiting (`EveryReadEnds` says so). A `Process` whose
  `start` raises stays with the client and can be neither joined nor replaced. A
  read that outlived its own worker may terminate the young one that replaced it.
  And the Codec stack's workers end at once, for the name error above.
* Window history. An append after a torn line joins it, so one failure costs two
  windows; the counter that triggers compaction starts at zero in every process.
* Model service. Waiting for the gate is not charged to a request's budget. A
  template or a reset that hangs is timed by nobody, nor is anything before the
  watchdog exists. The watchdog may find a generation and replace the process
  when that one has just ended. With a budget of two the failure limit of three
  is never reached. A vision service that accepts only images and is smoke-tested
  by force never starts.
* Gemma stack. The watchdog reads the start of a generation twice without the
  lock; when the generation ends in between, its thread dies, and a later hang
  is never ended (`VerdictReturns` says so). A window whose boards cannot be aligned is dated
  by the completion of its capture, which is only an upper bound
  (`gemma/vibrogemma_live.py`:711, 773-782), and an aligned one by estimates from file times: its
  verdict is served as current longer than the limit by what the date is late. For files
  with timestamps that is the age of a file that still counts as current, the gap at its
  end and three reads of each board; for files without, the code bounds the gap by nothing.
  `ServedIsRecent` allows this error and no other. Requests that timed out at the caller are run
  all the same. Of two answers to one page the older may come last and stay for
  one poll. History and registry are written before the generation is compared.

*Bounds.* Two boards are the least with which one board of several can fail to
stop or start, which is what the receipts are about; the runs that ask about
requests, signals and services have one. Every kind of fault occurs in one of the
lifecycle's passing runs. Two launches are the least with which
evidence of an earlier logger exists; the helper compares pids for equality only,
so a third adds no new comparison. One helper beside the launcher's is the least
that contends for the lock; the lock admits one at a time, so a second would find
it held as the first does. Boards are symmetric where safety is checked and no
property distinguishes them. The theorems below remove these bounds for the
properties they cover.

For the recorded-data monitor, two pages are the least that race for a claim, two events the
least of which one can be skipped, and three cycles the least in which a claim is
forgotten (the controller remembers the current one and the last). `MaxFailures`
and `MaxChats` bound how much goes wrong; `ReplayLive` needs them finite, because
a model that always fails analyses nothing.

For the readers, two callers and a prewarming thread are the least that contend
for both locks while a third party replaces the worker; a tick of time-out and two
of grace separate a worker that is late from one that is still starting. For the
history, four windows with three retained rows and compaction every two make rows
drop out, the file shrink, and a restart find more lines than rows; `MaxRestarts` and
`MaxFaults` are one each, and the theorems cover any number. For the model service,
three requests with two permits leave one at the gate while one holds the lock and
one waits for it; two attempts to reload are the least that can use up a budget
after a success. For the Gemma stack one page is enough, because pages share only
the snapshot and a switch whose confirmation is lost (`Unconfirmed`) is to the page what
another page's switch is; a stale limit of zero and a watchdog limit of one tick are the
least at which age tells, and with a lag of one a window may be dated rightly or a tick too
late. `MaxFaults` is one, but the time-out of a caller whose generation is slow comes with
it and is no fault of its own, so a slow generation outlives its caller and meets the watchdog;
the theorems cover any number of faults and any lag. `MaxSwitches`, `MaxChats` and `MaxFaults` must be finite
for `VerdictReturns`: chats or switches without end starve the monitor, by design.

*Deadlock* is not checked: a system whose last launch is used up and whose logger
has exited has nothing to do, and rightly stops.

*Fairness* (`FairSpec`). Weak fairness of the logger, of each helper and of the
launcher: they are processes the kernel schedules, and none waits without a
time-out. The native calls are assumed to return; a call that hangs is what
`GiveUpWaiting` is for and makes no liveness claim possible. Strong fairness of
`Begin("stop")` is the operator who retries a stop, as the helper's messages ask;
strong, because another command may hold the control lock in between. In
`SafeStopLive` a signal that arrives before the handler is part of the model, but
the launcher waits for the boards before it accepts another command and no direct
helper exists; `LostSignal` adds one and shows the difference.
For the monitor, `FairSpec` is weak fairness of the clock, of each page's timer,
of each request thread and of the end of a chat: chats and model calls have
time-outs of their own, and the monitor lock is released in a `finally`.

`BoardReader`: threads, the worker and time go on, pages poll (`Begin`); taking one of the
two locks is strongly fair, since another thread may take it in between and a
lock that is released again and again is not refused for ever. `ModelService`: weak
fairness of every thread outside a native call that hangs, of the watchdog and
of time; nothing makes a wedged call return, and nobody has to send a request.
`GemmaMonitor`: the threads of both processes, the service's loading after its exec,
time, and a generation that is not slow; none is assumed of slow ones, of pages,
chats and switches (but that a switch under way ends), or of faults.

## Proofs

`SafeStop_proofs` proves, for any set of boards, any number of launches and
helpers, any services and commands, and any set of faults:

| theorem | of `Spec` |
|---|---|
| `TypeCorrect` | `[]TypeOK` |
| `Invariance` | `[]IInv` |
| `StopsAreReal` | `[]AcceptedStopIsReal` |
| `OneInterrupt` | `[]AtMostOneInterrupt` |
| `SignalsAreRecorded` | `[]SignalIsOnRecord` |
| `GateIsSafe` | `[]GateFindsBoardsIdle` |
| `RequestsOutliveFailures` | `RequestOutlivesFailure` |
| `ServicesAreLast` | `ServicesGoLast` |
| `EvidenceInvariance` | `[](IInv /\ LogTells /\ EvidenceInv)` |
| `LegacyCoversStarted` | `[]LegacyStopCoversStarted` |
| `StopsPermitStart` | `[]StopPermitsStart` |

The assumptions are those the modules state for their constants: `MaxRuns` is a
positive number, the faults, services and commands are of the known kinds, the
launcher's helper is no direct one, and `None` is no run, helper or request.

The argument. None of the properties is inductive: that an accepted stop is real
depends on what the log of that very run can contain. `IInv` has three parts.

* `TypeInv` is the type invariant and what links a helper or a request to runs
  that exist.
* `LoggerInv`, in `BoardLogger_proofs`, is the logger's own: a board streams for
  a run only if the run began it (`OwnersBegun`); a board whose stop was
  acknowledged is idle (`NothingStopped`); a receipt without errors whose two
  lists agree was written after every board it lists stopped (`ReceiptsSound`);
  an empty log belongs to a logger that has begun nothing (`EmptyLogIsQuiet`).
  `LoggerKeepsInv` proves that every step of the logger keeps it.
* `Control` is the bookkeeping of launcher and helpers: who works holds the lock
  (`LockHeld`), what a helper at each step knows of the log and of the logger it
  works on (`StageKnows`, `NamesKnown`), that a signal is preceded by its request
  (`SignalIsOnRecord`, `AtMostOneInterrupt`), and that what the gate found is
  still so when the launcher acts on it (`GateWatches`).

Each action has a step or lemma of its own; actions that leave the variables of a part alone are
dismissed together. TLC checked `IInv` as an invariant before it was proved.

The last two theorems compare two readings of one log, so they need to know what each
line still tells after later steps. `LogTells`, in `BoardLogger_proofs` (`LogKeepsTelling`),
says that a board reported as started streams for this logger or not at all
(`StartedOwned`), that one reported as stopped does not stream for it again
(`StoppedIdle`), that there is one receipt at most and it stands behind every start
(`ReceiptCloses`), and that a failure printed before the receipt is an error in it
(`FailuresReported`). From these, a receipt that passes in the part of the log behind the
request passes in the whole log: a start that the part does not show is in the receipt all the
same, and a failure it does not show is an error there. `EvidenceInv` carries that from the
judgement to the end of the helper's command, per helper: what a legacy report covers
(`LegacyAt`), that the whole log passes (`CleanAt`), and that nobody has made a new request
since (`SettledAt`). No kind of fault is excluded and `--allow-legacy` may be used beside.

`ReplayMonitor_proofs` proves, for any number of pages, chats, events, cycles and
failures, `TypeCorrect`, `ReplayInvariance` (its `IInv`), `ClaimsAreExclusive` and
`ClaimsAreDue`. Exclusiveness is not inductive because old claims are forgotten:
`Remembered` adds that a claim of the current cycle or the last that is held or
was analysed is still known, and `SeenRecently` that no poll claims by an older
snapshot. `NewClaimIsFree` draws the conclusion for the one action that makes a
claim; `OtherStepsKeepInv` covers the ten that keep, give back or end one. What
`ClaimsAreDue` states, `NotBeforeDue`, is defined beside it: the runs check it as part
of the ledger.

`LedgerIsImplemented` proves `Spec => ImplementsLedger` under the same invariant:
`ClaimTakes` for the step that makes a claim (`FreeIsUnknown`: of this cycle and
the last, what the controller does not know is free in the ledger; what it knows never is),
`StepsSettle` and `SettlingSettles` for those that end one (each leaves the other claims
alone and gives back, wastes or concludes its own), a stutter for the rest.
`EventsAreHeldOnce` then carries the ledger's own guarantee over: an event that is held is
in one hand, and was neither wasted nor concluded.

`ClaimsAreAccounted` proves `ClaimsAccounted` where decisions do not raise and no page uses
the cache of a replay that loops. Neither hypothesis can go: an exception loses a claim
(`LeakedClaim`), and in a later cycle the cache answers for an event by the verdict of an
earlier one, so that its claim stays without a verdict of its own. `ReplayLive` checks
an instance with the cache and without looping. `AccountInv` adds that what the cache
serves has been recorded (`CacheRecorded`), so that no poll that still holds its claim is
served by it (`HeldIsNotCached`).

`SafeStopRefinement_proofs` proves `Refinement`, `Spec => ImplementsFleet`, and
`VerdictsStand`: what a helper has called stopped stays stopped, for the life of its
verdict. Initial states map to initial states and each action to an abstract one
or a stutter, under the invariant `RInv`: `IInv` of `SafeStop_proofs`, which says
that a confirmation is real when it is given, and that only helpers with
`--allow-legacy` judge by legacy reports.

`BoardReader_proofs` proves `NothingIsGivenUp`, `YoungAreSpared` and `LiveWorkersAreKept`
for any numbers of threads, any time-out and grace. None of them is inductive without
what a thread between two steps knows: who holds which lock (`LockInv`), that queues
and worker come and go together (`ClientInv`), that what a caller captured is true of
its own worker (`OwnInv`), that no deadline is before the end of the grace
(`DeadlineInv`), and that a request is in one place at a time and only while its read
goes on (`RequestInv`).

`ModelService_proofs` proves `LeakIsBounded`, `BreakerHolds`, `ImagesAreReclaimed`,
`QuietServiceIsWhole`, `ModelOrBreakerHolds` and `VisionHandleIsSingleShot` for any finite set of
requests, any limits and any set of calls that hang. `BudgetInv` says that a
construction is charged before it is made; `HandleInv` when a handle may be used and
when it is known to need a reload; `GateInv` counts permits and admitted requests
together, which takes the library's facts on cardinality. `MutexInv` is that the
lock is held exactly inside the section.

`WindowHistory_proofs` proves `StatsAreFresh`, `FileIsBounded`, `RegistryIsKept`,
`LossIsBounded` and `OrderIsKept` for any number of requests, windows, rows, restarts and
failures. `LengthInv` sharpens the bound
on the file to what one process appended since its last compaction; `ListingInv` counts
an open line of the list against the append that did not get through; `FreshInv` says
that a window is new to every file until its request has put it there.

`LossIsBounded` counts, and rests on an order. `HistInv` says that a window is recorded once,
by the request that has it in hand (`RecordedInv`); that memory and file are in the order of
recording, and the request that writes is about to write the last one (`OrderInv`, of which
`OrderIsKept` is the part for readers); and that what the file lacks of the newest windows,
together with what its open or torn last line will cost the next append (`Stake`), is
within two for every append that failed, plus the one under way (`LossInv`). The
order is what makes the count survive a restart and a compaction: rows that a shorter
sequence drops for its length are older than any the retention would keep of the longer
(`NewestStay`, by an injection from the rows behind one window into those behind it in
the other). `Loss` charges an append when it fails, and its stake pays for the row that the
next append joins. TLC checked `HistInv` before it was proved.

`GemmaMonitor_proofs` proves `PagesFollowSwitches`, `ServedVerdictsAreRecent` and
`SnapshotOfThisInjection` for any number of pages, requests in flight, switches, chats and
faults, and any limits. `SwitchInv` places the environment one ahead of the generation
inside a switch and only there; `CycleInv` says that the injection a cycle read is no
older than the generation it began with; so a cycle that passes the comparison at
its end was about the injection in force (`SnapshotInv`), and what is on its way to a page
that would not drop it follows the page's last switch (`PageInv`).
`ServedVerdictsAreRecent` rests on `WindowInv`: at every stage the ground truth is at most
the counted age and the slip (`Dated`), unless the count has reached its cap and the verdict is
withheld anyway. The step that makes it true is `Date`, the one that needs the
argument is `Tick`, where both ages run into their caps (`TimeKeepsDates`); it then
passes from the window to the snapshot with `Publish`, where `CountedAge` is used. The theorem
holds for every `MaxLag`; that a date is never late by more than the lag is all it assumes
of `_finalize_capture`.

Each of these modules also proves the type invariant, for its constants under the
assumptions the module states.

*Only model-checked* is what is beyond the prover, liveness: `SignalEndsLogger`,
`PendingStopResolves`, `EveryEventAnalysed`, `EveryReadEnds`, `BoardRecovers`,
`EveryoneAnswered`, `LockComesBack` and `VerdictReturns`. Every invariant and every action property
that a passing run checks is a theorem, one of them (`ClaimsAccounted`) under hypotheses.

## Not modelled

* In the lifecycle: one checkout only; the threads and files of the logger; the
  wording of messages; `status` and `--dry-run`, which change nothing; time-outs
  as durations (any wait may end by its time-out at any moment). Creating a pidfd
  and checking the process behind it is one step: the pidfd pins the process.
* In the recorded-data monitor: live mode of the Codec stack, which has no claims;
  HTTP, origins and JSON; a page that goes away while it is answered.
* In the readers: the contents of windows, CPU affinity, and the pool, a dictionary
  under a lock that gives each board its client.
* In the window history: the percentiles themselves, the pages that read the registry
  (they change nothing), and several processes on one file.
* In the model service: prompts, grammars, the parsing of images and the memory
  measurement, each of which is whether it fails or refuses; `GET /health`; images that
  a killed process left behind, which nothing sweeps.
* In the Gemma stack: offline replay (the controller is the one `ReplayMonitor`
  models), spectrum contexts and saved checks as the subject of a chat, the registry,
  the sensor pages, and what capture, overlay and decoding compute. A reload after
  an exec that fails ends the service and is left out. `_synthetic_injection_status`
  reads environment and generation without the lock; nothing decides by its answer.
* The wall clock of the Gemma stack. `_capture_age_s` subtracts `end_utc` from the
  present time once, at the publication, and the age is monotonic from there; a clock set back
  between capture and publication (the clamp at zero) is left out. Its answer of 0.0 for a date
  that is missing or cannot be parsed is for payloads without a window, which show no verdict:
  a verdict's `end_utc` is always the `isoformat()` of a `datetime`
  (`_finalize_capture`, `_replace_result_measurements`, `gemma/vibrogemma_live.py`:904-905).
  A date that is too early (a file's time taken before it was read) withholds a
  verdict too soon and is left out.
* Signal processing, the codec's and the model's numerics, prompts: floating
  point and text.
* The vendor's SDK, the training pipeline and the installers: third party,
  offline, or run once by hand.

## Plan

The lifecycle came first, because its failures leave boards streaming, then the
monitors with the most actors, then what they call and what they write. What is
left, in order of what a failure would cost:

1. Two checkouts under the stop wrapper with a shared set of boards: two instances of
   `FleetControl`, whose refinement makes that small.
2. `LoggerThreads`: callbacks, quiescence and native teardown, refining
   `BoardLogger`; and the rollover of `.dat` files under readers.
3. The Gemma stack's offline replay, as `GemmaMonitor` over the controller of
   `ReplayMonitor`; and its command-line runtime (`live/coordinator.py`), whose `start`
   runs before the `try` that would stop the boards.
4. `Verdict`: identity guard and axis combination as pure operators against a
   reference definition.
5. A specification of a request and its one answer that `BoardReader` and `ModelService`
   implement, as `ReplayMonitor` implements `EventLedger`.
