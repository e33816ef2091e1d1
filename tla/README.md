# TLA+ verification of frigate-zmq-detector

The detector is a sidecar process: it receives detection requests from Frigate
on a ZeroMQ REP socket, runs them on a TensorFlow Lite interpreter whose native
code may hang, and survives that with two watchdogs and a supervisor. The
repository's tests cover the watchdog's bookkeeping from one thread. What they
can hardly reach is the subject here: the interleavings of the request loop with
the two watchdog threads, native calls that fail, crash or never return, lost
replies, and restarts.

Source paths below are relative to the crate's `src/` directory.

## Inventory

| Part | State | Operations | Model |
|---|---|---|---|
| Process watchdog (`watchdog.rs:16-147`) | `WatchdogState` (armed call, generation) behind a mutex and a condition variable; one thread | `run_with_process_watchdog`, `arm`, `disarm`, the guard's `drop`, the thread's `run` | `ProcessWatchdog` |
| Progress watchdog (`watchdog.rs:149-398`) | seven Relaxed atomics, the flag `fired` | `request_start`, `response_ok`, `response_err`, `snapshot`, `check` | `ProgressWatchdog` |
| Monitor task (`main.rs:453-489`) | an interval timer | calls `check` every 5 s, exits with 70 | `ProgressWatchdog` |
| REP loop (`main.rs:284-450`) | the message in hand | receive, classify, dispatch, send, record the outcome | `ProgressWatchdog` (what it records), `Worker` (what it serves) |
| Protocol handlers (`protocol.rs`) | none | availability query, model transfer, inference | `Worker` |
| TFLite manager (`tflite.rs:28-214`) | model bytes and name, interpreter | `cache_model`, `is_model_ready`, `run`, `warmup` | `Worker` |
| Post-processing (`tflite.rs:216-315`) | the output buffer | `run_inference`, `post_process_ssd` | `Inference` |
| Startup (`main.rs:80-176`) | | preload, warmup, bind | `Worker` |
| Supervisor (`main.rs:46-60`, `189-227`) | the backoff | validate, decide, spawn, wait, sleep | `Supervisor` |
| Frigate client (not in this repository) | the model it wants | query, transfer, infer, give up | `System` |

How they interact. The main thread runs startup and then the loop. It is the
only one that touches the manager. Around an inference or a warmup run it arms
the process watchdog, whose thread exits the process with code 71. Around every
inference request it writes the progress watchdog's atomics, which the monitor,
on another runtime thread, reads without a lock; either of them exits the process
with code 70. `max_requests` exits with 0 from the loop. The supervisor, another
process, sees only that the worker is gone and for how long it ran, and starts
the next one, with an empty manager. Frigate sees only replies, or none: `System` puts the three parties together.

What is hard: a wakeup lost between two steps of a thread; a late native call
racing its watchdog; a snapshot put together from several moments; two checks
sharing one flag; time stamps older than the clock they are compared with;
failures half way through loading a model; replies lost after the state has
changed; a process restarted between two messages.

What makes each part correct:

- process watchdog: a call is killed only when overdue, an overdue call is
  killed in bounded time, a killed call never completes;
- progress watchdog: a worker that answers is left alone, a stalled one is
  caught within the check period, one check at a time;
- manager and protocol: a model is installed whole and at most once, and what
  the client is told about it is true;
- post-processing: the announced detections up to the first one below the threshold,
  each from one slot;
- supervisor: every exit is answered, quick ones with growing pauses;
- the whole: a client never takes detections of another model than its own for
  the answer to its request, it gets zeros only after trouble, and after faults it
  gets detections again.

## Modules

| Module | What it is |
|---|---|
| `GuardedCall` | abstract: one guarded native call as its caller sees it |
| `ProcessWatchdog` | the two threads, the mutex and the condition variable; implements `GuardedCall` |
| `ProcessWatchdogProofs` | invariants and refinement, proved |
| `RequestRecord` | abstract: what is on record of the inference requests of one process |
| `ProgressWatchdog` | the loop and the monitor on the shared atomics; implements `RequestRecord` |
| `ProgressWatchdogProofs` | types, exclusion and refinement, proved |
| `ProgressStallProofs` | no false alarm, proved |
| `ProgressCatchProofs` | no missed stall, and what counts as one, proved |
| `ModelSlot` | abstract: a write-once model slot that never lies |
| `Worker`, `MCWorker` | one worker process by messages; uses `RequestRecord`, implements `ModelSlot` |
| `WorkerProofs` | types, invariants and refinement, proved |
| `Inference`, `MCInference` | one inference on arbitrary tensors |
| `InferenceProofs` | the reply buffer, proved |
| `Supervisor` | the start of `run()` and `supervise()` |
| `SupervisorProofs` | types and pauses, proved |
| `System`, `MCSystem` | composes `Supervisor`, `Worker` and a Frigate client |
| `SystemProofs` | the right model for the client, zeros only after trouble, and the parts inside the composition, proved |

### ProcessWatchdog

The caller goes `idle`, `arming`, `native`, `returned`, `idle`. Its critical
sections contain no wait, so `arm` and `disarm` are one action each. The thread's
program counter names the places where it can be overtaken: waiting for the
mutex, deciding, about to wait, waiting. It holds the mutex from the end of one
wait to the start of the next and into `process::exit`, which is what keeps a
late call from completing. Waits wake by notification, by timer or for no reason.

Time is relative (what is left of the deadline and of the timer), so no clock
has to be bounded. `Lag` is how long the thread may be kept off the CPU; time
does not pass it. It is an assumption on the scheduler, not a fact of the code:
`OverrunIsBounded` gives the bound in terms of it (twice `Lag`: once between
computing a wait and starting it, once after the timer).

### ProgressWatchdog

Every load, store and clock read of `request_start`, `response_ok`,
`response_err`, `snapshot` and `check` is an action, in the order of the source.
Loads are Relaxed: the monitor may see the value of an atomic as it was when the
current clock unit began (`before`), independently for every location. That
covers stores of one unit that become visible in another order, and assumes that
all of them do within the unit; a value stored and overwritten inside one unit is
seen only while it is current. `Swap` is a read-modify-write and sees the latest value.

`Span` bounds how long the loop or the monitor may take from one wait to the
next. `owed` and `debt` are history variables: since when a request has been
without a recorded success, and what of that the running check could know.

The limits are configured in seconds and compared with whole seconds. The model
counts in one unit throughout, as `x / 1000 >= s` iff `x >= 1000 * s`. The loop's
backoff after receive errors is part of the receive step: it waits, then checks.

The refinement to `RequestRecord` says what the four time stamps and the counter
are for: whether there was a request, one is in flight, one succeeded, and whether
the last word is a failure. A request's start is on record with the last store of
`request_start`, its end with the time stamp that `response_ok` or `response_err`
stores first; `record` is that mapping. `Worker` keeps such a record instead of
the atomics, and `CheckSeesStalls` says that `check()` exits for what this record
calls a stall, and for nothing else but the lifetime. In the middle of an update
it need not be so: that is the first of the findings below.

`total_failures` is only logged, so it is not modelled. The stall of a native
call shows as a loop that stays in `dispatch`, which may take for ever.

### Worker

A message is its kind, its model name (maybe missing), one or two frames and the
data. Handlers are one step, because nobody else touches the manager, except
where they enter native code: there the call may succeed, fail (`Outcomes`),
hang (`NativeHangs`) or take the process down (`NativeDies`). `recv` may wedge
(`RecvWedges`): no message, no error, no timeout any more. A hung call that is
under the process watchdog is ended by `WatchdogKill`; `health` is the progress
watchdog's record of requests (`RequestRecord`), and a thread that is stuck while
it shows a stall is ended by `StallExit`. Any exit leads to `Restart`, with an empty
manager. `said` and `accepted` are history: what the client was last told, and
which data it was told are loaded. A reply whose send fails or times out changes
neither.

### Inference

Scores and counts are tenths, or NaN. Box and class elements are stand-ins that
are all different, so that a wrong index shows; a tensor is otherwise its length.

### Supervisor

`Decide` is `validate_config` and the choice between supervising and working, for
every combination of backend, `--no-delegate` and the two environment variables. It
refuses one configuration before anything is started, the Edge TPU backend without
its delegate; one with, say, a missing model file is only found out by the worker,
which is then restarted for ever, with pauses.
Then the source's own constants, in seconds; the worker runs for any time or for
ever, and `spawn` or `wait` may fail, which ends the supervisor. History: how the
last run ended (`lastExit`) and what was slept after it (`slept`) and after the
one before (`before`). `PauseOwed` says from these what the code computes with
`backoff`, a variable the property does not mention.

### System

The supervisor's and the worker's actions are those of their modules, taken
together where they meet: `StartWorker` is `Spawn` and `Restart`, `Reap` is
`child.wait()` returning for a worker that has exited. There is one worker at a
time: that follows from what `wait` is, the model has no room for a second. A parent
that fails in `wait` leaves one behind and starts no other. The client is external and
follows `README.md:217-225`: it asks, transfers, infers, one request at a time,
and gives up on a request that is not answered. An abandoned request may still
arrive, at this worker or at the next (at most one at a time). A connection that
breaks loses any part of what is under way.

Two things about the world are left open by the repository and are chosen in
`Init`: whether the client asks about its model again after zeros or silence
(`policy`, vigilant or trusting), and whether the first invocation of an
interpreter meets the inference timeout (`coldFits`). Everything that goes
wrong, native errors, hangs, crashes, watchdog exits of a late call, wedged
sockets, lost replies, is charged to a budget, `MaxFaults`; what a cold
invocation that cannot fit does, and recycling after a served request, is free.

## Runs

| Run | Properties | States | Shows |
|---|---|---|---|
| `ProcessWatchdog` | `TypeOK`, `KillsOnlyAnOverdueCall`, `OverrunIsBounded`, `DoomedCallNeverCompletes`, `ImplementsGuardedCall`, `HungCallIsKilled` | 1,024 | the two threads are correct, implement the caller's view, and end a process whose native call hangs |
| `ProgressWatchdog` | `TypeOK`, `ChecksAreExclusive`, `KillNeedsStall`, `StallIsCaught`, `CheckSeesStalls`, `ImplementsRequestRecord` | 3.0 M | no false alarm but the one below, no missed stall, and what the time stamps say of the requests |
| `Worker` | `TypeOK`, `ServesWhatItAccepted`, `ImplementsModelSlot`, `StuckWorkerIsReplaced` | 69,116 | the client is never told anything untrue about a model it named; a worker that is stuck where a watchdog looks is replaced |
| `Inference` | `TypeOK`, `ReplyHoldsTheConfidentDetections`, `RowsAreNotMixed`, `NoGaps` | 227,808 | which detections reach the reply |
| `Supervisor` | `TypeOK`, `RestartsAreSpacedOut`, `EveryExitIsAnswered` | 6,275 | pauses add up as they should, and no worker stays dead |
| `System` | `TypeOK`, `DetectionsAreOfTheRightModel`, `ZerosComeOfTrouble`, `ServiceResumes` | 656,684 | with faults at any two points no detections of another model reach the client, zeros reach it only after a fault or from a restarted worker without a file, and service comes back |

The safety properties do not depend on the fairness of the specification they are
run under.

`ZerosComeOfTrouble` is about the answer that nobody can tell from that of an empty
image. A worker without a model gives it, so no interleaving of the handshake with
requests that are abandoned during a start, arrive late or repeat a transfer may
make the client infer too early. The one case it excepts, zeros with no fault at
all, is a worker that was recycled and lost a transferred model; TLC reaches it.

`ServiceResumes` names what it needs, and each part is needed; without it TLC
finds a run in which no detections ever come again:

- the pre-load is the wanted model, or there is none and the client is vigilant:
  a client that trusts what it was told once sends inference requests to a
  restarted, empty worker for ever and gets zeros, which are a success to
  everybody else;
- `coldFits`: if a pre-loaded model's first invocation takes longer than the
  inference timeout (150 ms unless configured), warmup is killed at every start;
  a transferred model's first request is;
- nobody has given up: the parent ends when `spawn` or `wait` fails, and a worker
  that hangs while it builds an interpreter, or in an idle `recv`, stays.

Bounds, and why they are enough:

- `ProcessWatchdog`: timeouts 0 (off), 1 (shorter than the delay) and 3 (longer),
  `Lag = 2`, a generation that wraps after three calls. The state space is finite
  without any other bound: any number of calls one after the other.
- `ProgressWatchdog`: two requests, so that one request's stores meet the next
  one's; all three limits on, `max_requests` at the second request, the lifetime
  at seven units, and thirteen units of time, so that the run goes past the lifetime
  and its grace. `Grace == CheckInterval + 3 * Span - 1` is tight for these limits:
  with one unit less `StallIsCaught` fails. Its three delays: a
  check of the loop that read the clock just before the limit holds `fired` for one
  more delay, and the monitor gives way to it; the monitor's next tick is late, and
  finds `fired` held by another check of the loop; and that one takes its time to
  exit. The first of them shows because the clock read and `fired.store(false)` are
  two steps (`Acquit`, `Reset`). The proofs take over from there: for both
  properties no bound of the model matters.
- `Worker`: two names and two files give transfers that repeat the name with other
  data, the data under another name, both or neither; a pre-load may be absent,
  named, or without a usable name. Any number of messages and of restarts.
- `Inference`: three rows, tensors for up to four detections.
- `Supervisor`: any number of runs; the pause reaches its 30 s limit at the sixth
  quick exit in a row.
- `System`: two faults, because every fault can meet the recovery from the one
  before; any number of requests and restarts. Pauses are one unit long: the run
  is not about them. Two files of two names: a pre-load is absent, the wanted
  model or the other one. A name stands for one file.

Fairness. `ProcessWatchdog`: the caller's own code and the thread are scheduled,
and time passes; nothing makes a native call return. `Worker`: the main thread
runs, a hung call under the watchdog is killed (that is `HungCallIsKilled`), a
stall that lasts is found by the monitor's thread (that is `StallIsCaught`), the
supervisor restarts (`EveryExitIsAnswered`); no message need come, and a process
without a stall need not exit. `Supervisor`: the parent is scheduled and its
sleeps end; no worker need exit. `System`: the fairness of its parts, and of the
client that it goes on asking, gives up on what can no longer be answered, and
that a request reaches a worker that waits for one.

Deadlock is checked in every run; a process that has exited for good, and a model
whose time is up, stutter explicitly.

### Where the code and its documentation part

Each of these runs checks one statement of the documentation and finds it false.

| Run | Statement | What happens |
|---|---|---|
| `ProgressFirstRequest` | `watchdog.rs:306` "no success for {}s since first request" | The monitor's check falls between `total_requests += 1` and the store of `first_request_ms`: the uptime is taken for the age of the request, and a worker that was idle for the limit dies on its first request. A bug of the code. |
| `ProgressNoSuccess` | `cli.rs:59` "Exit if no successful response completes within this many seconds." | After a first success the limit counts from the last failure, so failures that keep coming postpone it. The property allows three limits and their grace, and is violated. |
| `WorkerHang` | `README.md:63` "inference timeouts to recover from native runtime hangs" | A hang inside `cache_model` is watched by nobody. |
| `WorkerWedged` | `cli.rs:59-60` on `max_no_progress_secs`: "Protects against wedged ZMQ recv or hung inference." | A `recv` that never comes back while no request is left unanswered looks like an idle worker; nothing ends it. |
| `WorkerWarm` | `README.md:284-286` on warmup after transfer or pre-load | A transferred model is never warmed up. |
| `WorkerQuery` | `README.md:219-220`, the query `{"model_request": true}` | It asks for a model named "unknown". |

`KillNeedsStall` excludes the first case by name (it asks for a snapshot whose
`first_request_ms` is set), so it says that this is the only false alarm.

Seen while modelling, and not made into a property: the lifetime limit ends the
process with code 70, though `cli.rs:50` and `watchdog.rs:193` call that exit
clean; a sent zero reply counts as a success for `max_requests` and for the
progress watchdog, so that a worker that can no longer infer looks healthy; a
transfer of other data under the loaded name is answered `model_saved: true` and
ignored; NaN passes the score threshold (`tflite.rs:289`), and unsorted scores
hide the later detections; a clean recycle within 60 s counts as a quick exit for
the supervisor; startup loads and warms up before it binds, `README.md:217` has it
the other way round.

## Proofs

`tlapm` checks all of them; nothing is assumed but the named ASSUMEs of the
modules, which TLC evaluates in every run.

- `ProcessWatchdogProofs`, from `ProcessWatchdogAssumption` (timeouts and `Lag`
  are naturals, the counter's modulus is positive). `OverrunIsBounded` is not
  inductive: it needs to know how long the thread will still sleep. `IInv` adds
  `GuardInv` (a call is armed exactly while its guard exists, with the guard's
  generation), `DeadlineInv` (age plus what is left is the timeout) and
  `WakeupInv` (a timer, or a runnable thread, is never more than the delay used so
  far beyond the deadline). `TypeCorrect`, `OnlyOverdueCallsAreKilled` and
  `OverrunBounded` follow from it, `DoomedCallsNeverComplete` as an action
  property, and `WatchdogImplementsGuardedCall` step by step: arming is `Begin`
  or part of it, `Disarm` is `End`, `Fire` is `Kill`, `Tick` is `Tick` or a
  stutter, the thread's other steps are stutters.
- `ProgressWatchdogProofs`, from `ProgressWatchdogAssumption` (limits, delays and
  bounds are naturals, the check interval is positive). `ProgressTypeCorrect`
  splits `TypeOK` by who writes what. `ChecksNeverOverlap` shows that `fired`, a
  flag for idempotence, works as a lock: no release without having taken it.
  `ProgressImplementsRequestRecord` needs of the reachable states (`RecordInv`)
  that a stamp about to be stored is not 0 and not older than any that is there,
  and that a request is in flight exactly between `request_start` and the stores
  of its end. Then storing a success makes the failures before it forgotten, equal
  stamps included, and every other store is a stutter or the step it should be.
- `ProgressStallProofs`: `NoFalseAlarm` is `KillNeedsStall` under the hypothesis
  that no thread is delayed for longer than the no-progress limit
  (`Span <= MaxNoProgress`). A verdict rests on five loads of several moments, so
  `StallInv` follows a stamp from the clock read to the verdict: it is of the time
  of a request that is owed (`LoopInv`, `OwedInv`), that stays true when a stale
  success is compared with a newer failure (`MixedInv`), a check that starts is
  told what is owed (`DebtInv`), and every older stamp that it has loaded or may
  still load is covered by that (`SnapInv`). A younger stamp cannot be as old as
  the limit, which is where the hypothesis is used. It is needed: with a limit of
  1, a delay of 2 and an interval of 2, TLC finds a false alarm.
- `ProgressCatchProofs`: `StallsAreCaught` is `StallIsCaught`, for all constants.
  A limit shorter than the delay of a stamp's store cannot be kept (with limit 1,
  interval 3 and delay 2 TLC shows a stall of limit and grace that goes on), so
  the property speaks of `Patience`, the longer of the two. What a check has loaded is there, or was replaced after its tick
  (`MonitorViewInv`), so a check that acquits either saw the sign while it was
  young or began at about the time of the stamp; either way the next tick is due
  soon enough (`Timely`), unless the monitor gives way to the loop's check, which
  then sees the atomics as they are (`LoopViewInv`), or has acquitted them while they
  were young and gives `fired` back within the delay (`AcquittedInv`). The disjuncts
  of `Timely` are these cases, and `Grace` covers the longest. `ChecksSeeStalls` uses from the same invariant that
  there is no time stamp before a request is counted.
- `SupervisorProofs`, from `SupervisorAssumption`: `backoff` is a function of what
  was slept before, which makes `RestartsAreSpacedOut` inductive.
- `WorkerProofs`, from `WorkerAssumption`. `IInv` adds to the property that the
  reply waiting to be sent is still true of the slot (`ReplyInv`) and that what
  was accepted is what is installed (`AcceptedInv`). `AcceptedModelIsServed`,
  `WorkerTypeCorrect` and `WorkerImplementsModelSlot` follow.
- `SystemProofs`, from `SystemAssumption` (the assumptions of the parts, and: the
  wanted model has a name, a pre-load of that name is that file, and `Nothing` is not
  a phase or a reply of zeros). A worker that serves holds another model
  for life and denies the wanted one to a client that therefore never asks for an
  inference, or it holds the wanted model or none; which, is the same in every
  life. So `DetectionsOfTheRightModel` holds for any number of faults.
  `SystemRunsTheSupervisor` and `SystemRunsTheWorker` show that the composition's
  behaviours are behaviours of each part, under the mapping that makes the time
  before the first start the beginning of the first life (`Life`); it needs to know
  that this time has left nothing behind (`LifeInv`). What was proved of the parts
  alone is so carried over: `SystemRestartsAreSpacedOut`,
  `SystemImplementsModelSlot`, `SystemServesWhatItAccepted`, and the parts' types,
  which `SystemTypeCorrect` completes with the client's. `ZerosOnlyOfTrouble` follows
  from what holds while nothing has gone wrong (`RequestInv`): wherever an inference
  is asked for, on its way, in service, or invited by a reply that is still to be
  sent, the worker has a model. A worker that was never started is the case where
  that needs `LifeInv`, and `FirstInv`, which tells it from one that has exited.
- `InferenceProofs`, from `InferenceAssumption`: the rows before the loop's index
  are those of detections that passed, the others are zero, and a score that
  passed is not zero. From that `RowsNeverMixed`, `RowsHaveNoGaps` and
  `ReplyIsComplete`, for every size of the buffer and all tensors, unsorted scores and
  NaN included; `SortedReplyIsComplete` adds what that comes to for descending scores,
  which is what the SSD operator emits: all the announced detections that reach the
  threshold, and no others.

Model-checked only: the liveness properties (`HungCallIsKilled`,
`StuckWorkerIsReplaced`, `EveryExitIsAnswered`, `ServiceResumes`), as fairness is
beyond the prover. Every safety property of a passing run is proved.

## Not modelled

Command line parsing by clap (what becomes of the options is modelled: they are
constants, or part of `Supervisor`'s configuration), logging and statistics
(`LoopStats`), error formatting, the build script and the container files: nothing
reads back what they write. The Frigate client is external; its retries are
taken from the repository's README and otherwise left open.
The native TFLite library and its delegates are external: what a call may do is
modelled, what it computes is not. So is the ZeroMQ crate, whose sockets may
deliver a message, an error or nothing, and may fail or delay a send.
`process::exit` is taken to end the process; exit handlers of native libraries
that block are outside the models.

## Possible extensions

1. The composition of both watchdogs in one process: which exit code wins when
   both are due, and the lifetime limit while a hung call is being timed out.
2. The interval's bursts after a delay, and the `select!` between the monitor's
   health and check timers, instead of `Span`.
