----------------------------- MODULE Supervisor -----------------------------
(***************************************************************************)
(* The parent process: the start of run() (main.rs:46-60), which decides   *)
(* whether this process supervises or works, and supervise() (189-227),    *)
(* which starts the worker, waits for it without a limit, and starts it    *)
(* again after a pause that doubles with every quick exit. It looks at how *)
(* long the worker ran, never at its exit status: a clean recycle, a       *)
(* watchdog kill and a crash are the same to it.                           *)
(*                                                                         *)
(* The worker is whatever runs for some time and exits, or never does. One *)
(* clock unit is a second.                                                 *)
(***************************************************************************)
EXTENDS Integers

CONSTANTS InitialBackoff,  \* 1 s
          MaxBackoff,      \* 30 s
          StableRuntime    \* 60 s: a run this long is not a quick exit

ASSUME SupervisorAssumption ==
    /\ InitialBackoff \in Nat \ {0}
    /\ MaxBackoff \in Nat /\ InitialBackoff <= MaxBackoff
    /\ StableRuntime \in Nat \ {0}

VARIABLES
    config,   \* arguments and environment of the process
    state,    \* where run() or supervise() is
    backoff,  \* supervise's local of that name
    runtime,  \* started.elapsed(), capped at StableRuntime
    pause,    \* what is left of the sleep
    lastExit, \* history: how the last run ended
    slept,    \* history: clock units slept since then
    before    \* history: clock units slept after the run before it

local == <<backoff, runtime, pause>>
history == <<lastExit, slept, before>>
vars == <<config, state, local, history>>

Configs == [backend : {"edgetpu", "teflon"}, no_delegate : BOOLEAN,
            SUPERVISE_ENV : BOOLEAN, WORKER_ENV : BOOLEAN]

\* "run": before the decision; "spawn": in Command::spawn; "wait": in child.wait(); "sleep":
\* in thread::sleep; "alone": the process is a worker itself; "failed": run() has returned
\* an error, and main exits with code 1.
States == {"run", "spawn", "wait", "sleep", "alone", "failed"}

TypeOK ==
    /\ config \in Configs
    /\ state \in States
    /\ backoff \in InitialBackoff .. MaxBackoff
    /\ runtime \in 0 .. StableRuntime
    /\ pause \in 0 .. MaxBackoff
    /\ lastExit \in {"none", "long", "quick", "quick_again"}
    /\ slept \in 0 .. MaxBackoff /\ before \in 0 .. MaxBackoff

Init ==
    /\ config \in Configs
    /\ state = "run"
    /\ backoff = InitialBackoff /\ runtime = 0 /\ pause = 0
    /\ lastExit = "none" /\ slept = 0 /\ before = 0
-----------------------------------------------------------------------------
\* validate_config: the Edge TPU backend is nothing without its delegate.
IsValid(c) == ~(c.no_delegate /\ c.backend = "edgetpu")

\* supervisor_enabled() && env::var_os(WORKER_ENV).is_none()
Supervises(c) == c.SUPERVISE_ENV /\ ~c.WORKER_ENV

\* The configuration is validated first, in parent and worker alike; then it is decided
\* who this process is.
Decide ==
    /\ state = "run"
    /\ state' = IF ~IsValid(config) THEN "failed"
                ELSE IF Supervises(config) THEN "spawn" ELSE "alone"
    /\ UNCHANGED <<config, local, history>>

Spawn ==
    /\ state = "spawn"
    /\ state' = "wait"
    /\ UNCHANGED <<config, local, history>>

\* current_exe, spawn or wait returns an error: there is no retry.
Fail ==
    /\ state \in {"spawn", "wait"}
    /\ state' = "failed"
    /\ UNCHANGED <<config, local, history>>

Shorter(a, b) == IF a < b THEN a ELSE b

\* Mutant: the pause doubles without a limit.
DoubledUnlimited == backoff * 2

\* (backoff * 2).min(Duration::from_secs(30))
Doubled == Shorter(backoff * 2, MaxBackoff)

\* The two outcomes of a run. Either way the sleep follows.
LongRun ==
    /\ runtime >= StableRuntime
    /\ backoff' = InitialBackoff
    /\ pause' = InitialBackoff
    /\ lastExit' = "long"

\* Mutant: the doubled backoff is not kept.
QuickRunForgets ==
    /\ runtime < StableRuntime
    /\ pause' = backoff
    /\ lastExit' = IF lastExit \in {"none", "long"} THEN "quick" ELSE "quick_again"
    /\ UNCHANGED backoff

QuickRun ==
    /\ runtime < StableRuntime
    /\ pause' = backoff
    /\ backoff' = Doubled
    /\ lastExit' = IF lastExit \in {"none", "long"} THEN "quick" ELSE "quick_again"

\* child.wait() returns: the worker has exited, whatever its status.
WorkerExits ==
    /\ state = "wait"
    /\ LongRun \/ QuickRun
    /\ runtime' = 0
    /\ slept' = 0 /\ before' = slept
    /\ state' = "sleep"
    /\ UNCHANGED config

\* Mutant: the supervisor gives up on a worker that keeps dying.
WakeUpUnlessCrashing ==
    /\ state = "sleep" /\ pause = 0 /\ lastExit # "quick_again"
    /\ state' = "spawn"
    /\ UNCHANGED <<config, local, history>>

WakeUp ==
    /\ state = "sleep" /\ pause = 0
    /\ state' = "spawn"
    /\ UNCHANGED <<config, local, history>>

\* A second passes while the worker runs or the supervisor sleeps.
Tick ==
    \/ /\ state = "wait" /\ runtime < StableRuntime
       /\ runtime' = runtime + 1
       /\ UNCHANGED <<config, state, backoff, pause, history>>
    \/ /\ state = "sleep" /\ pause > 0
       /\ pause' = pause - 1 /\ slept' = slept + 1
       /\ UNCHANGED <<config, state, backoff, runtime, lastExit, before>>

\* Not, or no longer, a supervisor.
Over == state \in {"alone", "failed"} /\ UNCHANGED vars

Next == Decide \/ Spawn \/ Fail \/ WorkerExits \/ WakeUp \/ Tick \/ Over

Spec == Init /\ [][Next]_vars

\* The parent process is scheduled and sleeps end; nothing makes a worker exit.
FairSpec == /\ Spec
            /\ WF_vars(Decide) /\ WF_vars(Spawn \/ Fail) /\ WF_vars(WakeUp) /\ WF_vars(Tick)
-----------------------------------------------------------------------------
(***************************************************************************)
(* Properties.                                                             *)
(***************************************************************************)

\* The pause owed for the last exit: nothing before the first one, the shortest pause for a
\* long run and for the first quick exit after one, twice the pause before for every
\* further quick exit, up to the longest.
PauseOwed ==
    IF lastExit = "none" THEN 0
    ELSE IF lastExit = "quick_again" THEN Shorter(2 * before, MaxBackoff) ELSE InitialBackoff

\* A worker that keeps dying is not restarted in a storm, and one that had a long run
\* starts over from the shortest pause (main.rs:216-225): whenever a worker is started
\* again, the pause owed for its last exit has been slept in full, and no more.
RestartsAreSpacedOut == state \in {"spawn", "wait"} => slept = PauseOwed

\* Every exit of a worker, clean or not, is answered by a new start, unless the parent
\* itself gives up on a failed spawn.
EveryExitIsAnswered == state = "sleep" ~> state \in {"wait", "failed"}
=============================================================================
