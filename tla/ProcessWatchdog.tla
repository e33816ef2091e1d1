-------------------------- MODULE ProcessWatchdog --------------------------
(***************************************************************************)
(* src/src/watchdog.rs, lines 16-147: the watchdog of a single native call.*)
(*                                                                         *)
(* Two threads share WatchdogState behind a mutex and a condition variable *)
(* `changed`. The caller (the main thread: warmup, later the REP loop) arms*)
(* the watchdog, runs native code that may never return, and disarms it    *)
(* when the guard is dropped. The thread "sidecar-watchdog" sleeps until   *)
(* the armed deadline and then exits the process with code 71.             *)
(*                                                                         *)
(* The caller's critical sections contain no wait, so each is one action   *)
(* that needs the mutex to be free; the watchdog thread keeps the mutex    *)
(* over several steps (MutexFree).                                         *)
(*                                                                         *)
(* Time is relative, so that no clock has to be bounded: `left` is what is *)
(* left of the armed deadline (0: now >= deadline), `timer` what is left of*)
(* a wait_timeout. Lag bounds how long the watchdog thread, once runnable, *)
(* is kept off the CPU before it blocks again.                             *)
(***************************************************************************)
EXTENDS Integers

CONSTANTS Timeouts,  \* values of --inference-timeout-ms, in clock units
          Lag,       \* scheduling delay of the watchdog thread, in clock units
          GenMod     \* generation counter: wrapping_add modulo this (2^64)

ASSUME ProcessWatchdogAssumption ==
    /\ Timeouts \subseteq Nat
    /\ Lag \in Nat
    /\ GenMod \in Nat \ {0}

VARIABLES
    timeout,     \* cli.inference_timeout_ms, fixed when the process starts
    pc,          \* where the caller is in run_with_process_watchdog
    guardGen,    \* WatchdogGuard.generation of the current call
    generation,  \* WatchdogState.generation
    armed,       \* WatchdogState.armed.is_some()
    armedGen,    \* ArmedCall.generation
    left,        \* ArmedCall.deadline - now, saturating at 0
    mon,         \* where the watchdog thread is in ProcessWatchdog::run
    timer,       \* what is left of the thread's wait_timeout
    lag,         \* clock units the thread has been runnable
    exited,      \* the process has exited (with code 71)
    age          \* history: clock units since the current call was armed; it
                 \* stops one past the bound that OverrunIsBounded states

callerVars == <<pc, guardGen>>
stateVars  == <<generation, armed, armedGen, left>>
monVars    == <<mon, timer, lag>>
vars == <<timeout, callerVars, stateVars, monVars, exited, age>>

CallerPC == {"idle", "arming", "native", "returned", "unguarded"}

\* "absent": OnceLock not initialised yet; "acquire": runnable, wants the mutex;
\* "decide": at the loop's top; "park": about to enter wait_timeout;
\* "wait" / "timed": in changed.wait / changed.wait_timeout; "firing": in exit.
MonitorPC == {"absent", "acquire", "decide", "park", "wait", "timed", "firing"}

TypeOK ==
    /\ timeout \in Timeouts
    /\ pc \in CallerPC
    /\ guardGen \in 0 .. GenMod - 1
    /\ generation \in 0 .. GenMod - 1
    /\ armed \in BOOLEAN
    /\ armedGen \in 0 .. GenMod - 1
    /\ left \in Nat
    /\ mon \in MonitorPC
    /\ timer \in Nat
    /\ lag \in 0 .. Lag
    /\ exited \in BOOLEAN
    /\ age \in Nat

Init ==
    /\ timeout \in Timeouts
    /\ pc = "idle" /\ guardGen = 0
    /\ generation = 0 /\ armed = FALSE /\ armedGen = 0 /\ left = 0
    /\ mon = "absent" /\ timer = 0 /\ lag = 0
    /\ exited = FALSE
    /\ age = 0

\* Mutant: the thread gives the mutex back before it exits.
MutexFreeWhileFiring == mon \notin {"decide", "park"}

\* Whether the caller can lock WatchdogState: the thread keeps the mutex from the end
\* of one wait to the start of the next, and into process::exit.
MutexFree == mon \notin {"decide", "park", "firing"}
Runnable  == mon \in {"acquire", "decide", "park", "firing"}
Sleeping  == mon \in {"wait", "timed"}

\* The thread leaves the condition variable and has to get the mutex back.
Wake == mon' = "acquire" /\ timer' = 0 /\ lag' = 0

\* Mutant: arm and disarm change the state and forget to notify.
NotifyNobody == UNCHANGED monVars

\* changed.notify_one(): lost unless the thread is waiting.
NotifyOne == IF Sleeping THEN Wake ELSE UNCHANGED monVars
-----------------------------------------------------------------------------
(***************************************************************************)
(* The caller.                                                             *)
(***************************************************************************)

\* run_with_process_watchdog(label, timeout, f) with a zero timeout: just f().
EnterUnguarded ==
    /\ ~exited /\ pc = "idle" /\ timeout = 0
    /\ pc' = "unguarded"
    /\ UNCHANGED <<timeout, guardGen, stateVars, monVars, exited, age>>

ReturnUnguarded ==
    /\ ~exited /\ pc = "unguarded"
    /\ pc' = "idle"
    /\ UNCHANGED <<timeout, guardGen, stateVars, monVars, exited, age>>

\* WATCHDOG.get_or_init(ProcessWatchdog::spawn): the first call starts the thread.
EnterGuarded ==
    /\ ~exited /\ pc = "idle" /\ timeout > 0
    /\ pc' = "arming"
    /\ IF mon = "absent" THEN Wake ELSE UNCHANGED monVars
    /\ UNCHANGED <<timeout, guardGen, stateVars, exited, age>>

\* Mutant: the counter is incremented without wrapping.
NextGenerationUnwrapped == generation + 1

\* state.generation.wrapping_add(1)
NextGeneration == (generation + 1) % GenMod

\* ProcessWatchdog::arm, and the guard that keeps its generation.
Arm ==
    /\ ~exited /\ pc = "arming" /\ MutexFree
    /\ generation' = NextGeneration
    /\ armed' = TRUE /\ armedGen' = generation' /\ left' = timeout
    /\ NotifyOne
    /\ guardGen' = generation'
    /\ pc' = "native"
    /\ age' = 0
    /\ UNCHANGED <<timeout, exited>>

\* The native call comes back, with a result, an error or a panic.
NativeReturns ==
    /\ ~exited /\ pc = "native"
    /\ pc' = "returned"
    /\ UNCHANGED <<timeout, guardGen, stateVars, monVars, exited, age>>

\* WatchdogGuard::drop: disarm(self.generation).
Disarm ==
    /\ ~exited /\ pc = "returned" /\ MutexFree
    /\ pc' = "idle"
    /\ IF armed /\ armedGen = guardGen
       THEN armed' = FALSE /\ left' = 0 /\ age' = 0 /\ NotifyOne
       ELSE UNCHANGED <<armed, left, age, monVars>>
    /\ UNCHANGED <<timeout, guardGen, generation, armedGen, exited>>
-----------------------------------------------------------------------------
(***************************************************************************)
(* The watchdog thread.                                                    *)
(***************************************************************************)

\* state.lock() when the thread starts, and the re-lock that ends every wait.
Acquire ==
    /\ ~exited /\ mon = "acquire"
    /\ mon' = "decide"
    /\ UNCHANGED <<timeout, callerVars, stateVars, timer, lag, exited, age>>

\* No call is armed: changed.wait(state) releases the mutex.
WaitForArm ==
    /\ ~exited /\ mon = "decide" /\ ~armed
    /\ mon' = "wait" /\ lag' = 0
    /\ UNCHANGED <<timeout, callerVars, stateVars, timer, exited, age>>

\* Mutant: every wait is as long as the whole timeout.
ComputeWholeTimeout ==
    /\ ~exited /\ mon = "decide" /\ armed /\ left > 0
    /\ mon' = "park" /\ timer' = timeout
    /\ UNCHANGED <<timeout, callerVars, stateVars, lag, exited, age>>

\* now < deadline: the wait is computed here, from a clock read taken here.
ComputeWait ==
    /\ ~exited /\ mon = "decide" /\ armed /\ left > 0
    /\ mon' = "park" /\ timer' = left
    /\ UNCHANGED <<timeout, callerVars, stateVars, lag, exited, age>>

\* changed.wait_timeout(state, wait) releases the mutex and starts the timer.
StartWait ==
    /\ ~exited /\ mon = "park"
    /\ mon' = "timed" /\ lag' = 0
    /\ UNCHANGED <<timeout, callerVars, stateVars, timer, exited, age>>

SpuriousWakeup ==
    /\ ~exited /\ Sleeping
    /\ Wake
    /\ UNCHANGED <<timeout, callerVars, stateVars, exited, age>>

\* Mutant: being woken counts as the deadline having passed.
FireOnWakeup ==
    /\ ~exited /\ mon = "decide" /\ armed
    /\ mon' = "firing"
    /\ UNCHANGED <<timeout, callerVars, stateVars, timer, lag, exited, age>>

\* now >= deadline: the thread goes to process::exit with the mutex still held.
Fire ==
    /\ ~exited /\ mon = "decide" /\ armed /\ left = 0
    /\ mon' = "firing"
    /\ UNCHANGED <<timeout, callerVars, stateVars, timer, lag, exited, age>>

Exit ==
    /\ ~exited /\ mon = "firing"
    /\ exited' = TRUE
    /\ UNCHANGED <<timeout, callerVars, stateVars, monVars, age>>
-----------------------------------------------------------------------------
\* One clock unit passes. It also ends a wait_timeout whose timer runs out.
Tick ==
    /\ ~exited
    /\ Runnable => lag < Lag
    /\ left' = IF left > 0 THEN left - 1 ELSE 0
    /\ age' = IF armed /\ age <= timeout + 2 * Lag THEN age + 1 ELSE age
    /\ IF mon = "timed"
       THEN IF timer > 1 THEN timer' = timer - 1 /\ UNCHANGED <<mon, lag>> ELSE Wake
       ELSE lag' = (IF Runnable THEN lag + 1 ELSE lag) /\ UNCHANGED <<mon, timer>>
    /\ UNCHANGED <<timeout, callerVars, generation, armed, armedGen, exited>>

\* Nothing happens in a process that has exited.
Exited == exited /\ UNCHANGED vars

Caller  == \/ EnterUnguarded \/ ReturnUnguarded \/ EnterGuarded
           \/ Arm \/ NativeReturns \/ Disarm
Monitor == Acquire \/ WaitForArm \/ ComputeWait \/ StartWait \/ Fire \/ Exit

Next == Caller \/ Monitor \/ SpuriousWakeup \/ Tick \/ Exited

Spec == Init /\ [][Next]_vars

\* The two threads are scheduled and time passes; nothing makes the native
\* call return, and nothing makes the caller start another one.
Fairness == WF_vars(Arm) /\ WF_vars(Disarm) /\ WF_vars(Monitor) /\ WF_vars(Tick)

FairSpec == Spec /\ Fairness
-----------------------------------------------------------------------------
(***************************************************************************)
(* Properties.                                                             *)
(***************************************************************************)

\* The thread only decides to exit (watchdog.rs:112) for a call whose guard is
\* still in place and that has really been running for its whole timeout: a call
\* that was disarmed in time, an earlier call's deadline or an idle caller never
\* gets the process killed.
KillsOnlyAnOverdueCall ==
    (mon = "firing" \/ exited) =>
        armed /\ timeout > 0 /\ age >= timeout /\ pc \in {"native", "returned"}

\* No wakeup is lost: however arming, disarming, timers and spurious wakeups
\* interleave, an armed call is gone (finished, or the process killed) once it is
\* overdue by twice the thread's scheduling delay: once for the delay between
\* computing a wait and starting it, once for the delay after the timer.
OverrunIsBounded == armed => age <= timeout + 2 * Lag

\* Exiting with the mutex held (watchdog.rs:104-125) keeps a late native call from
\* completing: once the thread has decided, the caller never gets past its guard.
DoomedCallNeverCompletes ==
    [][mon = "firing" => pc' # "idle" /\ mon' = "firing"]_vars

\* A hung native call does not hang the process: a guarded call either comes back
\* or the process exits. README "Worker supervision and inference timeouts to
\* recover from native runtime hangs".
HungCallIsKilled == (pc = "native" /\ timeout > 0) ~> (pc # "native" \/ exited)

\* The caller's view of the two threads: a call is running while its guard exists,
\* and killed from the thread's decision on, before the process is really gone.
CallStatus ==
    IF mon = "firing" THEN "killed"
    ELSE IF pc \in {"native", "returned", "unguarded"} THEN "running" ELSE "idle"

GC == INSTANCE GuardedCall WITH
        Slack <- 2 * Lag,
        call  <- CallStatus,
        age   <- IF mon = "firing" THEN 0 ELSE age

\* The threads, the mutex and the condition variable implement the guarded call:
\* run_with_process_watchdog kills only a call that used up its timeout, lets none
\* run past timeout + 2 * Lag, and lets no killed call come back.
ImplementsGuardedCall == GC!Spec
=============================================================================
