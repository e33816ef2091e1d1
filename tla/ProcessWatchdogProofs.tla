----------------------- MODULE ProcessWatchdogProofs -----------------------
(***************************************************************************)
(* Proofs about ProcessWatchdog, for every set of timeouts, every          *)
(* scheduling delay and every width of the generation counter.             *)
(***************************************************************************)
EXTENDS ProcessWatchdog, TLAPS

\* The caller's program counter, the armed slot and the guard agree; disarm's test
\* of the generation therefore always succeeds.
GuardInv ==
    /\ armed <=> pc \in {"native", "returned"}
    /\ armed => armedGen = guardGen
    /\ pc \in {"arming", "native", "returned"} => timeout > 0 /\ mon # "absent"
    /\ pc = "unguarded" => timeout = 0

\* `left` is the part of the timeout that `age` has not used up.
DeadlineInv ==
    /\ armed /\ left > 0 => age + left = timeout
    /\ armed /\ left = 0 => age >= timeout
    /\ ~armed => left = 0 /\ age = 0

\* The thread never sleeps past the armed deadline by more than Lag, and an armed
\* call with a runnable thread is at most Lag + lag overdue.
WakeupInv ==
    /\ mon = "wait" => ~armed
    /\ mon = "timed" => armed /\ timer > 0 /\ age + timer <= timeout + Lag
    /\ mon = "park" => armed /\ timer > 0 /\ age + timer <= timeout + lag
    /\ armed /\ mon \in {"acquire", "decide"} => age <= timeout + Lag + lag
    /\ mon = "firing" => armed /\ left = 0 /\ age <= timeout + Lag + lag
    /\ exited => mon = "firing"

\* What every reachable state of watchdog.rs:16-147 satisfies and every step keeps:
\* the safety properties are consequences of it.
IInv == TypeOK /\ GuardInv /\ DeadlineInv /\ WakeupInv
-----------------------------------------------------------------------------
LEMMA InitEstablishesIInv == Init => IInv
<1> SUFFICES ASSUME Init PROVE IInv
  OBVIOUS
<1> USE ProcessWatchdogAssumption DEF ProcessWatchdogAssumption, Init
<1>1. TypeOK
  <2>1. armed \in BOOLEAN /\ exited \in BOOLEAN
    OBVIOUS
  <2>2. 0 \in 0 .. GenMod - 1 /\ lag \in 0 .. Lag
    OBVIOUS
  <2> QED
    BY <2>1, <2>2 DEF TypeOK, CallerPC, MonitorPC
<1>2. GuardInv /\ DeadlineInv /\ WakeupInv
  BY DEF GuardInv, DeadlineInv, WakeupInv
<1> QED
  BY <1>1, <1>2 DEF IInv

\* The steps of the calling thread keep the invariant.
LEMMA CallerKeepsIInv == IInv /\ Caller => IInv'
<1> SUFFICES ASSUME IInv, Caller PROVE IInv'
  OBVIOUS
<1> USE ProcessWatchdogAssumption
     DEF ProcessWatchdogAssumption, IInv, TypeOK, CallerPC, MonitorPC, GuardInv, DeadlineInv, WakeupInv,
         callerVars, stateVars, monVars
<1>1. CASE EnterUnguarded
  BY <1>1 DEF EnterUnguarded
<1>2. CASE ReturnUnguarded
  BY <1>2 DEF ReturnUnguarded
<1>3. CASE EnterGuarded
  BY <1>3 DEF EnterGuarded, Wake
<1>4. CASE Arm
  <2>1. generation' \in 0 .. GenMod - 1
    BY <1>4 DEF Arm, NextGeneration
  <2>2. TypeOK'
    BY <1>4, <2>1 DEF Arm, NotifyOne, Sleeping, Wake
  <2>3. GuardInv'
    BY <1>4 DEF Arm, NotifyOne, Sleeping, Wake
  <2>4. DeadlineInv'
    BY <1>4 DEF Arm
  <2>5. WakeupInv'
    BY <1>4 DEF Arm, NotifyOne, Sleeping, Wake, MutexFree
  <2> QED
    BY <2>2, <2>3, <2>4, <2>5
<1>5. CASE NativeReturns
  BY <1>5 DEF NativeReturns
<1>6. CASE Disarm
  <2>1. armed /\ armedGen = guardGen
    BY <1>6 DEF Disarm
  <2>2. ~armed' /\ left' = 0 /\ age' = 0 /\ NotifyOne
    BY <1>6, <2>1 DEF Disarm
  <2>3. TypeOK'
    <3>1. armed' \in BOOLEAN
      BY <1>6, <2>1 DEF Disarm
    <3> QED
      BY <1>6, <2>2, <3>1 DEF Disarm, NotifyOne, Sleeping, Wake
  <2>4. GuardInv'
    BY <1>6, <2>2 DEF Disarm, NotifyOne, Sleeping, Wake
  <2>5. DeadlineInv'
    BY <2>2
  <2>6. WakeupInv'
    BY <1>6, <2>2 DEF Disarm, NotifyOne, Sleeping, Wake, MutexFree
  <2> QED
    BY <2>3, <2>4, <2>5, <2>6
<1> QED
  BY <1>1, <1>2, <1>3, <1>4, <1>5, <1>6 DEF Caller

\* The steps of the watchdog thread, its spurious wakeups included, keep the invariant.
LEMMA MonitorKeepsIInv == IInv /\ (Monitor \/ SpuriousWakeup) => IInv'
<1> SUFFICES ASSUME IInv, Monitor \/ SpuriousWakeup PROVE IInv'
  OBVIOUS
<1> USE ProcessWatchdogAssumption
     DEF ProcessWatchdogAssumption, IInv, TypeOK, CallerPC, MonitorPC, GuardInv, DeadlineInv, WakeupInv,
         callerVars, stateVars, monVars
<1>1. CASE Acquire
  BY <1>1 DEF Acquire
<1>2. CASE WaitForArm
  BY <1>2 DEF WaitForArm
<1>3. CASE ComputeWait
  BY <1>3 DEF ComputeWait
<1>4. CASE StartWait
  BY <1>4 DEF StartWait
<1>5. CASE Fire
  BY <1>5 DEF Fire
<1>6. CASE Exit
  BY <1>6 DEF Exit
<1>7. CASE SpuriousWakeup
  BY <1>7 DEF SpuriousWakeup, Sleeping, Wake
<1> QED
  BY <1>1, <1>2, <1>3, <1>4, <1>5, <1>6, <1>7 DEF Monitor

\* The passage of time keeps the invariant: this is where the bounds of WakeupInv meet.
LEMMA TickKeepsIInv == IInv /\ Tick => IInv'
<1> SUFFICES ASSUME IInv, Tick PROVE IInv'
  OBVIOUS
<1> USE ProcessWatchdogAssumption
     DEF ProcessWatchdogAssumption, IInv, TypeOK, CallerPC, MonitorPC, callerVars, Tick
<1>1. TypeOK'
  BY DEF Runnable, Wake
<1>2. GuardInv'
  BY DEF GuardInv, Wake
<1>3. DeadlineInv'
  BY DEF DeadlineInv
<1>4. WakeupInv'
  <2>1. CASE mon = "timed" /\ timer > 1
    BY <2>1 DEF WakeupInv
  <2>2. CASE mon = "timed" /\ ~(timer > 1)
    BY <2>2 DEF WakeupInv, Wake
  <2>3. CASE mon # "timed"
    BY <2>3 DEF WakeupInv, DeadlineInv, Runnable
  <2> QED
    BY <2>1, <2>2, <2>3
<1> QED
  BY <1>1, <1>2, <1>3, <1>4

\* IInv holds in every reachable state of the watchdog of watchdog.rs:16-147.
THEOREM IInvHolds == Spec => []IInv
<1>1. IInv /\ [Next]_vars => IInv'
  <2> SUFFICES ASSUME IInv, [Next]_vars PROVE IInv'
    OBVIOUS
  <2>1. CASE UNCHANGED vars
    BY <2>1 DEF IInv, TypeOK, GuardInv, DeadlineInv, WakeupInv,
                vars, callerVars, stateVars, monVars
  <2>2. CASE Next
    BY <2>1, <2>2, CallerKeepsIInv, MonitorKeepsIInv, TickKeepsIInv DEF Next, Exited
  <2> QED
    BY <2>1, <2>2
<1> QED
  BY <1>1, InitEstablishesIInv, PTL DEF Spec
-----------------------------------------------------------------------------
\* Type correctness of the watchdog, for all constants.
THEOREM TypeCorrect == Spec => []TypeOK
BY IInvHolds, PTL DEF IInv

\* watchdog.rs:112: only a call that has used up its whole timeout, and whose guard
\* is still in place, gets the process killed.
THEOREM OnlyOverdueCallsAreKilled == Spec => []KillsOnlyAnOverdueCall
<1>1. IInv => KillsOnlyAnOverdueCall
  BY DEF IInv, GuardInv, DeadlineInv, WakeupInv, KillsOnlyAnOverdueCall
<1> QED
  BY <1>1, IInvHolds, PTL

\* No interleaving of arming, disarming, timers and spurious wakeups lets a guarded
\* call outlive its timeout by more than twice the thread's scheduling delay.
THEOREM OverrunBounded == Spec => []OverrunIsBounded
<1>1. IInv => OverrunIsBounded
  BY ProcessWatchdogAssumption
     DEF ProcessWatchdogAssumption, IInv, TypeOK, MonitorPC, GuardInv, WakeupInv,
         DeadlineInv, OverrunIsBounded
<1> QED
  BY <1>1, IInvHolds, PTL

\* Once the watchdog thread has decided to exit, the call it condemned never
\* completes and the decision is never taken back.
THEOREM DoomedCallsNeverComplete == Spec => DoomedCallNeverCompletes
<1>1. IInv /\ [Next]_vars => [mon = "firing" => pc' # "idle" /\ mon' = "firing"]_vars
  <2> SUFFICES ASSUME IInv, Next, mon = "firing"
               PROVE pc' # "idle" /\ mon' = "firing"
    OBVIOUS
  <2>1. pc # "idle"
    BY DEF IInv, GuardInv, WakeupInv
  <2> QED
    BY <2>1 DEF Next, Caller, Monitor, Tick, Exited, EnterUnguarded, ReturnUnguarded,
         EnterGuarded, Arm, NativeReturns, Disarm, Acquire, WaitForArm, ComputeWait,
         StartWait, Fire, Exit, SpuriousWakeup, Sleeping, MutexFree, vars,
         callerVars, monVars, IInv, GuardInv, WakeupInv
<1> QED
  BY <1>1, IInvHolds, PTL DEF Spec, DoomedCallNeverCompletes
-----------------------------------------------------------------------------
(***************************************************************************)
(* Refinement: the two threads implement GuardedCall.                      *)
(***************************************************************************)

LEMMA InitRefines == Init => GC!Init
BY DEF Init, GC!Init, CallStatus

\* Arming and the unguarded entry begin the abstract call, disarming and the
\* unguarded return end it; entering and returning from the native code are invisible.
LEMMA CallerRefines == IInv /\ Caller => [GC!Next]_(GC!vars)
<1> SUFFICES ASSUME IInv, Caller PROVE [GC!Next]_(GC!vars)
  OBVIOUS
<1> USE DEF GC!Next, GC!vars, CallStatus, callerVars, stateVars, monVars,
            IInv, TypeOK, MonitorPC, CallerPC, GuardInv, DeadlineInv, WakeupInv
<1>1. CASE EnterUnguarded
  BY <1>1 DEF EnterUnguarded, GC!Begin
<1>2. CASE ReturnUnguarded
  BY <1>2 DEF ReturnUnguarded, GC!End
<1>3. CASE EnterGuarded
  BY <1>3 DEF EnterGuarded, Wake
<1>4. CASE Arm
  BY <1>4 DEF Arm, NotifyOne, Sleeping, Wake, MutexFree, GC!Begin
<1>5. CASE NativeReturns
  BY <1>5 DEF NativeReturns
<1>6. CASE Disarm
  BY <1>6 DEF Disarm, NotifyOne, Sleeping, Wake, MutexFree, GC!End
<1> QED
  BY <1>1, <1>2, <1>3, <1>4, <1>5, <1>6 DEF Caller

\* Of the thread's steps only the decision to exit is visible: it is the abstract kill.
LEMMA MonitorRefines == IInv /\ (Monitor \/ SpuriousWakeup) => [GC!Next]_(GC!vars)
<1> SUFFICES ASSUME IInv, Monitor \/ SpuriousWakeup PROVE [GC!Next]_(GC!vars)
  OBVIOUS
<1> USE DEF GC!Next, GC!vars, CallStatus, callerVars, stateVars, monVars
<1>1. CASE Fire
  BY <1>1 DEF Fire, GC!Kill, IInv, GuardInv, DeadlineInv
<1>2. CASE Acquire \/ WaitForArm \/ ComputeWait \/ StartWait \/ Exit \/ SpuriousWakeup
  BY <1>2 DEF Acquire, WaitForArm, ComputeWait, StartWait, Exit, SpuriousWakeup,
              Sleeping, Wake
<1> QED
  BY <1>1, <1>2 DEF Monitor

\* Time passes for the abstract call only while one is armed, and never past the
\* abstract bound.
LEMMA TickRefines == IInv /\ Tick => [GC!Next]_(GC!vars)
<1> SUFFICES ASSUME IInv, Tick PROVE [GC!Next]_(GC!vars)
  OBVIOUS
<1> USE DEF Tick, GC!Next, GC!vars, CallStatus, callerVars, Wake, Runnable
<1>1. CASE armed /\ mon # "firing"
  <2>1. age < timeout + 2 * Lag
    BY <1>1, ProcessWatchdogAssumption
       DEF ProcessWatchdogAssumption, IInv, TypeOK, MonitorPC, GuardInv, DeadlineInv, WakeupInv
  <2>2. pc \in {"native", "returned"} /\ timeout > 0
    BY <1>1 DEF IInv, GuardInv
  <2>3. mon' # "firing"
    BY <1>1
  <2> QED
    BY <1>1, <2>1, <2>2, <2>3 DEF GC!Tick
<1>2. CASE ~(armed /\ mon # "firing")
  BY <1>2 DEF IInv, WakeupInv
<1> QED
  BY <1>1, <1>2

\* watchdog.rs:41-147 keeps the promise of GuardedCall: no call is killed early, none
\* outlives its timeout by more than 2 * Lag, and none comes back after the kill.
THEOREM WatchdogImplementsGuardedCall == Spec => ImplementsGuardedCall
<1>1. IInv /\ [Next]_vars => [GC!Next]_(GC!vars)
  <2> SUFFICES ASSUME IInv, [Next]_vars PROVE [GC!Next]_(GC!vars)
    OBVIOUS
  <2>1. CASE UNCHANGED vars
    BY <2>1 DEF vars, callerVars, monVars, GC!vars, CallStatus
  <2> QED
    BY <2>1, CallerRefines, MonitorRefines, TickRefines DEF Next, Exited
<1> QED
  BY <1>1, InitRefines, IInvHolds, PTL DEF Spec, ImplementsGuardedCall, GC!Spec
=============================================================================
