-------------------------- MODULE SupervisorProofs --------------------------
(***************************************************************************)
(* Proofs about Supervisor, for all backoffs and every length of a stable  *)
(* run.                                                                    *)
(***************************************************************************)
EXTENDS Supervisor, TLAPS

\* The pause of the last exit, slept or still to be slept.
Pause == slept + pause

\* What is owed is what is slept plus what is left, and only a sleeping supervisor has
\* something left.
PauseInv == Pause = PauseOwed /\ (state # "sleep" => pause = 0)

\* The next quick exit's pause: the variable the code keeps, in terms of the last pause.
BackoffInv ==
    backoff = IF lastExit \in {"none", "long"} THEN InitialBackoff
              ELSE Shorter(2 * Pause, MaxBackoff)

IInv == TypeOK /\ PauseInv /\ BackoffInv
-----------------------------------------------------------------------------
LEMMA InitEstablishesIInv == Init => IInv
BY SupervisorAssumption
   DEF SupervisorAssumption, Init, IInv, TypeOK, States, PauseInv, BackoffInv, Pause,
       PauseOwed

\* Everything but an exit and a second of sleep leaves the pause and the backoff alone.
LEMMA QuietStepKeepsIInv ==
    ASSUME IInv, UNCHANGED <<config, backoff, pause, history>>,
           state' \in States, runtime' \in 0 .. StableRuntime,
           state' # "sleep" => pause = 0
    PROVE  IInv'
BY DEF IInv, TypeOK, PauseInv, BackoffInv, Pause, PauseOwed, history

LEMMA MoveKeepsIInv == IInv /\ (Decide \/ Spawn \/ Fail \/ WakeUp) => IInv'
<1> SUFFICES ASSUME IInv, Decide \/ Spawn \/ Fail \/ WakeUp PROVE IInv'
  OBVIOUS
<1>1. UNCHANGED <<config, backoff, runtime, pause, history>>
  BY DEF Decide, Spawn, Fail, WakeUp, local
<1>2. state' \in States /\ (state' # "sleep" => pause = 0)
  BY DEF Decide, Spawn, Fail, WakeUp, States, IInv, PauseInv
<1> QED
  BY <1>1, <1>2, QuietStepKeepsIInv DEF IInv, TypeOK

\* After an exit the whole pause is ahead, and the doubled backoff is twice that pause.
LEMMA ExitKeepsIInv == IInv /\ WorkerExits => IInv'
<1> SUFFICES ASSUME IInv, WorkerExits PROVE IInv'
  OBVIOUS
<1> USE SupervisorAssumption DEF SupervisorAssumption
<1>0. /\ TypeOK /\ state = "wait" /\ pause = 0 /\ slept = PauseOwed
      /\ state' = "sleep" /\ runtime' = 0 /\ slept' = 0 /\ before' = slept
      /\ UNCHANGED config
  <2>1. TypeOK /\ PauseInv
    BY DEF IInv
  <2>2. state = "wait" /\ state' = "sleep" /\ runtime' = 0 /\ slept' = 0 /\ before' = slept
        /\ UNCHANGED config
    BY DEF WorkerExits
  <2>3. pause = 0 /\ slept = PauseOwed
    BY <2>1, <2>2 DEF PauseInv, Pause, TypeOK
  <2> QED
    BY <2>1, <2>2, <2>3
<1>1. CASE LongRun
  <2>1. pause' = InitialBackoff /\ backoff' = InitialBackoff /\ lastExit' = "long"
    BY <1>1 DEF LongRun
  <2>2. TypeOK'
    BY <1>0, <2>1 DEF TypeOK, States
  <2>3. PauseInv' /\ BackoffInv'
    BY <1>0, <2>1 DEF PauseInv, BackoffInv, Pause, PauseOwed
  <2> QED
    BY <1>0, <2>2, <2>3 DEF IInv
<1>2. CASE QuickRun
  <2>1. pause' = backoff /\ backoff' = Shorter(backoff * 2, MaxBackoff)
        /\ lastExit' = IF lastExit \in {"none", "long"} THEN "quick" ELSE "quick_again"
    BY <1>2 DEF QuickRun, Doubled
  <2>2. TypeOK'
    BY <1>0, <2>1 DEF TypeOK, States, Shorter
  <2>3. backoff = PauseOwed'
    BY <1>0, <2>1 DEF IInv, TypeOK, BackoffInv, Pause, PauseOwed
  <2>4. Pause' = backoff
    BY <1>0, <2>1 DEF TypeOK, Pause
  <2>5. PauseInv'
    BY <1>0, <2>3, <2>4 DEF PauseInv
  <2>6. BackoffInv'
    <3>1. lastExit' \notin {"none", "long"}
      BY <2>1
    <3>2. backoff' = Shorter(2 * Pause', MaxBackoff)
      BY <1>0, <2>1, <2>4 DEF TypeOK, Shorter
    <3> QED
      BY <3>1, <3>2 DEF BackoffInv
  <2> QED
    BY <1>0, <2>2, <2>5, <2>6 DEF IInv
<1> QED
  BY <1>1, <1>2 DEF WorkerExits

LEMMA TickKeepsIInv == IInv /\ Tick => IInv'
<1> SUFFICES ASSUME IInv, Tick PROVE IInv'
  OBVIOUS
<1> USE SupervisorAssumption DEF SupervisorAssumption
<1>1. CASE state = "wait"
  <2>1. runtime' \in 0 .. StableRuntime /\ UNCHANGED <<config, state, backoff, pause, history>>
    BY <1>1 DEF Tick, IInv, TypeOK
  <2> QED
    BY <1>1, <2>1, QuietStepKeepsIInv DEF IInv, TypeOK, PauseInv
<1>2. CASE state = "sleep"
  <2>1. /\ pause > 0 /\ pause' = pause - 1 /\ slept' = slept + 1
        /\ UNCHANGED <<config, state, backoff, runtime, lastExit, before>>
    BY <1>2 DEF Tick
  <2>2. slept + pause <= MaxBackoff
    BY DEF IInv, TypeOK, PauseInv, Pause, PauseOwed, Shorter
  <2>3. Pause' = Pause
    BY <2>1 DEF Pause, IInv, TypeOK
  <2> QED
    BY <1>2, <2>1, <2>2, <2>3
       DEF IInv, TypeOK, PauseInv, BackoffInv, PauseOwed
<1> QED
  BY <1>1, <1>2 DEF Tick

\* IInv holds in every reachable state of the supervisor.
THEOREM SupervisorInvHolds == Spec => []IInv
<1>1. IInv /\ [Next]_vars => IInv'
  <2> SUFFICES ASSUME IInv, [Next]_vars PROVE IInv'
    OBVIOUS
  <2>1. CASE UNCHANGED vars
    BY <2>1 DEF vars, local, history, IInv, TypeOK, PauseInv, BackoffInv, Pause, PauseOwed
  <2> QED
    BY <2>1, MoveKeepsIInv, ExitKeepsIInv, TickKeepsIInv DEF Next, Over
<1> QED
  BY <1>1, InitEstablishesIInv, PTL DEF Spec

\* main.rs:193-225: the backoff stays between its first value and its limit, and no sleep
\* is longer than the limit.
THEOREM SupervisorTypeCorrect == Spec => []TypeOK
BY SupervisorInvHolds, PTL DEF IInv

\* main.rs:216-225: before every start of a worker the pause owed for its last exit has
\* been slept, whatever the backoffs, the lengths of the runs and their order.
THEOREM RestartsSpacedOut == Spec => []RestartsAreSpacedOut
<1>1. IInv => RestartsAreSpacedOut
  BY SupervisorAssumption
     DEF SupervisorAssumption, IInv, TypeOK, PauseInv, Pause, RestartsAreSpacedOut
<1> QED
  BY <1>1, SupervisorInvHolds, PTL
=============================================================================
