----------------------- MODULE ProgressWatchdogProofs -----------------------
(***************************************************************************)
(* Proofs about ProgressWatchdog, for all limits, check intervals, thread  *)
(* delays and bounds of the model.                                         *)
(***************************************************************************)
EXTENDS ProgressWatchdog, TLAPS

\* The parts of TypeOK that one step touches together.
SharedType == /\ mem \in Memories /\ successes \in Nat /\ fired \in BOOLEAN
CheckType  == /\ step \in [Checkers -> Loads \cup {"no", "swap", "now_ms", "reset", "exit"}]
              /\ snap \in [Checkers -> Memories]
              /\ due \in Nat /\ reason \in Reasons \cup {"none"}
              /\ debt \in 0 .. MaxNow + 1
LoopType   == /\ pc \in LoopPC /\ stamp \in 1 .. MaxNow + 1 /\ busy \in 0 .. Span
              /\ owed \in 0 .. MaxNow + 1
TickType   == /\ now \in 0 .. MaxNow /\ before \in Memories
              /\ owedBefore \in 0 .. MaxNow + 1
ExitType   == exit \in {Running, 0, EXIT_CODE_NO_PROGRESS}

LEMMA TypeParts == TypeOK <=> SharedType /\ CheckType /\ LoopType /\ TickType /\ ExitType
BY DEF TypeOK, SharedType, CheckType, LoopType, TickType, ExitType

\* The snapshot's chain of loads leads from field to field and ends at the clock.
LEMMA AfterType == \A f \in Loads : After[f] \in Loads \cup {"now_ms"}
BY DEF Loads, After

LEMMA LoadsAre == Loads = {"total_requests", "last_success_ms", "last_failure_ms",
                           "first_request_ms", "in_flight_start_ms"}
BY DEF Loads, After

LEMMA ZeroType == Zero \in Memories
BY DEF Zero, Memories

\* One store keeps the atomics natural numbers.
LEMMA StoreType ==
    ASSUME mem \in Memories, NEW f \in Loads, NEW v \in Nat
    PROVE  [mem EXCEPT ![f] = v] \in Memories
BY DEF Memories

LEMMA GotoType ==
    ASSUME busy \in 0 .. Span, Span \in Nat, NEW l \in LoopPC, Goto(l)
    PROVE  pc' \in LoopPC /\ busy' \in 0 .. Span
BY DEF Goto

LEMMA InitTyped == Init => TypeOK
<1> SUFFICES ASSUME Init PROVE TypeOK
  OBVIOUS
<1> USE ProgressWatchdogAssumption DEF ProgressWatchdogAssumption
<1>1. SharedType
  <2>1. fired \in BOOLEAN
    BY DEF Init
  <2> QED
    BY <2>1, ZeroType DEF Init, SharedType
<1>2. CheckType
  BY ZeroType DEF Init, CheckType
<1>3. LoopType
  BY DEF Init, LoopType, LoopPC
<1>4. TickType /\ ExitType
  BY ZeroType DEF Init, TickType, ExitType
<1> QED
  BY <1>1, <1>2, <1>3, <1>4, TypeParts

\* The loop's steps keep every variable in its type.
LEMMA LoopTyped == TypeOK /\ Loop => TypeOK'
<1> SUFFICES ASSUME TypeOK, Loop PROVE TypeOK'
  OBVIOUS
<1> USE ProgressWatchdogAssumption DEF ProgressWatchdogAssumption
<1>0. SharedType /\ CheckType /\ LoopType /\ TickType /\ ExitType
  BY TypeParts
<1>1. CASE RecvInference \/ RecvMgmt \/ MgmtDone \/ SendReply
  <2>1. pc' \in LoopPC /\ busy' \in 0 .. Span
    BY <1>0, <1>1, GotoType
       DEF RecvInference, RecvMgmt, MgmtDone, SendReply, Dispatch, LoopType, LoopPC
  <2>2. owed' \in 0 .. MaxNow + 1
    BY <1>0, <1>1
       DEF RecvInference, RecvMgmt, MgmtDone, SendReply, Dispatch, LoopType, TickType
  <2>3. UNCHANGED <<sharedVars, checkVars, stamp, tickVars, exit>>
    BY <1>1 DEF RecvInference, RecvMgmt, MgmtDone, SendReply, Dispatch
  <2>4. SharedType' /\ CheckType' /\ TickType' /\ ExitType'
    BY <1>0, <2>3 DEF SharedType, CheckType, TickType, ExitType, sharedVars, checkVars, tickVars
  <2>5. LoopType'
    BY <1>0, <2>1, <2>2, <2>3 DEF LoopType
  <2> QED
    BY <2>4, <2>5, TypeParts DEF TypeOK, SharedType, CheckType, LoopType, TickType, ExitType
<1>2. CASE RecvGivesNothing
  <2>1. pc' \in LoopPC /\ busy' \in 0 .. Span
    BY <1>0, <1>2, GotoType DEF RecvGivesNothing, LoopType, LoopPC
  <2>2. step' \in [Checkers -> Loads \cup {"no", "swap", "now_ms", "reset", "exit"}]
    BY <1>0, <1>2 DEF RecvGivesNothing, CheckType
  <2>3. UNCHANGED <<sharedVars, snap, due, reason, debt, stamp, owed, tickVars, exit>>
    BY <1>2 DEF RecvGivesNothing
  <2> QED
    BY <1>0, <2>1, <2>2, <2>3
       DEF TypeOK, SharedType, CheckType, LoopType, TickType, ExitType, sharedVars, tickVars
<1>3. CASE ReadStart \/ ReadSuccess \/ ReadFailure
  <2>1. pc' \in LoopPC /\ busy' \in 0 .. Span
    BY <1>0, <1>3, GotoType
       DEF ReadStart, ReadSuccess, ReadFailure, ReadClock, LoopType, LoopPC
  <2>2. stamp' \in 1 .. MaxNow + 1
    BY <1>0, <1>3 DEF ReadStart, ReadSuccess, ReadFailure, ReadClock, Clock, TickType
  <2>3. UNCHANGED <<sharedVars, checkVars, owed, tickVars, exit>>
    BY <1>3 DEF ReadStart, ReadSuccess, ReadFailure, ReadClock
  <2> QED
    BY <1>0, <2>1, <2>2, <2>3
       DEF TypeOK, SharedType, CheckType, LoopType, TickType, ExitType,
           sharedVars, checkVars, tickVars
<1>4. CASE \/ CountRequest \/ StampFirst \/ StampInFlight
           \/ StampSuccess \/ ClearOnSuccess \/ StampFailure \/ ClearOnFailure
  <2> USE DEF CountRequest, StampFirst, StampInFlight, StampSuccess, ClearOnSuccess,
              StampFailure, ClearOnFailure, Store
  <2>1. pc' \in LoopPC /\ busy' \in 0 .. Span
    BY <1>0, <1>4, GotoType DEF LoopType, LoopPC
  <2>2. mem' \in Memories
    <3>1. stamp \in Nat /\ \A f \in Loads : mem[f] \in Nat /\ mem[f] + 1 \in Nat
      BY <1>0 DEF LoopType, SharedType, Memories
    <3>2. PICK f \in Loads, v \in Nat : mem' = [mem EXCEPT ![f] = v]
      BY <1>4, <3>1, LoadsAre
    <3> QED
      BY <1>0, <3>2, StoreType DEF SharedType
  <2>3. owed' \in 0 .. MaxNow + 1
    BY <1>0, <1>4 DEF LoopType
  <2>4. UNCHANGED <<successes, fired, checkVars, stamp, tickVars, exit>>
    BY <1>4
  <2> QED
    BY <1>0, <2>1, <2>2, <2>3, <2>4
       DEF TypeOK, SharedType, CheckType, LoopType, TickType, ExitType, checkVars, tickVars
<1>5. CASE CountSuccess
  <2>1. pc' \in LoopPC /\ busy' \in 0 .. Span
    BY <1>0, <1>5, GotoType DEF CountSuccess, LoopType, LoopPC
  <2>2. successes' \in Nat /\ exit' \in {Running, 0, EXIT_CODE_NO_PROGRESS}
    BY <1>0, <1>5 DEF CountSuccess, SharedType, ExitType
  <2>3. UNCHANGED <<mem, fired, checkVars, stamp, owed, tickVars>>
    BY <1>5 DEF CountSuccess
  <2> QED
    BY <1>0, <2>1, <2>2, <2>3
       DEF TypeOK, SharedType, CheckType, LoopType, TickType, ExitType, checkVars, tickVars
<1> QED
  BY <1>1, <1>2, <1>3, <1>4, <1>5 DEF Loop, RequestStart, ResponseOk, ResponseErr

\* Leaving check() without a verdict keeps the checkers and the loop in their types.
LEMMA CheckReturnsTyped ==
    ASSUME CheckType, LoopType, NEW c \in Checkers, CheckReturns(c)
    PROVE  /\ step' \in [Checkers -> Loads \cup {"no", "swap", "now_ms", "reset", "exit"}]
           /\ snap' \in [Checkers -> Memories]
           /\ due' \in Nat
           /\ pc' \in LoopPC /\ busy' \in 0 .. Span
<1> USE ProgressWatchdogAssumption DEF ProgressWatchdogAssumption, CheckReturns
<1>1. /\ step' \in [Checkers -> Loads \cup {"no", "swap", "now_ms", "reset", "exit"}]
      /\ snap' \in [Checkers -> Memories]
  BY ZeroType DEF CheckType
<1>2. due' \in Nat
  BY DEF CheckType
<1>3. pc' \in LoopPC /\ busy' \in 0 .. Span
  BY GotoType DEF LoopType, LoopPC
<1> QED
  BY <1>1, <1>2, <1>3

\* The steps of check(), by either caller, keep every variable in its type.
LEMMA CheckTyped == ASSUME TypeOK, NEW c \in Checkers, Check(c) PROVE TypeOK'
<1> USE ProgressWatchdogAssumption DEF ProgressWatchdogAssumption
<1>0. SharedType /\ CheckType /\ LoopType /\ TickType /\ ExitType
  BY TypeParts
<1>1. CASE Swap(c)
  <2>0. fired' \in BOOLEAN
    BY <1>1 DEF Swap
  <2>1. CASE fired
    <3>1. CheckReturns(c) /\ UNCHANGED debt
      BY <1>1, <2>1 DEF Swap
    <3>2. UNCHANGED <<mem, successes, reason, stamp, owed, tickVars, exit>>
      BY <1>1 DEF Swap
    <3> QED
      BY <1>0, <2>0, <3>1, <3>2, CheckReturnsTyped
         DEF TypeOK, SharedType, CheckType, LoopType, TickType, ExitType, tickVars
  <2>2. CASE ~fired
    <3>1. /\ step' = [step EXCEPT ![c] = "total_requests"]
          /\ debt' = owedBefore
          /\ UNCHANGED <<snap, due, pc, busy>>
          /\ UNCHANGED <<mem, successes, reason, stamp, owed, tickVars, exit>>
      BY <1>1, <2>2 DEF Swap
    <3>2. step' \in [Checkers -> Loads \cup {"no", "swap", "now_ms", "reset", "exit"}]
      BY <1>0, <3>1, LoadsAre DEF CheckType
    <3> QED
      BY <1>0, <2>0, <3>1, <3>2
         DEF TypeOK, SharedType, CheckType, LoopType, TickType, ExitType, tickVars
  <2> QED
    BY <2>1, <2>2
<1>2. CASE Load(c)
  <2>1. PICK value \in Visible(c, step[c]) : snap' = [snap EXCEPT ![c][step[c]] = value]
    BY <1>2 DEF Load
  <2>2. value \in Nat /\ step[c] \in Loads
    BY <1>0, <1>2 DEF Load, Visible, SharedType, TickType, Memories
  <2>3. snap' \in [Checkers -> Memories]
    BY <1>0, <2>1, <2>2 DEF CheckType, Memories
  <2>4. step' \in [Checkers -> Loads \cup {"no", "swap", "now_ms", "reset", "exit"}]
    BY <1>0, <1>2, <2>2, AfterType DEF Load, CheckType
  <2>5. UNCHANGED <<sharedVars, due, reason, debt, loopVars, tickVars, exit>>
    BY <1>2 DEF Load
  <2> QED
    BY <1>0, <2>3, <2>4, <2>5
       DEF TypeOK, SharedType, CheckType, LoopType, TickType, ExitType,
           sharedVars, loopVars, tickVars
<1>3. CASE Condemn(c)
  <2>1. reason' \in Reasons \cup {"none"}
    BY <1>3 DEF Condemn, Verdict, Reasons
  <2>2. step' \in [Checkers -> Loads \cup {"no", "swap", "now_ms", "reset", "exit"}]
    BY <1>0, <1>3 DEF Condemn, CheckType
  <2>3. UNCHANGED <<sharedVars, snap, due, debt, loopVars, tickVars, exit>>
    BY <1>3 DEF Condemn
  <2> QED
    BY <1>0, <2>1, <2>2, <2>3
       DEF TypeOK, SharedType, CheckType, LoopType, TickType, ExitType,
           sharedVars, loopVars, tickVars
<1>4. CASE Acquit(c)
  <2>1. step' \in [Checkers -> Loads \cup {"no", "swap", "now_ms", "reset", "exit"}]
    BY <1>0, <1>4 DEF Acquit, CheckType
  <2>2. UNCHANGED <<sharedVars, snap, due, reason, debt, loopVars, tickVars, exit>>
    BY <1>4 DEF Acquit
  <2> QED
    BY <1>0, <2>1, <2>2
       DEF TypeOK, SharedType, CheckType, LoopType, TickType, ExitType,
           sharedVars, loopVars, tickVars
<1>5. CASE Reset(c)
  <2>1. fired' \in BOOLEAN
    BY <1>5 DEF Reset
  <2>2. debt' = 0 /\ CheckReturns(c)
        /\ UNCHANGED <<mem, successes, reason, stamp, owed, tickVars, exit>>
    BY <1>5 DEF Reset
  <2> QED
    BY <1>0, <2>1, <2>2, CheckReturnsTyped
       DEF TypeOK, SharedType, CheckType, LoopType, TickType, ExitType, tickVars
<1>6. CASE Exit(c)
  <2>1. exit' = EXIT_CODE_NO_PROGRESS /\ UNCHANGED <<sharedVars, checkVars, loopVars, tickVars>>
    BY <1>6 DEF Exit
  <2> QED
    BY <1>0, <2>1
       DEF TypeOK, SharedType, CheckType, LoopType, TickType, ExitType,
           sharedVars, checkVars, loopVars, tickVars
<1> QED
  BY <1>1, <1>2, <1>3, <1>4, <1>5, <1>6 DEF Check

LEMMA MonitorTickTyped == TypeOK /\ MonitorTick => TypeOK'
<1> SUFFICES ASSUME TypeOK, MonitorTick PROVE TypeOK'
  OBVIOUS
<1>1. step' \in [Checkers -> Loads \cup {"no", "swap", "now_ms", "reset", "exit"}]
  BY DEF TypeOK, MonitorTick
<1>2. UNCHANGED <<sharedVars, snap, due, reason, debt, loopVars, tickVars, exit>>
  BY DEF MonitorTick
<1> QED
  BY <1>1, <1>2 DEF TypeOK, sharedVars, loopVars, tickVars

LEMMA TickTyped == TypeOK /\ Tick => TypeOK'
<1> SUFFICES ASSUME TypeOK, Tick PROVE TypeOK'
  OBVIOUS
<1> USE ProgressWatchdogAssumption DEF ProgressWatchdogAssumption
<1>1. now' \in 0 .. MaxNow /\ busy' \in 0 .. Span
  BY DEF TypeOK, Tick
<1>2. before' \in Memories /\ owedBefore' \in 0 .. MaxNow + 1
  BY DEF TypeOK, Tick
<1>3. UNCHANGED <<sharedVars, checkVars, pc, stamp, owed, exit>>
  BY DEF Tick
<1> QED
  BY <1>1, <1>2, <1>3 DEF TypeOK, sharedVars, checkVars

\* Type correctness: no stamp is ever 0 (watchdog.rs:230 "so that 0 is always a valid
\* 'not set' sentinel"), and every load, store and verdict stays in its type.
THEOREM ProgressTypeCorrect == Spec => []TypeOK
<1>1. TypeOK /\ [Next]_vars => TypeOK'
  <2> SUFFICES ASSUME TypeOK, [Next]_vars PROVE TypeOK'
    OBVIOUS
  <2>1. CASE UNCHANGED vars
    BY <2>1 DEF TypeOK, vars, sharedVars, checkVars, loopVars, tickVars
  <2>2. CASE Next
    BY <2>1, <2>2, LoopTyped, CheckTyped, MonitorTickTyped, TickTyped DEF Next, Over
  <2> QED
    BY <2>1, <2>2
<1> QED
  BY <1>1, InitTyped, PTL DEF Spec
-----------------------------------------------------------------------------
\* Only the checkers' steps matter for their exclusion; a checker enters through the
\* swap, and `fired` is reset only by the one that is inside.
LEMMA ExclusionKept == TypeOK /\ ChecksAreExclusive /\ [Next]_vars => ChecksAreExclusive'
<1> SUFFICES ASSUME TypeOK, ChecksAreExclusive, [Next]_vars PROVE ChecksAreExclusive'
  OBVIOUS
<1> USE DEF ChecksAreExclusive, Inside, Checkers
<1>0. step \in [Checkers -> Loads \cup {"no", "swap", "now_ms", "reset", "exit"}]
  BY DEF TypeOK
<1>1. CASE UNCHANGED <<step, fired>>
  BY <1>1
<1>2. CASE RecvGivesNothing
  BY <1>0, <1>2 DEF RecvGivesNothing, sharedVars
<1>3. CASE MonitorTick
  BY <1>0, <1>3 DEF MonitorTick, sharedVars
<1>4. ASSUME NEW c \in Checkers, Swap(c) PROVE ChecksAreExclusive'
  BY <1>0, <1>4 DEF Swap, CheckAt, CheckReturns
<1>5. ASSUME NEW c \in Checkers, Load(c) PROVE ChecksAreExclusive'
  BY <1>0, <1>5, LoadsAre DEF Load, sharedVars
<1>6. ASSUME NEW c \in Checkers, Condemn(c) PROVE ChecksAreExclusive'
  BY <1>0, <1>6 DEF Condemn, CheckAt, sharedVars
<1>7. ASSUME NEW c \in Checkers, Acquit(c) PROVE ChecksAreExclusive'
  BY <1>0, <1>7 DEF Acquit, CheckAt, sharedVars
<1>8. ASSUME NEW c \in Checkers, Reset(c) PROVE ChecksAreExclusive'
  BY <1>0, <1>8 DEF Reset, CheckAt, CheckReturns
<1>9. Loop => RecvGivesNothing \/ UNCHANGED <<step, fired>>
  BY DEF Loop, RecvInference, RecvMgmt, MgmtDone, SendReply, Dispatch, RequestStart,
         ResponseOk, ResponseErr, CountRequest, ReadStart, StampFirst, StampInFlight,
         ReadSuccess, StampSuccess, ClearOnSuccess, CountSuccess, ReadFailure,
         StampFailure, ClearOnFailure, Store, ReadClock, sharedVars, checkVars
<1>10. \A c \in Checkers : Exit(c) => UNCHANGED <<step, fired>>
  BY DEF Exit, sharedVars, checkVars
<1>11. Tick \/ Over \/ UNCHANGED vars => UNCHANGED <<step, fired>>
  BY DEF Tick, Over, vars, sharedVars, checkVars
<1> QED
  BY <1>1, <1>2, <1>3, <1>4, <1>5, <1>6, <1>7, <1>8, <1>9, <1>10, <1>11 DEF Next, Check

\* watchdog.rs:276-284 and 355-356: the swap makes `fired` a lock, so two concurrent
\* checks never both read a snapshot, and never both go on to exit.
THEOREM ChecksNeverOverlap == Spec => []ChecksAreExclusive
<1>1. Init => ChecksAreExclusive
  BY DEF Init, ChecksAreExclusive, Inside, Checkers
<1> QED
  BY <1>1, ExclusionKept, ProgressTypeCorrect, PTL DEF Spec
-----------------------------------------------------------------------------
(***************************************************************************)
(* Refinement: the atomics are a record of requests.                       *)
(***************************************************************************)

InFlight == {"dispatch", "ok_clock", "ok_store", "err_clock", "err_store"}

\* What the loop's place says of the atomics: a request is in flight exactly from the last
\* store of request_start to the last one of response_ok or response_err, and a stamp that
\* is about to be stored is no older than those before it.
RecordInv ==
    /\ step["loop"] # "no" => pc = "check"
    /\ stamp <= now + 1
    /\ mem["last_success_ms"] <= now + 1 /\ mem["last_failure_ms"] <= now + 1
    /\ pc \in {"ok_store", "err_store"} =>
            mem["last_success_ms"] <= stamp /\ mem["last_failure_ms"] <= stamp
    /\ pc \in Starting => 0 < mem["total_requests"]
    /\ pc \notin {"ok_clear", "err_clear"} =>
            (0 < mem["in_flight_start_ms"] <=> pc \in InFlight)

\* One store changes one location.
LEMMA StoreIs ==
    ASSUME mem \in Memories, NEW f \in Loads, NEW v, mem' = [mem EXCEPT ![f] = v]
    PROVE  mem'[f] = v /\ \A g \in Loads \ {f} : mem'[g] = mem[g]
BY DEF Memories

LEMMA RecordNumbers ==
    ASSUME TypeOK
    PROVE  /\ now \in Nat /\ stamp \in Nat \ {0} /\ mem \in Memories
           /\ \A f \in Loads : mem[f] \in Nat
BY ProgressWatchdogAssumption DEF ProgressWatchdogAssumption, TypeOK, Memories

\* The checkers only read, and time only passes: the record stays as it is.
LEMMA ReadersKeepRecord ==
    ASSUME TypeOK, RecordInv,
           MonitorTick \/ Tick \/ UNCHANGED vars \/ \E c \in Checkers : Check(c)
    PROVE  RecordInv' /\ record' = record
<1>0. step \in [Checkers -> Loads \cup {"no", "swap", "now_ms", "reset", "exit"}]
  BY DEF TypeOK
<1>1. UNCHANGED <<mem, stamp>> /\ now' \in {now, now + 1}
  BY DEF MonitorTick, Tick, vars, Check, Swap, Load, Condemn, Acquit, Reset, Exit, sharedVars,
         loopVars, tickVars
<1>2. \/ pc' = pc
      \/ pc = "check" /\ pc' = "recv"
  BY DEF MonitorTick, Tick, vars, Check, Swap, Load, Condemn, Acquit, Reset, Exit, CheckReturns,
         CheckAt, Goto, loopVars, RecordInv
<1>3. step'["loop"] # "no" => pc' = "check"
  <2>1. CASE MonitorTick \/ Tick \/ UNCHANGED vars
    BY <1>0, <2>1 DEF MonitorTick, Tick, vars, checkVars, loopVars, RecordInv, Checkers
  <2>2. ASSUME NEW c \in Checkers, Check(c) PROVE step'["loop"] # "no" => pc' = "check"
    <3>1. CASE c = "loop"
      BY <1>0, <2>2, <3>1
         DEF Check, Swap, Load, Condemn, Acquit, Reset, Exit, CheckReturns, CheckAt, checkVars,
             loopVars, RecordInv, Checkers, Loads, After
    <3>2. CASE c = "monitor"
      BY <1>0, <2>2, <3>2
         DEF Check, Swap, Load, Condemn, Acquit, Reset, Exit, CheckReturns, CheckAt, checkVars,
             loopVars, RecordInv, Checkers
    <3> QED
      BY <3>1, <3>2 DEF Checkers
  <2> QED
    BY <2>1, <2>2
<1>4. record' = record
  BY <1>1, <1>2 DEF record, Starting
<1> QED
  BY <1>1, <1>2, <1>3, <1>4, RecordNumbers, LoadsAre DEF RecordInv, Starting, InFlight

\* The steps of the loop between its stores.
LEMMA MovesKeepRecord ==
    ASSUME TypeOK, RecordInv,
           \/ RecvInference \/ RecvMgmt \/ MgmtDone \/ RecvGivesNothing \/ SendReply
           \/ ReadStart \/ ReadSuccess \/ ReadFailure \/ CountSuccess
    PROVE  RecordInv' /\ record' = record
<1>0. step \in [Checkers -> Loads \cup {"no", "swap", "now_ms", "reset", "exit"}]
  BY DEF TypeOK
<1> USE DEF RecvInference, RecvMgmt, MgmtDone, RecvGivesNothing, SendReply, Dispatch,
            ReadStart, ReadSuccess, ReadFailure, ReadClock, CountSuccess, LoopAt, Goto
<1>1. UNCHANGED <<mem, now>> /\ (stamp' = stamp \/ stamp' = now + 1)
  BY DEF Clock, sharedVars, tickVars
<1>2. /\ pc' \in {"ok_store", "err_store"} => stamp' = now + 1
      /\ pc \in Starting <=> pc' \in Starting
      /\ pc \in InFlight <=> pc' \in InFlight
      /\ {pc, pc'} \cap {"ok_clear", "err_clear"} = {}
  BY DEF Clock, Starting, InFlight
<1>3. step'["loop"] # "no" => pc' = "check"
  BY <1>0 DEF RecordInv, checkVars, Checkers
<1>4. record' = record
  BY <1>1, <1>2 DEF record
<1> QED
  BY <1>1, <1>2, <1>3, <1>4, RecordNumbers, LoadsAre DEF RecordInv

\* A store of the loop: from where, to where, and what becomes of the atomics.
LEMMA StoreDoes ==
    ASSUME TypeOK, NEW here, NEW f \in Loads, NEW v, NEW there, Store(here, f, v, there)
    PROVE  /\ pc = here /\ pc' = there /\ UNCHANGED <<stamp, step, now>>
           /\ mem'[f] = v /\ \A g \in Loads \ {f} : mem'[g] = mem[g]
BY StoreIs, RecordNumbers DEF Store, LoopAt, Goto, checkVars, tickVars

\* The record by its four comparisons.
Requested == mem["total_requests"] > (IF pc \in Starting THEN 1 ELSE 0)
Flying    == mem["in_flight_start_ms"] > 0 /\ pc \notin {"ok_clear", "err_clear"}
Success   == mem["last_success_ms"] > 0
Failure   == mem["last_failure_ms"] > mem["last_success_ms"]

Fields(a, b, c, d) == [requested |-> a, inFlight |-> b, succeeded |-> c, failed |-> d]

LEMMA RecordIs ==
    /\ record = Fields(Requested, Flying, Success, Failure)
    /\ record' = Fields(Requested', Flying', Success', Failure')
BY Zenon DEF record, Fields, Requested, Flying, Success, Failure

LEMMA TheFieldsAreTests ==
    /\ {Requested, Flying, Success, Failure} \subseteq BOOLEAN
    /\ {Requested', Flying', Success', Failure'} \subseteq BOOLEAN
BY DEF Requested, Flying, Success, Failure

LEMMA OnRecord ==
    /\ record.inFlight = Flying /\ record.failed = Failure
    /\ record.requested = Requested /\ record.succeeded = Success
    /\ RR!Started(record) = Fields(TRUE, TRUE, Success, Failure)
    /\ RR!Succeeded(record) = Fields(Requested, FALSE, TRUE, FALSE)
BY DEF record, RR!Started, RR!Succeeded, Fields, Requested, Flying, Success, Failure

LEMMA FailedAre ==
    ASSUME NEW a, NEW b, NEW c \in BOOLEAN, NEW d \in BOOLEAN, NEW e \in BOOLEAN, d \/ ~c => e
    PROVE  Fields(a, FALSE, c, e) \in RR!Failed(Fields(a, b, c, d))
BY DEF RR!Failed, Fields

\* The stores, each with what it does to the record.
LEMMA StoresKeepRecord ==
    ASSUME TypeOK, RecordInv,
           \/ CountRequest \/ StampFirst \/ StampInFlight
           \/ StampSuccess \/ ClearOnSuccess \/ StampFailure \/ ClearOnFailure
    PROVE  RecordInv' /\ [RR!Next]_record
<1>0. /\ now \in Nat /\ stamp \in Nat \ {0}
      /\ \A f \in Loads : mem[f] \in Nat
  BY RecordNumbers
<1> USE DEF RecordInv, Starting, InFlight
<1>1. CASE CountRequest
  <2>1. /\ pc = "rs_count" /\ pc' = "rs_clock" /\ UNCHANGED <<stamp, step, now>>
        /\ mem'["total_requests"] = mem["total_requests"] + 1
        /\ \A g \in Loads \ {"total_requests"} : mem'[g] = mem[g]
    BY <1>1, StoreDoes, LoadsAre DEF CountRequest
  <2>2. RecordInv'
    BY <1>0, <2>1, LoadsAre
  <2>3. record' = record
    BY <1>0, <2>1, LoadsAre DEF record
  <2> QED
    BY <2>2, <2>3
<1>2. CASE StampFirst
  <2>1. /\ pc = "rs_first" /\ pc' = "rs_inflight" /\ UNCHANGED <<stamp, step, now>>
        /\ \A g \in Loads \ {"first_request_ms"} : mem'[g] = mem[g]
    <3>1. PICK v : Store("rs_first", "first_request_ms", v, "rs_inflight")
      BY <1>2 DEF StampFirst
    <3> QED
      BY <3>1, StoreDoes, LoadsAre
  <2>2. RecordInv'
    BY <1>0, <2>1, LoadsAre
  <2>3. record' = record
    BY <1>0, <2>1, LoadsAre DEF record
  <2> QED
    BY <2>2, <2>3
<1>3. CASE StampInFlight
  <2>1. /\ pc = "rs_inflight" /\ pc' = "dispatch" /\ UNCHANGED <<stamp, step, now>>
        /\ mem'["in_flight_start_ms"] = stamp
        /\ \A g \in Loads \ {"in_flight_start_ms"} : mem'[g] = mem[g]
    BY <1>3, StoreDoes, LoadsAre DEF StampInFlight
  <2>2. RecordInv'
    BY <1>0, <2>1, LoadsAre
  <2>3. /\ Requested' = TRUE /\ Flying' = TRUE /\ Flying = FALSE
        /\ Success' = Success /\ Failure' = Failure
    BY <1>0, <2>1, LoadsAre DEF Requested, Flying, Success, Failure
  <2>4. record' = Fields(TRUE, TRUE, Success, Failure)
    BY <2>3, RecordIs
  <2>5. ~record.inFlight /\ record' = RR!Started(record)
    BY <2>3, <2>4, OnRecord
  <2> QED
    BY <2>2, <2>5 DEF RR!Next, RR!Start
<1>4. CASE StampSuccess
  <2>1. /\ pc = "ok_store" /\ pc' = "ok_clear" /\ UNCHANGED <<stamp, step, now>>
        /\ mem'["last_success_ms"] = stamp
        /\ \A g \in Loads \ {"last_success_ms"} : mem'[g] = mem[g]
    BY <1>4, StoreDoes, LoadsAre DEF StampSuccess
  <2>2. RecordInv'
    BY <1>0, <2>1, LoadsAre
  <2>3. /\ Requested' = Requested /\ Flying = TRUE /\ Flying' = FALSE
        /\ Success' = TRUE /\ Failure' = FALSE
    BY <1>0, <2>1, LoadsAre DEF Requested, Flying, Success, Failure
  <2>4. record' = Fields(Requested, FALSE, TRUE, FALSE)
    BY <2>3, RecordIs
  <2>5. record.inFlight /\ record' = RR!Succeeded(record)
    BY <2>3, <2>4, OnRecord
  <2> QED
    BY <2>2, <2>5 DEF RR!Next, RR!Succeed
<1>5. CASE StampFailure
  <2>1. /\ pc = "err_store" /\ pc' = "err_clear" /\ UNCHANGED <<stamp, step, now>>
        /\ mem'["last_failure_ms"] = stamp
        /\ \A g \in Loads \ {"last_failure_ms"} : mem'[g] = mem[g]
    BY <1>5, StoreDoes, LoadsAre DEF StampFailure
  <2>2. RecordInv'
    BY <1>0, <2>1, LoadsAre
  <2>3. /\ Requested' = Requested /\ Flying = TRUE /\ Flying' = FALSE
        /\ Success' = Success /\ (Failure \/ ~Success => Failure')
    BY <1>0, <2>1, LoadsAre DEF Requested, Flying, Success, Failure
  <2>4. record' = Fields(Requested, FALSE, Success, Failure')
    BY <2>3, RecordIs
  <2>5. Fields(Requested, FALSE, Success, Failure')
            \in RR!Failed(Fields(Requested, Flying, Success, Failure))
    BY <2>3, TheFieldsAreTests, FailedAre
  <2>6. record.inFlight /\ record' \in RR!Failed(record)
    BY <2>3, <2>4, <2>5, RecordIs, OnRecord
  <2> QED
    BY <2>2, <2>6 DEF RR!Next, RR!Fail
<1>6. CASE ClearOnSuccess
  <2>1. /\ pc = "ok_clear" /\ pc' = "ok_count" /\ UNCHANGED <<stamp, step, now>>
        /\ mem'["in_flight_start_ms"] = 0
        /\ \A g \in Loads \ {"in_flight_start_ms"} : mem'[g] = mem[g]
    BY <1>6, StoreDoes, LoadsAre DEF ClearOnSuccess
  <2>2. RecordInv'
    BY <1>0, <2>1, LoadsAre
  <2>3. record' = record
    BY <1>0, <2>1, LoadsAre DEF record
  <2> QED
    BY <2>2, <2>3
<1>7. CASE ClearOnFailure
  <2>1. /\ pc = "err_clear" /\ pc' = "recv" /\ UNCHANGED <<stamp, step, now>>
        /\ mem'["in_flight_start_ms"] = 0
        /\ \A g \in Loads \ {"in_flight_start_ms"} : mem'[g] = mem[g]
    BY <1>7, StoreDoes, LoadsAre DEF ClearOnFailure
  <2>2. RecordInv'
    BY <1>0, <2>1, LoadsAre
  <2>3. record' = record
    BY <1>0, <2>1, LoadsAre DEF record
  <2> QED
    BY <2>2, <2>3
<1> QED
  BY <1>1, <1>2, <1>3, <1>4, <1>5, <1>6, <1>7

LEMMA RecordStep == TypeOK /\ RecordInv /\ [Next]_vars => RecordInv' /\ [RR!Next]_record
<1> SUFFICES ASSUME TypeOK, RecordInv, [Next]_vars PROVE RecordInv' /\ [RR!Next]_record
  OBVIOUS
<1> QED
  BY ReadersKeepRecord, MovesKeepRecord, StoresKeepRecord
     DEF Next, Loop, RequestStart, ResponseOk, ResponseErr, Over

\* watchdog.rs:219-254: the record of requests that Worker keeps is what check() sees of
\* the atomics, whatever the limits, delays and clock reads.
THEOREM ProgressImplementsRequestRecord == Spec => ImplementsRequestRecord
<1>1. Init => RecordInv /\ RR!Init
  <2> SUFFICES ASSUME Init PROVE RecordInv /\ RR!Init
    OBVIOUS
  <2>1. pc = "recv" /\ now = 0 /\ stamp = 1 /\ step["loop"] = "no" /\ \A f \in Loads : mem[f] = 0
    BY DEF Init, Zero, Checkers
  <2>2. RecordInv
    BY <2>1, LoadsAre DEF RecordInv, Starting, InFlight
  <2>3. Requested = FALSE /\ Flying = FALSE /\ Success = FALSE /\ Failure = FALSE
    BY <2>1, LoadsAre DEF Requested, Flying, Success, Failure, Starting
  <2>4. record = Fields(FALSE, FALSE, FALSE, FALSE)
    BY <2>3, RecordIs
  <2> QED
    BY <2>2, <2>4 DEF RR!Init, RR!NoRequests, Fields
<1>2. Spec => []RecordInv
  BY <1>1, RecordStep, ProgressTypeCorrect, PTL DEF Spec
<1> QED
  BY <1>1, <1>2, RecordStep, ProgressTypeCorrect, PTL DEF Spec, ImplementsRequestRecord, RR!Spec
=============================================================================
