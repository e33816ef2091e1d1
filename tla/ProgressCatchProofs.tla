------------------------- MODULE ProgressCatchProofs -------------------------
(***************************************************************************)
(* Proof that no stall and no process outlives its limit by more than the  *)
(* grace period, for all limits, intervals and delays.                     *)
(*                                                                         *)
(* The argument: the monitor's last check either read the stamp of what    *)
(* now looks like a stall, when that was still younger than the limit, or  *)
(* began no later than shortly after the stamp was stored, or gave way to  *)
(* the loop's check, which began soon after and sees the stamp as it is.   *)
(* So the next tick is due in time (Timely), and it is not served late. A  *)
(* check that finds nothing may give `fired` back only some time after it  *)
(* read the clock: what it then leaves is bounded by when it began         *)
(* (AcquittedInv).                                                         *)
(*                                                                         *)
(* And proof that what check() takes for a stall is one on record.         *)
(***************************************************************************)
EXTENDS ProgressStallProofs

\* The stamps that are signs of a stall.
Signs == {"last_failure_ms", "first_request_ms", "in_flight_start_ms"}

\* The loop has read the clock, and goes on to store what it read.
Storing == {"rs_first", "rs_inflight", "ok_store", "err_store"}

DueInv ==
    /\ due <= now + CheckInterval
    /\ fired => \E c \in Checkers : Inside(c)

\* Stamps are young when they are stored, and none is stored before the first request
\* is counted.
FreshInv ==
    /\ pc \in Storing => now + 1 <= stamp + busy
    /\ \A f \in Signs : mem[f] # before[f] /\ 0 < mem[f] => now + 1 <= mem[f] + Span
    /\ mem["total_requests"] = 0 => /\ pc \in {"recv", "mgmt", "check", "rs_count"}
                                    /\ \A f \in Stamps : mem[f] = 0
    /\ before["total_requests"] = 0 => /\ pc \in Storing => now + 1 <= stamp
                                       /\ \A f \in Stamps : 0 < mem[f] => now + 1 <= mem[f]

\* The check of c has loaded f.
Past(c, f) ==
    \/ step[c] = "now_ms"
    \/ step[c] = "in_flight_start_ms" /\ f # "in_flight_start_ms"
    \/ step[c] = "first_request_ms" /\ f \notin {"in_flight_start_ms", "first_request_ms"}
    \/ step[c] = "last_failure_ms" /\ f \in {"total_requests", "last_success_ms"}
    \/ step[c] = "last_success_ms" /\ f = "total_requests"

\* While it checks, the loop does not store: what it has loaded is what is there.
LoopViewInv == \A f \in Loads : Past("loop", f) => snap["loop"][f] = mem[f]

\* What the monitor has loaded is there, or has been replaced since its tick.
MonitorViewInv ==
    /\ \A f \in Signs : Past("monitor", f) /\ 0 < mem[f] =>
            snap["monitor"][f] = mem[f] \/ due + 1 <= mem[f] + Span
    /\ Past("monitor", "last_success_ms") =>
            snap["monitor"]["last_success_ms"] <= mem["last_success_ms"]
    /\ Past("monitor", "total_requests") /\ snap["monitor"]["total_requests"] = 0 =>
            /\ pc \in Storing => due + 1 <= stamp
            /\ \A f \in Stamps : 0 < mem[f] => due + 1 <= mem[f]

\* What has been going on since x will be checked soon after its limit: by the monitor's
\* next tick, or by the loop's check that is under way.
Timely(x, limit) ==
    \/ due <= x + limit + CheckInterval + Span - 1
    \/ Inside("loop") /\ Began("loop") <= x + limit + CheckInterval + 2 * Span - 1

\* The signs that check() looks for are there, with their stamps.
Sign(f) ==
    /\ f \in Signs /\ 0 < mem[f] /\ MaxNoProgress > 0
    /\ f = "last_failure_ms" => mem["last_success_ms"] < mem[f]
    /\ f = "first_request_ms" => mem["last_success_ms"] = 0

SignInv ==
    /\ \A f \in Signs : Sign(f) => Timely(mem[f], Patience)
    /\ MaxLifetime > 0 => Timely(1, MaxLifetime)

\* A check that has found nothing began when every sign that is there now, and the
\* process, were younger than their limit.
Young(c, x, limit) == Began(c) + 1 <= x + limit

AcquittedInv ==
    \A c \in Checkers : step[c] = "reset" =>
        /\ \A f \in Signs : Sign(f) => Young(c, mem[f], Patience)
        /\ MaxLifetime > 0 => Young(c, 0, MaxLifetime)

CatchInv == DueInv /\ FreshInv /\ LoopViewInv /\ MonitorViewInv /\ SignInv /\ AcquittedInv

\* What is already known of every reachable state.
Known == TypeOK /\ ChecksAreExclusive /\ StallInv
-----------------------------------------------------------------------------
LEMMA InitCatch == Init => CatchInv
  <1> SUFFICES ASSUME Init PROVE CatchInv
    OBVIOUS
  <1> USE ProgressWatchdogAssumption DEF ProgressWatchdogAssumption
  <1>1. mem = before /\ \A f \in Loads : mem[f] = 0
    BY DEF Init, Zero
  <1>2. DueInv
    BY DEF Init, DueInv
  <1>3. FreshInv
    BY <1>1, LoadsAre DEF Init, FreshInv, Storing, Signs, Stamps
  <1>4. LoopViewInv /\ MonitorViewInv
    BY DEF Init, LoopViewInv, MonitorViewInv, Past, Checkers
  <1>5. SignInv
    BY <1>1, LoadsAre DEF Init, SignInv, Sign, Signs, Timely
  <1>6. AcquittedInv
    BY DEF Init, AcquittedInv, Checkers
  <1> QED  BY <1>2, <1>3, <1>4, <1>5, <1>6 DEF CatchInv

\* A step of the loop leaves the checkers alone, and is not one of its check.
LEMMA LoopFrame ==
    ASSUME Loop
    PROVE  /\ UNCHANGED <<due, now, before, snap, fired>> /\ pc # "check"
           /\ RecvGivesNothing \/ UNCHANGED step
  BY DEF Loop, RecvInference, RecvMgmt, MgmtDone, RecvGivesNothing, SendReply, Dispatch,
         RequestStart, ResponseOk, ResponseErr, CountRequest, ReadStart, StampFirst,
         StampInFlight, ReadSuccess, StampSuccess, ClearOnSuccess, CountSuccess, ReadFailure,
         StampFailure, ClearOnFailure, Store, ReadClock, LoopAt, Checkers,
         sharedVars, checkVars, tickVars

\* The loop enters check() at the swap only.
LEMMA LoopEnters ==
    ASSUME TypeOK, DelayInv, Loop, NEW c \in Checkers
    PROVE  /\ Inside(c)' = Inside(c)
           /\ \A f \in Loads : Past(c, f)' = Past(c, f)
  <1>0. step \in [Checkers -> Loads \cup {"no", "swap", "now_ms", "reset", "exit"}]
    BY DEF TypeOK
  <1>1. CASE RecvGivesNothing
    <2>1. step["loop"] = "no"
      BY <1>0, <1>1, LoadsAre DEF RecvGivesNothing, LoopAt, DelayInv, Checkers
    <2>2. step'[c] = step[c] \/ (step[c] = "no" /\ step'[c] = "swap")
      BY <1>0, <1>1, <2>1 DEF RecvGivesNothing
    <2> QED  BY <2>2 DEF Inside, Past
  <1> QED  BY <1>1, LoopFrame DEF Inside, Past

LEMMA DueKept ==
    ASSUME TypeOK, DelayInv, ChecksAreExclusive, DueInv, [Next]_vars
    PROVE  DueInv'
  <1> USE ProgressWatchdogAssumption DEF DueInv, ProgressWatchdogAssumption
  <1>0. /\ step \in [Checkers -> Loads \cup {"no", "swap", "now_ms", "reset", "exit"}]
        /\ now \in Nat /\ due \in Nat
    BY DEF TypeOK
  <1>1. CASE Loop
    BY <1>1, LoopFrame, LoopEnters
  <1>2. CASE MonitorTick \/ Tick \/ Over \/ UNCHANGED vars
    BY <1>0, <1>2
       DEF MonitorTick, Tick, Over, vars, sharedVars, checkVars, tickVars, Inside, CheckAt, Checkers
  <1>3. ASSUME NEW c \in Checkers, Check(c) PROVE DueInv'
    <2>1. now' = now
      BY <1>3, CheckMoves
    <2>2. step[c] # "no"
      BY <1>3, LoadsAre DEF Check, Swap, Load, Condemn, Acquit, Reset, Exit, CheckAt
    <2>3. due' <= now' + CheckInterval
      <3>1. due' = due \/ (c = "monitor" /\ due' = due + CheckInterval)
        BY <1>3 DEF Check, Swap, Load, Condemn, Acquit, Reset, Exit, CheckReturns, Checkers, checkVars
      <3> QED  BY <1>0, <2>1, <2>2, <3>1 DEF DelayInv
    <2>4. fired' => \E d \in Checkers : Inside(d)'
      <3>1. CASE Swap(c) /\ ~fired
        BY <1>0, <3>1 DEF Swap, Inside
      <3>2. CASE Swap(c) /\ fired
        <4>1. PICK d \in Checkers : Inside(d)
          BY <3>2
        <4>2. step'[d] = step[d]
          BY <1>0, <3>2, <4>1 DEF Swap, CheckAt, CheckReturns, Inside
        <4> QED  BY <4>1, <4>2 DEF Inside
      <3>3. CASE Load(c)
        <4>1. fired' = fired /\ Inside(c)'
          BY <1>0, <3>3, AfterType, LoadsAre DEF Load, Inside, sharedVars
        <4> QED  BY <4>1
      <3>4. CASE Condemn(c)
        BY <1>0, <3>4 DEF Condemn, Inside, sharedVars
      <3>5. CASE Acquit(c)
        BY <1>0, <3>5 DEF Acquit, Inside, sharedVars
      <3>6. CASE Reset(c)
        BY <3>6 DEF Reset
      <3>7. CASE Exit(c)
        BY <3>7 DEF Exit, Inside, sharedVars, checkVars
      <3> QED  BY <1>3, <3>1, <3>2, <3>3, <3>4, <3>5, <3>6, <3>7 DEF Check
    <2> QED  BY <2>3, <2>4
  <1> QED  BY <1>1, <1>2, <1>3 DEF Next

LEMMA FreshKept ==
    ASSUME TypeOK, MemInv, FreshInv, [Next]_vars
    PROVE  FreshInv'
  <1> USE DEF FreshInv, Storing
  <1>0. Numbers /\ Span \in Nat
    BY NumbersAre, ProgressWatchdogAssumption DEF ProgressWatchdogAssumption
  <1>1. CASE RecvInference \/ RecvMgmt \/ MgmtDone \/ RecvGivesNothing \/ SendReply
             \/ CountSuccess
    <2>1. /\ UNCHANGED <<mem, before, now, stamp>>
          /\ pc \notin Storing /\ pc' \notin Storing
          /\ pc \in {"recv", "mgmt", "check", "rs_count"} =>
                pc' \in {"recv", "mgmt", "check", "rs_count"}
      BY <1>1 DEF RecvInference, RecvMgmt, MgmtDone, RecvGivesNothing, SendReply, Dispatch,
         CountSuccess, LoopAt, Goto, sharedVars, tickVars
    <2> QED  BY <2>1
  <1>2. CASE ReadStart \/ ReadSuccess \/ ReadFailure
    <2>1. /\ UNCHANGED <<mem, before, now>> /\ stamp' = now + 1 /\ busy' = busy
          /\ pc \notin {"recv", "mgmt", "check", "rs_count"}
      BY <1>2 DEF ReadStart, ReadSuccess, ReadFailure, ReadClock, LoopAt, Goto, Clock,
         Waiting, sharedVars, tickVars
    <2> QED  BY <1>0, <2>1 DEF Numbers
  <1>3. CASE CountRequest
    <2>1. /\ UNCHANGED <<before, now, stamp>> /\ pc \notin Storing /\ pc' \notin Storing
          /\ mem'["total_requests"] = mem["total_requests"] + 1
          /\ \A f \in Stamps : mem'[f] = mem[f]
      BY <1>0, <1>3, StoreIs, LoadsAre
         DEF CountRequest, Store, LoopAt, Goto, tickVars, Numbers, Stamps
    <2> QED  BY <1>0, <2>1, LoadsAre DEF Numbers, Signs, Stamps
  <1>4. CASE StampFirst \/ StampInFlight \/ StampSuccess \/ StampFailure
    <2>1. /\ UNCHANGED <<before, now, stamp>> /\ pc \in Storing
          /\ pc' \in Storing => busy' = busy
          /\ mem'["total_requests"] = mem["total_requests"]
          /\ \A f \in Stamps : mem'[f] \in {mem[f], stamp}
      BY <1>0, <1>4, StoreIs, LoadsAre
         DEF StampFirst, StampInFlight, StampSuccess, StampFailure, Store, LoopAt, Goto, Waiting,
             tickVars, Numbers, Stamps
    <2>2. mem["total_requests"] # 0
      BY <2>1
    <2> QED  BY <1>0, <2>1, <2>2, LoadsAre DEF Numbers, Signs, Stamps
  <1>5. CASE ClearOnSuccess \/ ClearOnFailure
    <2>1. /\ UNCHANGED <<before, now, stamp>> /\ pc' \notin Storing
          /\ pc \notin {"recv", "mgmt", "check", "rs_count"}
          /\ mem'["total_requests"] = mem["total_requests"]
          /\ \A f \in Stamps : mem'[f] \in {mem[f], 0}
      BY <1>0, <1>5, StoreIs, LoadsAre
         DEF ClearOnSuccess, ClearOnFailure, Store, LoopAt, Goto, tickVars, Numbers, Stamps
    <2> QED  BY <1>0, <2>1, LoadsAre DEF Numbers, Signs, Stamps
  <1>6. ASSUME NEW c \in Checkers, Check(c) PROVE FreshInv'
    <2>1. busy' = busy \/ pc' = "recv"
      BY <1>6 DEF Check, Swap, Load, Condemn, Acquit, Reset, Exit, CheckReturns, Goto, loopVars
    <2> QED  BY <1>6, <2>1, CheckMoves
  <1>7. CASE Tick
    <2>1. /\ before' = mem /\ now' = now + 1 /\ UNCHANGED <<mem, pc, stamp>>
          /\ pc \in Storing => busy' = busy + 1
      BY <1>7 DEF Tick, Waiting, sharedVars
    <2> QED  BY <1>0, <2>1 DEF Numbers
  <1>8. CASE MonitorTick \/ Over \/ UNCHANGED vars
    BY <1>8 DEF MonitorTick, Over, vars, sharedVars, loopVars, tickVars
  <1> QED
    BY <1>1, <1>2, <1>3, <1>4, <1>5, <1>6, <1>7, <1>8
       DEF Next, Loop, RequestStart, ResponseOk, ResponseErr
-----------------------------------------------------------------------------
(***************************************************************************)
(* What the checkers have loaded.                                          *)
(***************************************************************************)

\* A load adds one location, and reads it as it is or, for the monitor, as it was.
LEMMA LoadAdds ==
    ASSUME TypeOK, NEW c \in Checkers, Load(c)
    PROVE  \E g \in Loads : \E v \in Visible(c, g) :
              /\ \A f \in Loads : Past(c, f)' => Past(c, f) \/ f = g
              /\ snap'[c][g] = v /\ \A f \in Loads \ {g} : snap'[c][f] = snap[c][f]
              /\ \A d \in Checkers \ {c} : step'[d] = step[d] /\ snap'[d] = snap[d]
  <1>0. /\ step \in [Checkers -> Loads \cup {"no", "swap", "now_ms", "reset", "exit"}]
        /\ snap \in [Checkers -> Memories]
    BY DEF TypeOK
  <1>1. PICK v \in Visible(c, step[c]) : snap' = [snap EXCEPT ![c][step[c]] = v]
    BY DEF Load
  <1>2. /\ step[c] \in Loads /\ step'[c] = After[step[c]]
        /\ \A d \in Checkers \ {c} : step'[d] = step[d] /\ snap'[d] = snap[d]
    BY <1>0, <1>1 DEF Load
  <1>3. snap'[c][step[c]] = v /\ \A f \in Loads \ {step[c]} : snap'[c][f] = snap[c][f]
    BY <1>0, <1>1, <1>2 DEF Memories
  <1>4. \A f \in Loads : Past(c, f)' => Past(c, f) \/ f = step[c]
    BY <1>2, LoadsAre DEF Past, After
  <1> QED  BY <1>2, <1>3, <1>4

\* Every other step of a check leaves c with what it has loaded, or with nothing.
LEMMA OthersAddNothing ==
    ASSUME TypeOK, NEW c \in Checkers, NEW d \in Checkers, Check(d), ~(d = c /\ Load(c))
    PROVE  \/ \A f \in Loads : ~Past(c, f)'
           \/ step'[c] = step[c] /\ snap'[c] = snap[c]
  <1>0. /\ step \in [Checkers -> Loads \cup {"no", "swap", "now_ms", "reset", "exit"}]
        /\ snap \in [Checkers -> Memories]
    BY DEF TypeOK
  <1>1. CASE d = c
    <2>1. step'[c] \in {"no", "total_requests", "reset", "exit"} \/ (step'[c] = step[c] /\ snap'[c] = snap[c])
      BY <1>0, <1>1 DEF Check, Swap, Condemn, Acquit, Reset, Exit, CheckReturns, checkVars
    <2> QED  BY <2>1 DEF Past
  <1>2. CASE d # c
    BY <1>0, <1>2 DEF Check, Swap, Load, Condemn, Acquit, Reset, Exit, CheckReturns, checkVars
  <1> QED  BY <1>1, <1>2

LEMMA LoopViewKept ==
    ASSUME TypeOK, DelayInv, LoopViewInv, [Next]_vars
    PROVE  LoopViewInv'
  <1> USE DEF LoopViewInv
  <1>0. "loop" \in Checkers /\ "monitor" \in Checkers
    BY DEF Checkers
  <1>1. CASE Loop
    <2>1. \A f \in Loads : ~Past("loop", f)
      BY <1>1, LoopFrame DEF DelayInv, Past
    <2> QED  BY <1>0, <1>1, <2>1, LoopEnters
  <1>2. CASE Load("loop")
    <2>1. mem' = mem
      BY <1>2 DEF Load, sharedVars
    <2> QED  BY <1>0, <1>2, <2>1, LoadAdds DEF Visible
  <1>3. ASSUME NEW d \in Checkers, Check(d), ~Load("loop") PROVE LoopViewInv'
    <2>1. mem' = mem
      BY <1>3, CheckMoves
    <2> QED  BY <1>0, <1>3, <2>1, OthersAddNothing DEF Past
  <1>4. CASE MonitorTick
    <2>1. UNCHANGED <<mem, snap>> /\ step'["loop"] = step["loop"]
      BY <1>0, <1>4 DEF MonitorTick, TypeOK, sharedVars
    <2> QED  BY <2>1 DEF Past
  <1>5. CASE Tick \/ Over \/ UNCHANGED vars
    BY <1>5 DEF Tick, Over, vars, sharedVars, checkVars, Past
  <1> QED  BY <1>1, <1>2, <1>3, <1>4, <1>5 DEF Next

\* What the loop's steps may store, and in what order.
LEMMA LoopStores ==
    ASSUME TypeOK, MemInv, Loop
    PROVE  /\ \/ \A f \in Signs : mem'[f] = mem[f] \/ mem'[f] = 0
              \/ pc \in Storing /\ \A f \in Signs : mem'[f] \in {mem[f], stamp}
           /\ mem["last_success_ms"] <= mem'["last_success_ms"]
           /\ \A f \in Stamps : mem'[f] = mem[f] \/ mem'[f] = 0 \/ (pc \in Storing /\ mem'[f] = stamp)
           /\ pc' \in Storing => (pc \in Storing /\ stamp' = stamp) \/ stamp' = now + 1
  <1>0. Numbers
    BY NumbersAre
  <1>1. CASE RecvInference \/ RecvMgmt \/ MgmtDone \/ RecvGivesNothing \/ SendReply
             \/ CountSuccess \/ ReadStart \/ ReadSuccess \/ ReadFailure
    <2>1. mem' = mem
      BY <1>1 DEF RecvInference, RecvMgmt, MgmtDone, RecvGivesNothing, SendReply, Dispatch,
         ReadStart, ReadSuccess, ReadFailure, ReadClock, CountSuccess, sharedVars
    <2>2. pc' \in Storing => stamp' = now + 1
      BY <1>1 DEF RecvInference, RecvMgmt, MgmtDone, RecvGivesNothing, SendReply, Dispatch,
         ReadStart, ReadSuccess, ReadFailure, ReadClock, CountSuccess, Goto, Storing, Clock
    <2> QED  BY <1>0, <2>1, <2>2, LoadsAre DEF Numbers
  <1>2. CASE StampFirst \/ StampInFlight \/ StampSuccess \/ StampFailure
    <2>1. pc \in Storing /\ stamp' = stamp
      BY <1>2 DEF StampFirst, StampInFlight, StampSuccess, StampFailure, Store, LoopAt, Storing
    <2>2. \A f \in Stamps : mem'[f] \in {mem[f], stamp}
      BY <1>0, <1>2, StoreIs, LoadsAre
         DEF StampFirst, StampInFlight, StampSuccess, StampFailure, Store, Numbers, Stamps
    <2>3. mem["last_success_ms"] <= mem'["last_success_ms"]
      BY <1>0, <1>2, StoreIs, LoadsAre
         DEF StampFirst, StampInFlight, StampSuccess, StampFailure, Store, LoopAt, Numbers,
             MemInv, LoopInv
    <2> QED  BY <2>1, <2>2, <2>3 DEF Signs, Stamps
  <1>3. CASE CountRequest \/ ClearOnSuccess \/ ClearOnFailure
    <2>1. pc' \notin Storing
      BY <1>3 DEF CountRequest, ClearOnSuccess, ClearOnFailure, Store, Goto, Storing
    <2>2. /\ \A f \in Stamps : mem'[f] = mem[f] \/ mem'[f] = 0
          /\ mem'["last_success_ms"] = mem["last_success_ms"]
      BY <1>0, <1>3, StoreIs, LoadsAre
         DEF CountRequest, ClearOnSuccess, ClearOnFailure, Store, Numbers, Stamps
    <2> QED  BY <1>0, <2>1, <2>2, LoadsAre DEF Signs, Stamps, Numbers
  <1> QED  BY <1>1, <1>2, <1>3 DEF Loop, RequestStart, ResponseOk, ResponseErr

LEMMA MonitorViewKept ==
    ASSUME TypeOK, DelayInv, MemInv, FreshInv, MonitorViewInv, [Next]_vars
    PROVE  MonitorViewInv'
  <1>0. Numbers /\ Span \in Nat /\ "monitor" \in Checkers
    BY NumbersAre, ProgressWatchdogAssumption DEF ProgressWatchdogAssumption, Checkers
  <1>1. \A f \in Loads : Past("monitor", f) => due <= now
    BY DEF DelayInv, Past
  <1>2. CASE Loop
    <2>1. /\ due' = due /\ snap' = snap
          /\ \A f \in Loads : Past("monitor", f)' = Past("monitor", f)
      BY <1>0, <1>2, LoopFrame, LoopEnters
    <2>2. \A f \in Signs : Past("monitor", f)' /\ 0 < mem'[f] =>
             snap'["monitor"][f] = mem'[f] \/ due' + 1 <= mem'[f] + Span
      BY <1>0, <1>1, <1>2, <2>1, LoopStores, LoadsAre DEF MonitorViewInv, FreshInv, Numbers, Signs
    <2>3. Past("monitor", "last_success_ms")' =>
             snap'["monitor"]["last_success_ms"] <= mem'["last_success_ms"]
      <3>1. mem'["last_success_ms"] \in Nat
        BY <1>2, LoopTyped, LoadsAre DEF TypeOK, Memories
      <3> QED  BY <1>0, <1>2, <2>1, <3>1, LoopStores, LoadsAre DEF MonitorViewInv, Numbers
    <2>4. Past("monitor", "total_requests")' /\ snap'["monitor"]["total_requests"] = 0 =>
             /\ pc' \in Storing => due' + 1 <= stamp'
             /\ \A f \in Stamps : 0 < mem'[f] => due' + 1 <= mem'[f]
      BY <1>0, <1>1, <1>2, <2>1, LoopStores, LoadsAre DEF MonitorViewInv, Numbers, Stamps
    <2> QED  BY <2>2, <2>3, <2>4 DEF MonitorViewInv
  <1>3. CASE Load("monitor")
    <2>1. UNCHANGED <<mem, due, pc, stamp>> /\ due <= now
      BY <1>0, <1>3, LoadsAre DEF Load, DelayInv, sharedVars, loopVars
    <2>0. PICK g \in Loads : \E v \in Visible("monitor", g) :
              /\ \A f \in Loads : Past("monitor", f)' => Past("monitor", f) \/ f = g
              /\ snap'["monitor"][g] = v
              /\ \A f \in Loads \ {g} : snap'["monitor"][f] = snap["monitor"][f]
      BY <1>0, <1>3, LoadAdds
    <2>2. PICK v \in Visible("monitor", g) :
              /\ \A f \in Loads : Past("monitor", f)' => Past("monitor", f) \/ f = g
              /\ snap'["monitor"][g] = v
              /\ \A f \in Loads \ {g} : snap'["monitor"][f] = snap["monitor"][f]
      BY <2>0
    <2>3. v \in {mem[g], before[g]}
      BY DEF Visible
    <2>4. ASSUME NEW f \in Signs, Past("monitor", f)', 0 < mem[f]
          PROVE  snap'["monitor"][f] = mem[f] \/ due + 1 <= mem[f] + Span
      BY <1>0, <2>1, <2>2, <2>3, <2>4, LoadsAre DEF MonitorViewInv, FreshInv, Numbers, Signs
    <2>5. Past("monitor", "last_success_ms")' =>
             snap'["monitor"]["last_success_ms"] <= mem["last_success_ms"]
      BY <1>0, <2>2, <2>3, LoadsAre DEF MonitorViewInv, MemInv, ClockInv, Numbers
    <2>6. Past("monitor", "total_requests")' /\ snap'["monitor"]["total_requests"] = 0 =>
             /\ pc \in Storing => due + 1 <= stamp
             /\ \A f \in Stamps : 0 < mem[f] => due + 1 <= mem[f]
      <3>1. CASE g = "total_requests"
        BY <1>0, <2>1, <2>2, <2>3, <3>1, LoadsAre DEF FreshInv, Numbers, Stamps, Storing
      <3>2. CASE g # "total_requests"
        BY <2>2, <3>2, LoadsAre DEF MonitorViewInv
      <3> QED  BY <3>1, <3>2
    <2> QED  BY <2>1, <2>4, <2>5, <2>6 DEF MonitorViewInv
  <1>4. ASSUME NEW d \in Checkers, Check(d), ~Load("monitor") PROVE MonitorViewInv'
    <2>1. UNCHANGED <<mem, stamp>> /\ pc' \in {pc, "recv"}
      BY <1>4, CheckMoves
    <2>2. \/ \A f \in Loads : ~Past("monitor", f)'
          \/ step'["monitor"] = step["monitor"] /\ snap'["monitor"] = snap["monitor"]
      BY <1>0, <1>4, OthersAddNothing
    <2>3. (\E f \in Loads : Past("monitor", f)') => due' = due
      BY <1>4 DEF Check, Swap, Load, Condemn, Acquit, Reset, Exit, CheckReturns, checkVars, Past,
         Checkers, TypeOK
    <2> QED
      BY <2>1, <2>2, <2>3, LoadsAre DEF MonitorViewInv, Past, Storing, Signs
  <1>5. CASE MonitorTick
    <2>1. step'["monitor"] = "swap"
      BY <1>0, <1>5 DEF MonitorTick, TypeOK
    <2> QED  BY <2>1 DEF MonitorViewInv, Past
  <1>6. CASE Tick \/ Over \/ UNCHANGED vars
    BY <1>6 DEF Tick, Over, vars, sharedVars, checkVars, loopVars, Past, MonitorViewInv
  <1> QED  BY <1>2, <1>3, <1>4, <1>5, <1>6 DEF Next
-----------------------------------------------------------------------------
(***************************************************************************)
(* What is to be caught.                                                   *)
(***************************************************************************)

\* Only the end of a check can put off what it should have caught.
LEMMA TimelyStays ==
    ASSUME Known, DueInv, [Next]_vars, \A c \in Checkers : ~Reset(c),
           NEW x \in Nat, NEW limit \in Nat, Timely(x, limit)
    PROVE  Timely(x, limit)'
  <1> USE ProgressWatchdogAssumption DEF ProgressWatchdogAssumption
  <1>0. /\ step \in [Checkers -> Loads \cup {"no", "swap", "now_ms", "reset", "exit"}]
        /\ "loop" \in Checkers /\ "monitor" \in Checkers
        /\ TypeOK /\ DelayInv /\ ChecksAreExclusive
    BY DEF Known, TypeOK, StallInv, Checkers
  <1>1. CASE UNCHANGED due /\ (Inside("loop") => Inside("loop")')
    <2>1. Inside("loop") => Began("loop")' = Began("loop")
      BY <1>0, <1>1, InsideKeeps
    <2> QED  BY <1>1, <2>1 DEF Timely
  <1>2. CASE Loop
    BY <1>0, <1>1, <1>2, LoopFrame, LoopEnters
  <1>3. CASE MonitorTick \/ Tick \/ Over \/ UNCHANGED vars
    <2>1. UNCHANGED due /\ step'["loop"] = step["loop"]
      BY <1>0, <1>3 DEF MonitorTick, Tick, Over, vars, checkVars
    <2> QED  BY <1>1, <2>1 DEF Inside
  <1>4. ASSUME NEW c \in Checkers, Swap(c), ~fired PROVE Timely(x, limit)'
    <2>1. UNCHANGED due /\ (step'["loop"] = step["loop"] \/ step'["loop"] = "total_requests")
      BY <1>0, <1>4 DEF Swap
    <2> QED  BY <1>1, <2>1 DEF Inside
  <1>5. CASE Swap("loop") /\ fired
    <2>1. UNCHANGED due /\ ~Inside("loop")
      BY <1>5 DEF Swap, CheckAt, CheckReturns, Inside
    <2> QED  BY <1>1, <2>1
  <1>6. CASE Swap("monitor") /\ fired
    <2>1. Inside("loop")
      BY <1>6 DEF DueInv, Swap, CheckAt, Inside, Checkers
    <2>2. Inside("loop")' /\ UNCHANGED <<now, busy>>
      BY <1>0, <1>6, <2>1 DEF Swap, CheckReturns, Inside, tickVars
    <2>3. Began("loop")' = Began("loop")
      BY <2>2 DEF Began
    <2>4. Began("loop") \in Int /\ Began("loop") <= now /\ now <= due + Span
      <3>1. step["loop"] # "no" /\ step["monitor"] # "no"
        BY <1>6, <2>1 DEF Swap, CheckAt, Inside
      <3> QED  BY <1>0, <3>1, BeganLately DEF DelayInv
    <2>5. due \in Nat /\ now \in Nat
      BY <1>0 DEF TypeOK
    <2> QED  BY <2>1, <2>2, <2>3, <2>4, <2>5 DEF Timely
  <1>7. ASSUME NEW c \in Checkers, Load(c) \/ Condemn(c) \/ Acquit(c) \/ Exit(c)
        PROVE  Timely(x, limit)'
    <2>1. UNCHANGED due
      BY <1>7 DEF Load, Condemn, Acquit, Exit, checkVars
    <2>2. \/ step'["loop"] = step["loop"]
          \/ step'["loop"] \in Loads \cup {"now_ms", "reset", "exit"}
      BY <1>0, <1>7, AfterType DEF Load, Condemn, Acquit, Exit, checkVars
    <2> QED  BY <1>1, <2>1, <2>2, LoadsAre DEF Inside
  <1> QED
    BY <1>2, <1>3, <1>4, <1>5, <1>6, <1>7 DEF Next, Check, Checkers

\* An acquittal means that every test failed.
LEMMA NoneMeansNone ==
    ASSUME NEW c \in Checkers, Acquit(c)
    PROVE  /\ ~LifetimeOver /\ ~NoSuccess(snap[c]) /\ ~FailureTimeout(snap[c])
           /\ ~InFlightStuck(snap[c])
  <1>1. Verdict(snap[c]) = "none"
    BY DEF Acquit
  <1> QED  BY <1>1 DEF Verdict

\* A sign that the check has seen as it is was younger than the limit.
LEMMA SeenSignIsYoung ==
    ASSUME TypeOK, FreshInv, MemInv, NEW c \in Checkers, Acquit(c), NEW f \in Signs, Sign(f),
           snap[c][f] = mem[f], snap[c]["last_success_ms"] <= mem["last_success_ms"],
           snap[c]["total_requests"] > 0
    PROVE  now + 1 <= mem[f] + MaxNoProgress
  <1>0. Numbers /\ MaxNoProgress \in Nat
    BY NumbersAre, ProgressWatchdogAssumption DEF ProgressWatchdogAssumption
  <1>1. f \in {"last_failure_ms", "first_request_ms", "in_flight_start_ms"} /\ f \in Loads
    BY LoadsAre DEF Signs
  <1>2. ~(Since(mem[f]) >= MaxNoProgress)
    BY <1>0, <1>1, NoneMeansNone, LoadsAre
       DEF NoSuccess, FailureTimeout, InFlightStuck, Sign, Numbers
  <1> QED  BY <1>0, <1>1, <1>2 DEF Since, Numbers

LEMMA PatienceIs ==
    /\ Patience \in Nat /\ (Patience > 0 <=> MaxNoProgress > 0)
    /\ MaxNoProgress > 0 => MaxNoProgress <= Patience /\ Span <= Patience
  BY ProgressWatchdogAssumption DEF ProgressWatchdogAssumption, Patience

\* The check that finds nothing began soon enough for any stamp that is there.
LEMMA AcquitsTheYoung ==
    ASSUME Known, CatchInv, NEW c \in Checkers, Acquit(c)
    PROVE  /\ \A f \in Signs : Sign(f) => Young(c, mem[f], Patience)
           /\ MaxLifetime > 0 => Young(c, 0, MaxLifetime)
  <1>1. /\ step[c] = "now_ms" /\ TypeOK /\ FreshInv /\ MemInv /\ DelayInv /\ Numbers
        /\ MaxNoProgress \in Nat /\ MaxLifetime \in Nat /\ Span \in Nat
    BY NumbersAre, ProgressWatchdogAssumption
       DEF ProgressWatchdogAssumption, Acquit, CheckAt, Known, StallInv, CatchInv
  <1>2. Began(c) \in Int /\ Began(c) <= now
    BY <1>1, BeganLately
  <1>3. ASSUME NEW f \in Signs, Sign(f) PROVE Young(c, mem[f], Patience)
    <2>0. /\ f \in Loads /\ f \in Stamps /\ mem[f] \in Nat /\ 0 < mem[f]
          /\ Patience \in Nat /\ MaxNoProgress <= Patience /\ Span <= Patience
      BY <1>1, <1>3, LoadsAre, PatienceIs DEF Signs, Stamps, Sign, Numbers
    <2>1. CASE c = "loop"
      <3>1. \A g \in Loads : snap[c][g] = mem[g]
        BY <1>1, <2>1 DEF CatchInv, LoopViewInv, Past
      <3>2. mem["total_requests"] > 0
        BY <1>1, <2>0, LoadsAre DEF FreshInv, Numbers
      <3>3. now + 1 <= mem[f] + MaxNoProgress
        BY <1>1, <1>3, <2>0, <3>1, <3>2, LoadsAre, SeenSignIsYoung DEF Numbers
      <3> QED  BY <1>1, <1>2, <2>0, <3>3 DEF Young, Numbers
    <2>2. CASE c = "monitor"
      <3>1. MonitorViewInv /\ (\A g \in Loads : Past("monitor", g)) /\ Began(c) = due
        BY <1>1, <2>2 DEF CatchInv, Past, Began
      <3>2. CASE snap[c]["total_requests"] = 0
        BY <1>1, <2>0, <2>2, <3>1, <3>2, LoadsAre DEF MonitorViewInv, Young, Numbers
      <3>3. CASE due + 1 <= mem[f] + Span
        BY <1>1, <2>0, <3>1, <3>3 DEF Young, Numbers
      <3>4. CASE snap[c][f] = mem[f] /\ snap[c]["total_requests"] # 0
        <4>1. /\ snap[c]["total_requests"] > 0
              /\ snap[c]["last_success_ms"] <= mem["last_success_ms"]
          BY <1>1, <2>2, <3>1, <3>4, LoadsAre DEF MonitorViewInv, Numbers
        <4>2. now + 1 <= mem[f] + MaxNoProgress
          BY <1>1, <1>3, <3>4, <4>1, SeenSignIsYoung
        <4> QED  BY <1>1, <1>2, <2>0, <4>2 DEF Young, Numbers
      <3> QED  BY <2>0, <2>2, <3>1, <3>2, <3>3, <3>4, <1>3, LoadsAre DEF MonitorViewInv
    <2> QED  BY <2>1, <2>2 DEF Checkers
  <1>4. ASSUME MaxLifetime > 0 PROVE Young(c, 0, MaxLifetime)
    BY <1>1, <1>2, <1>4, NoneMeansNone DEF LifetimeOver, Young, Numbers
  <1> QED  BY <1>3, <1>4

\* When it gives `fired` back, the monitor's next tick is not late for what was young.
LEMMA ResetsInTime ==
    ASSUME Known, DueInv, NEW c \in Checkers, Reset(c),
           NEW x \in Nat, NEW limit \in Nat, Young(c, x, limit)
    PROVE  due' <= x + limit + CheckInterval + Span - 1
  <1>0. /\ Numbers /\ Span \in Nat /\ CheckInterval \in Nat /\ TypeOK /\ DelayInv
        /\ step[c] = "reset"
    BY NumbersAre, ProgressWatchdogAssumption
       DEF ProgressWatchdogAssumption, Known, StallInv, Reset, CheckAt
  <1>1. Began(c) \in Int /\ now <= Began(c) + Span
    BY <1>0, BeganLately
  <1>2. CASE c = "loop"
    <2>1. due' = due
      BY <1>2 DEF Reset, CheckReturns
    <2> QED  BY <1>0, <1>1, <2>1 DEF DueInv, Young, Numbers
  <1>3. CASE c = "monitor"
    <2>1. due' = due + CheckInterval /\ Began(c) = due
      BY <1>3 DEF Reset, CheckReturns, Began
    <2> QED  BY <1>0, <2>1 DEF Young, Numbers
  <1> QED  BY <1>2, <1>3 DEF Checkers

\* A sign of a stall is an old one, or its stamp has just been stored.
LEMMA SignsArise ==
    ASSUME TypeOK, MemInv, Loop, NEW f \in Signs, Sign(f)'
    PROVE  \/ Sign(f) /\ mem'[f] = mem[f]
           \/ pc \in Storing /\ mem'[f] = stamp
  <1>0. Numbers /\ mem'["last_success_ms"] \in Nat /\ f \in Stamps
    BY NumbersAre, LoopTyped, LoadsAre DEF TypeOK, Memories, Signs, Stamps
  <1>1. mem'[f] = mem[f] \/ mem'[f] = 0 \/ (pc \in Storing /\ mem'[f] = stamp)
    BY <1>0, LoopStores
  <1>2. CASE mem'[f] = mem[f]
    BY <1>0, <1>2, LoopStores, LoadsAre DEF Sign, Signs, Numbers
  <1> QED  BY <1>1, <1>2 DEF Sign

\* Outside the loop nothing is stored; in it, a new sign carries a new stamp.
LEMMA SignsMove ==
    ASSUME Known, CatchInv, [Next]_vars, NEW f \in Signs, Sign(f)'
    PROVE  \/ Sign(f) /\ mem'[f] = mem[f]
           \/ Loop /\ mem'[f] = stamp /\ now + 1 <= stamp + Patience
  <1>0. /\ Numbers /\ Span \in Nat /\ TypeOK /\ MemInv /\ FreshInv
    BY NumbersAre, ProgressWatchdogAssumption
       DEF ProgressWatchdogAssumption, Known, StallInv, CatchInv
  <1>1. CASE Loop
    <2>1. CASE pc \in Storing /\ mem'[f] = stamp
      BY <1>0, <1>1, <2>1, PatienceIs DEF FreshInv, Numbers, Sign
    <2> QED  BY <1>0, <1>1, <2>1, SignsArise
  <1>2. CASE ~Loop
    <2>1. mem' = mem
      BY <1>2, CheckMoves DEF Next, MonitorTick, Tick, Over, vars, sharedVars
    <2> QED  BY <2>1 DEF Sign
  <1> QED  BY <1>1, <1>2

LEMMA AcquittedKept ==
    ASSUME Known, CatchInv, [Next]_vars
    PROVE  AcquittedInv'
  <1> SUFFICES ASSUME NEW c \in Checkers, step'[c] = "reset"
               PROVE  /\ \A f \in Signs : Sign(f)' => Young(c, mem[f], Patience)'
                      /\ MaxLifetime > 0 => Young(c, 0, MaxLifetime)'
    BY DEF AcquittedInv
  <1>0. /\ Numbers /\ TypeOK /\ DelayInv /\ ChecksAreExclusive /\ AcquittedInv
        /\ Patience \in Nat
    BY NumbersAre, PatienceIs DEF Known, StallInv, CatchInv
  <1>1. Inside(c) /\ Inside(c)'
    BY <1>0, EnteredBySwap DEF Inside
  <1>2. Began(c)' = Began(c) /\ Began(c) \in Int /\ Began(c) <= now
    BY <1>0, <1>1, InsideKeeps, BeganLately DEF Inside
  <1>3. /\ \A f \in Signs : Sign(f) => Young(c, mem[f], Patience)
        /\ MaxLifetime > 0 => Young(c, 0, MaxLifetime)
    <2>1. CASE Acquit(c)
      BY <2>1, AcquitsTheYoung
    <2>2. CASE step[c] = "reset"
      BY <1>0, <2>2 DEF AcquittedInv
    <2>3. ~Load(c) /\ ~Condemn(c)
      BY <1>0, AfterType, LoadsAre DEF Load, Condemn, TypeOK
    <2> QED  BY <1>0, <1>1, <2>1, <2>2, <2>3, InsideKeeps
  <1>4. ASSUME NEW f \in Signs, Sign(f)' PROVE Young(c, mem[f], Patience)'
    BY <1>0, <1>2, <1>3, <1>4, SignsMove DEF Young, Numbers
  <1> QED  BY <1>2, <1>3, <1>4 DEF Young

LEMMA SignKept ==
    ASSUME Known, CatchInv, [Next]_vars
    PROVE  SignInv'
  <1>0. /\ Numbers /\ MaxNoProgress \in Nat /\ MaxLifetime \in Nat
        /\ Span \in Nat /\ CheckInterval \in Nat
        /\ TypeOK /\ MemInv /\ DelayInv /\ DueInv /\ FreshInv /\ SignInv
        /\ \A f \in Signs : mem[f] \in Nat
    BY NumbersAre, ProgressWatchdogAssumption, LoadsAre
       DEF ProgressWatchdogAssumption, Known, StallInv, CatchInv, Signs, Numbers
  <1>1. ASSUME NEW c \in Checkers, Reset(c) PROVE SignInv'
    <2>1. mem' = mem
      BY <1>1 DEF Reset
    <2>2. ASSUME NEW f \in Signs, Sign(f)' PROVE Timely(mem[f], Patience)'
      <3>1. Sign(f) /\ Young(c, mem[f], Patience) /\ mem'[f] = mem[f]
        BY <1>0, <1>1, <2>1, <2>2 DEF Sign, CatchInv, AcquittedInv, Reset, CheckAt
      <3>2. due' <= mem[f] + Patience + CheckInterval + Span - 1
        BY <1>0, <1>1, <3>1, ResetsInTime, PatienceIs
      <3> QED  BY <3>1, <3>2 DEF Timely
    <2>3. ASSUME MaxLifetime > 0 PROVE Timely(1, MaxLifetime)'
      <3>1. Young(c, 0, MaxLifetime)
        BY <1>1, <2>3 DEF CatchInv, AcquittedInv, Reset, CheckAt
      <3>2. due' <= 0 + MaxLifetime + CheckInterval + Span - 1
        BY <1>0, <1>1, <3>1, ResetsInTime
      <3>3. due' \in Nat
        BY <1>0, <1>1, CheckTyped DEF Check, TypeOK
      <3> QED  BY <1>0, <3>2, <3>3 DEF Timely
    <2> QED  BY <2>2, <2>3 DEF SignInv
  <1>2. CASE \A c \in Checkers : ~Reset(c)
    <2>1. \A x, limit \in Nat : Timely(x, limit) => Timely(x, limit)'
      BY <1>0, <1>2, TimelyStays
    <2>2. ASSUME NEW f \in Signs, Sign(f)' PROVE Timely(mem[f], Patience)'
      <3>1. CASE Sign(f) /\ mem'[f] = mem[f]
        BY <1>0, <2>1, <3>1, PatienceIs DEF SignInv, Timely
      <3>2. CASE Loop /\ mem'[f] = stamp /\ now + 1 <= stamp + Patience
        <4>1. due' = due /\ Patience \in Nat
          BY <3>2, LoopFrame, PatienceIs
        <4> QED  BY <1>0, <3>2, <4>1 DEF DueInv, Timely, Numbers
      <3> QED  BY <2>2, <3>1, <3>2, SignsMove
    <2>3. MaxLifetime > 0 => Timely(1, MaxLifetime)'
      BY <1>0, <2>1 DEF SignInv
    <2> QED  BY <2>2, <2>3 DEF SignInv
  <1> QED  BY <1>1, <1>2

\* The monitor's ticks come in time for every stamp and for the lifetime, in every
\* reachable state.
THEOREM CatchInvHolds == Spec => []CatchInv
  <1>1. Known /\ CatchInv /\ [Next]_vars => CatchInv'
    <2> SUFFICES ASSUME Known, CatchInv, [Next]_vars PROVE CatchInv'
      OBVIOUS
    <2>1. TypeOK /\ ChecksAreExclusive /\ DelayInv /\ MemInv
      BY DEF Known, StallInv
    <2>2. DueInv' /\ FreshInv' /\ LoopViewInv' /\ MonitorViewInv' /\ AcquittedInv'
      BY <2>1, DueKept, FreshKept, LoopViewKept, MonitorViewKept, AcquittedKept DEF CatchInv
    <2> QED  BY <2>2, SignKept DEF CatchInv
  <1>2. Spec => []Known
    BY ProgressTypeCorrect, ChecksNeverOverlap, StallInvHolds, PTL DEF Known
  <1> QED  BY <1>1, <1>2, InitCatch, PTL DEF Spec

\* A first request without a success, a failure with no success after it, a request in
\* flight, and the process itself, outlive their limit by no more than Grace, or the delay
\* of a stamp's store if that is longer than the limit (watchdog.rs:279-357).
THEOREM StallsAreCaught == Spec => []StallIsCaught
  <1>1. ASSUME Known, CatchInv PROVE StallIsCaught
    <2>0. /\ Numbers /\ MaxNoProgress \in Nat /\ MaxLifetime \in Nat
          /\ Span \in Nat /\ CheckInterval \in Nat \ {0}
          /\ \A f \in Signs : mem[f] \in Nat
      BY <1>1, NumbersAre, ProgressWatchdogAssumption, LoadsAre
         DEF ProgressWatchdogAssumption, Known, Signs, Numbers
    <2>1. ASSUME NEW x \in Nat, NEW limit \in Nat, limit > 0 => IsEnabled /\ Timely(x, limit)
          PROVE  ~Overstays(x, limit)
      <3> SUFFICES ASSUME limit > 0 PROVE now <= x + limit + Grace
        BY <2>0 DEF Overstays, Grace, Numbers
      <3>1. now <= due + Span
        BY <1>1, <2>1 DEF Known, StallInv, DelayInv
      <3>2. CASE due <= x + limit + CheckInterval + Span - 1
        BY <2>0, <3>1, <3>2 DEF Grace, Numbers
      <3>3. CASE Inside("loop") /\ Began("loop") <= x + limit + CheckInterval + 2 * Span - 1
        <4>1. Began("loop") \in Int /\ now <= Began("loop") + Span
          BY <1>1, <3>3, BeganLately DEF Known, StallInv, Inside, Checkers
        <4> QED  BY <2>0, <3>3, <4>1 DEF Grace, Numbers
      <3> QED  BY <2>1, <3>2, <3>3 DEF Timely
    <2>2. \A f \in Signs : Sign(f) => ~Overstays(mem[f], Patience)
      <3> SUFFICES ASSUME NEW f \in Signs, Sign(f) PROVE ~Overstays(mem[f], Patience)
        OBVIOUS
      <3>1. Timely(mem[f], Patience) /\ IsEnabled
        BY <1>1 DEF CatchInv, SignInv, Sign, IsEnabled
      <3> QED  BY <2>0, <2>1, <3>1, PatienceIs
    <2>3. ~Overstays(1, MaxLifetime)
      BY <1>1, <2>0, <2>1 DEF CatchInv, SignInv, IsEnabled
    <2>4. \A f \in Signs : mem[f] = 0 \/ MaxNoProgress = 0 => ~Overstays(mem[f], Patience)
      BY <2>0, PatienceIs DEF Overstays
    <2>5. /\ "first_request_ms" \in Signs /\ "last_failure_ms" \in Signs
          /\ "in_flight_start_ms" \in Signs
      BY DEF Signs
    <2>6. /\ mem["last_success_ms"] = 0 => ~Overstays(mem["first_request_ms"], Patience)
          /\ mem["last_failure_ms"] > mem["last_success_ms"] =>
                ~Overstays(mem["last_failure_ms"], Patience)
          /\ ~Overstays(mem["in_flight_start_ms"], Patience)
      BY <2>0, <2>2, <2>4, <2>5, LoadsAre DEF Sign, Numbers
    <2> QED  BY <2>3, <2>6 DEF StallIsCaught
  <1>2. Spec => []Known
    BY ProgressTypeCorrect, ChecksNeverOverlap, StallInvHolds, PTL DEF Known
  <1> QED  BY <1>1, <1>2, CatchInvHolds, PTL

\* Between the updates of the record, what check() exits for is a stall on record, and there
\* is none that it would not exit for in the end (watchdog.rs:299-353): Worker's Stalled is
\* what the atomics and the tests on them come to.
THEOREM ChecksSeeStalls == Spec => []CheckSeesStalls
  <1>1. ASSUME TypeOK, FreshInv PROVE CheckSeesStalls
    <2>0. Numbers
      BY <1>1, NumbersAre
    <2>1. SUFFICES ASSUME MaxNoProgress > 0, ~LifetimeOver,
                          pc \notin Starting \cup {"ok_clear", "err_clear"}
                   PROVE  /\ Verdict(mem) # "none" => RR!Stalled(record)
                          /\ RR!Stalled(record) /\ Aged => Verdict(mem) # "none"
      BY DEF CheckSeesStalls
    <2>2. RR!Stalled(record) <=> \/ mem["in_flight_start_ms"] > 0
                                 \/ mem["last_failure_ms"] > mem["last_success_ms"]
                                 \/ mem["total_requests"] > 0 /\ mem["last_success_ms"] = 0
      <3>1. RR!Stalled(record) <=> Flying \/ Failure \/ (Requested /\ ~Success)
        BY OnRecord, Zenon DEF RR!Stalled
      <3> QED
        BY <2>0, <2>1, <3>1, LoadsAre DEF Flying, Failure, Requested, Success, Numbers
    <2>3. Verdict(mem) # "none" <=> NoSuccess(mem) \/ FailureTimeout(mem) \/ InFlightStuck(mem)
      BY <2>1 DEF Verdict
    <2>4. mem["last_failure_ms"] > mem["last_success_ms"] => mem["total_requests"] > 0
      BY <1>1, <2>0, LoadsAre DEF FreshInv, Stamps, Numbers
    <2>5. Verdict(mem) # "none" => RR!Stalled(record)
      BY <2>2, <2>3 DEF NoSuccess, FailureTimeout, InFlightStuck
    <2>6. ASSUME RR!Stalled(record), Aged PROVE Verdict(mem) # "none"
      BY <2>1, <2>2, <2>3, <2>4, <2>6 DEF Aged, NoSuccess, FailureTimeout, InFlightStuck
    <2> QED  BY <2>5, <2>6
  <1> QED  BY <1>1, ProgressTypeCorrect, CatchInvHolds, PTL DEF CatchInv
=============================================================================
