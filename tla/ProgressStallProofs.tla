------------------------- MODULE ProgressStallProofs -------------------------
(***************************************************************************)
(* Proof that the progress watchdog raises no false alarm, for all limits, *)
(* check intervals and thread delays up to the no-progress limit.          *)
(*                                                                         *)
(* The argument: a stamp that can be seen as a sign of a stall was taken   *)
(* when a request was owed, and no earlier than that request came, by the  *)
(* clock unit that is current or by the one that a late load still shows   *)
(* (OwedInv, MixedInv). A check that starts learns what is owed (DebtInv); *)
(* every stamp from before its start that it has loaded, or still may      *)
(* load, is covered by that (SnapInv), and a verdict cannot come from a    *)
(* younger one, as no check takes longer than the limit.                   *)
(***************************************************************************)
EXTENDS ProgressWatchdogProofs

\* A request that came at o is left without a success, and x is a stamp taken since.
Owes(o, x) == 0 < o /\ o <= x

\* No later than when checker c had something to do.
Began(c) == IF c = "monitor" THEN due ELSE now - busy

DelayInv ==
    /\ step["loop"] # "no" <=> pc = "check"
    /\ IsEnabled => now <= due + Span
    /\ step["monitor"] # "no" => IsEnabled /\ due <= now

\* No stamp lies further than the next unit, and none that is seen late lies that far.
ClockInv ==
    /\ stamp <= now + 1 /\ owed <= now + 1 /\ owedBefore <= now
    /\ \A f \in Stamps : mem[f] <= now + 1
    /\ before["last_success_ms"] <= mem["last_success_ms"]
    /\ 0 < owed /\ owed <= now => owedBefore = owed

Serving == LoopPC \ {"recv", "mgmt", "check", "ok_count"}

\* The loop has a request in hand, and the stamp it is about to store is of its time.
LoopInv ==
    /\ pc \in Serving => 0 < owed
    /\ pc \in {"rs_first", "rs_inflight", "ok_store", "err_store"} => owed <= stamp
    /\ pc = "ok_store" => /\ mem["last_failure_ms"] <= stamp
                          /\ mem["last_success_ms"] <= stamp
    /\ pc = "ok_clear" => /\ 0 < mem["last_success_ms"]
                          /\ mem["last_failure_ms"] <= mem["last_success_ms"]

\* The three signs of a stall in the atomics m, with o owed.
OwedInv(m, o) ==
    /\ 0 < m["in_flight_start_ms"] => Owes(o, m["in_flight_start_ms"])
    /\ m["last_success_ms"] < m["last_failure_ms"] => Owes(o, m["last_failure_ms"])
    /\ m["last_success_ms"] = 0 /\ 0 < m["first_request_ms"] => Owes(o, m["first_request_ms"])

\* The same of a success seen late and a newer failure, or first request.
MixedInv ==
    /\ before["last_success_ms"] < mem["last_failure_ms"] /\ mem["last_failure_ms"] <= now
        => Owes(owedBefore, mem["last_failure_ms"])
    /\ before["last_success_ms"] = 0 /\ 0 < mem["first_request_ms"] /\ mem["first_request_ms"] <= now
        => Owes(owedBefore, mem["first_request_ms"])

MemInv == ClockInv /\ LoopInv /\ OwedInv(mem, owed) /\ OwedInv(before, owedBefore) /\ MixedInv

\* What checker c has been told of what is owed.
DebtInv(c) ==
    Inside(c) => /\ 0 < owed /\ owed <= Began(c) => debt = owed
                 /\ 0 < owedBefore /\ owedBefore <= Began(c) => debt = owedBefore

Covered(c, x) == 0 < x /\ x <= Began(c) => Owes(debt, x)

\* The failures and the first requests that a load may still return.
Failures == {mem["last_failure_ms"], before["last_failure_ms"]}
            \cup (IF pc = "err_store" THEN {stamp} ELSE {})
Firsts == {mem["first_request_ms"], before["first_request_ms"]}
          \cup (IF pc = "rs_first" THEN {stamp} ELSE {})

SnapInv(c) ==
    /\ step[c] = "last_failure_ms" =>
        \A x \in Failures : snap[c]["last_success_ms"] < x => Covered(c, x)
    /\ /\ step[c] \in {"first_request_ms", "in_flight_start_ms", "now_ms"}
       /\ snap[c]["last_success_ms"] < snap[c]["last_failure_ms"]
       => Covered(c, snap[c]["last_failure_ms"])
    /\ step[c] \in {"last_failure_ms", "first_request_ms"} /\ snap[c]["last_success_ms"] = 0 =>
        \A x \in Firsts : Covered(c, x)
    /\ step[c] \in {"in_flight_start_ms", "now_ms"} /\ snap[c]["last_success_ms"] = 0 =>
        Covered(c, snap[c]["first_request_ms"])
    /\ step[c] = "now_ms" => Covered(c, snap[c]["in_flight_start_ms"])

StallInv == DelayInv /\ MemInv /\ \A c \in Checkers : DebtInv(c) /\ SnapInv(c)
-----------------------------------------------------------------------------
\* The types that the arithmetic below rests on.
Numbers ==
    /\ now \in Nat /\ busy \in Nat /\ busy <= Span /\ due \in Nat /\ stamp \in Nat \ {0}
    /\ owed \in Nat /\ owedBefore \in Nat /\ debt \in Nat
    /\ mem \in Memories /\ before \in Memories
    /\ \A f \in Loads : mem[f] \in Nat /\ before[f] \in Nat
    /\ \A c \in Checkers, f \in Loads : snap[c][f] \in Nat

LEMMA NumbersAre == TypeOK => Numbers
  BY ProgressWatchdogAssumption DEF TypeOK, Numbers, Memories

LEMMA InitStall == Init => StallInv
  <1> SUFFICES ASSUME Init PROVE StallInv
    OBVIOUS
  <1> USE ProgressWatchdogAssumption
  <1>1. DelayInv
    BY DEF Init, DelayInv, Checkers
  <1>2. mem = before /\ \A f \in Loads : mem[f] = 0
    BY DEF Init, Zero
  <1>3. MemInv
    BY <1>2, LoadsAre
       DEF Init, MemInv, ClockInv, LoopInv, OwedInv, MixedInv, Serving, Stamps
  <1>4. \A c \in Checkers : DebtInv(c) /\ SnapInv(c)
    BY DEF Init, DebtInv, SnapInv, Inside
  <1> QED  BY <1>1, <1>3, <1>4 DEF StallInv
-----------------------------------------------------------------------------
(***************************************************************************)
(* The atomics.                                                            *)
(***************************************************************************)

\* The check's steps touch nothing of it but the loop's place.
LEMMA MemKeptByCheck ==
    ASSUME MemInv, pc' \in {pc, "recv"},
           UNCHANGED <<mem, before, owed, owedBefore, now, stamp>>
    PROVE  MemInv'
  BY DEF MemInv, ClockInv, LoopInv, OwedInv, MixedInv, Serving, LoopPC

\* The steps of the loop that store nothing.
LEMMA MemKeptByMoves ==
    ASSUME TypeOK, MemInv,
           \/ RecvInference \/ RecvMgmt \/ MgmtDone \/ RecvGivesNothing \/ SendReply
           \/ ReadStart \/ ReadSuccess \/ ReadFailure \/ CountSuccess
    PROVE  MemInv'
  <1>0. Numbers
    BY NumbersAre
  <1>1. UNCHANGED <<mem, before, owedBefore, now>>
    BY DEF RecvInference, RecvMgmt, MgmtDone, RecvGivesNothing, SendReply, Dispatch,
           ReadStart, ReadSuccess, ReadFailure, ReadClock, CountSuccess, sharedVars, tickVars
  <1> USE DEF MemInv
  <1>2. CASE RecvInference
    BY <1>0, <1>1, <1>2, LoadsAre DEF RecvInference, LoopAt, Goto, ClockInv, LoopInv, OwedInv,
       MixedInv, Serving, LoopPC, Owes, Numbers
  <1>3. CASE RecvMgmt \/ MgmtDone \/ RecvGivesNothing \/ SendReply \/ CountSuccess
    BY <1>0, <1>1, <1>3 DEF RecvMgmt, MgmtDone, RecvGivesNothing, SendReply, Dispatch,
       CountSuccess, LoopAt, Goto, ClockInv, LoopInv, OwedInv, MixedInv, Serving, LoopPC
  <1>4. CASE ReadStart \/ ReadSuccess \/ ReadFailure
    <2>1. stamp' = now + 1 /\ UNCHANGED owed
      BY <1>4 DEF ReadStart, ReadSuccess, ReadFailure, ReadClock, Clock
    <2>2. /\ pc \in {"rs_clock", "ok_clock", "err_clock"}
          /\ pc' \in {"rs_first", "ok_store", "err_store"}
      BY <1>4 DEF ReadStart, ReadSuccess, ReadFailure, ReadClock, LoopAt, Goto
    <2>3. ClockInv' /\ OwedInv(mem, owed)' /\ OwedInv(before, owedBefore)' /\ MixedInv'
      BY <1>0, <1>1, <2>1 DEF ClockInv, OwedInv, MixedInv, Numbers
    <2>4. LoopInv'
      BY <1>0, <1>1, <2>1, <2>2 DEF LoopInv, ClockInv, Stamps, Serving, LoopPC, Numbers
    <2> QED  BY <2>3, <2>4
  <1> QED  BY <1>2, <1>3, <1>4

\* The stores of request_start, response_ok and response_err.
LEMMA MemKeptByStores ==
    ASSUME TypeOK, MemInv,
           \/ CountRequest \/ StampFirst \/ StampInFlight
           \/ StampSuccess \/ ClearOnSuccess \/ StampFailure \/ ClearOnFailure
    PROVE  MemInv'
  <1>0. Numbers
    BY NumbersAre
  <1>1. UNCHANGED <<before, owedBefore, now, stamp>>
    BY DEF CountRequest, StampFirst, StampInFlight, StampSuccess, ClearOnSuccess,
           StampFailure, ClearOnFailure, Store, tickVars
  <1> USE DEF MemInv, ClockInv, LoopInv, OwedInv, MixedInv, Serving, LoopPC, Owes, Numbers,
              Stamps
  <1>2. CASE CountRequest
    BY <1>0, <1>1, <1>2, LoadsAre, StoreIs DEF CountRequest, Store, LoopAt, Goto
  <1>3. CASE StampFirst
    BY <1>0, <1>1, <1>3, LoadsAre, StoreIs DEF StampFirst, Store, LoopAt, Goto
  <1>4. CASE StampInFlight
    BY <1>0, <1>1, <1>4, LoadsAre, StoreIs DEF StampInFlight, Store, LoopAt, Goto
  <1>5. CASE StampSuccess
    <2>1. /\ pc = "ok_store" /\ pc' = "ok_clear" /\ owed' = owed
          /\ mem'["last_success_ms"] = stamp
          /\ \A g \in Loads \ {"last_success_ms"} : mem'[g] = mem[g]
      BY <1>0, <1>5, LoadsAre, StoreIs DEF StampSuccess, Store, LoopAt, Goto
    <2>2. ClockInv'
      BY <1>0, <1>1, <2>1, LoadsAre
    <2>3. LoopInv'
      BY <1>0, <1>1, <2>1, LoadsAre
    <2>4. OwedInv(mem, owed)' /\ OwedInv(before, owedBefore)' /\ MixedInv'
      BY <1>0, <1>1, <2>1, LoadsAre
    <2> QED  BY <2>2, <2>3, <2>4
  <1>6. CASE ClearOnSuccess
    <2>1. /\ pc = "ok_clear" /\ pc' = "ok_count" /\ owed' = 0
          /\ mem'["in_flight_start_ms"] = 0
          /\ \A g \in Loads \ {"in_flight_start_ms"} : mem'[g] = mem[g]
      BY <1>0, <1>6, LoadsAre, StoreIs DEF ClearOnSuccess, Store, LoopAt, Goto
    <2>2. ClockInv'
      BY <1>0, <1>1, <2>1, LoadsAre
    <2>3. LoopInv'
      BY <1>0, <1>1, <2>1, LoadsAre
    <2>4. OwedInv(mem, owed)' /\ OwedInv(before, owedBefore)' /\ MixedInv'
      BY <1>0, <1>1, <2>1, LoadsAre
    <2> QED  BY <2>2, <2>3, <2>4
  <1>7. CASE StampFailure
    BY <1>0, <1>1, <1>7, LoadsAre, StoreIs DEF StampFailure, Store, LoopAt, Goto
  <1>8. CASE ClearOnFailure
    BY <1>0, <1>1, <1>8, LoadsAre, StoreIs DEF ClearOnFailure, Store, LoopAt, Goto
  <1> QED  BY <1>2, <1>3, <1>4, <1>5, <1>6, <1>7, <1>8

LEMMA MemKeptByTick == TypeOK /\ MemInv /\ Tick => MemInv'
  <1> SUFFICES ASSUME TypeOK, MemInv, Tick PROVE MemInv'
    OBVIOUS
  <1>0. Numbers
    BY NumbersAre
  <1>1. /\ before' = mem /\ owedBefore' = owed /\ now' = now + 1
        /\ UNCHANGED <<mem, pc, stamp, owed>>
    BY DEF Tick, sharedVars
  <1> QED
    BY <1>0, <1>1, LoadsAre DEF MemInv, ClockInv, LoopInv, OwedInv, MixedInv, Owes, Numbers, Stamps

\* Of the loop and the clock, a step of check() moves the loop's place at most.
LEMMA CheckMoves ==
    ASSUME NEW c \in Checkers, Check(c)
    PROVE  /\ pc' \in {pc, "recv"}
           /\ UNCHANGED <<mem, before, owed, owedBefore, now, stamp>>
  BY DEF Check, Swap, Load, Condemn, Acquit, Reset, Exit, CheckReturns, Goto,
         sharedVars, checkVars, loopVars, tickVars

LEMMA MemKept == TypeOK /\ MemInv /\ [Next]_vars => MemInv'
  <1> SUFFICES ASSUME TypeOK, MemInv, [Next]_vars PROVE MemInv'
    OBVIOUS
  <1>1. CASE Loop
    BY <1>1, MemKeptByMoves, MemKeptByStores DEF Loop, RequestStart, ResponseOk, ResponseErr
  <1>2. ASSUME NEW c \in Checkers, Check(c) PROVE MemInv'
    BY <1>2, CheckMoves, MemKeptByCheck
  <1>3. CASE MonitorTick \/ Over \/ UNCHANGED vars
    <2>1. UNCHANGED <<mem, before, owed, owedBefore, now, stamp, pc>>
      BY <1>3 DEF MonitorTick, Over, vars, sharedVars, loopVars, tickVars
    <2> QED  BY <2>1, MemKeptByCheck
  <1> QED  BY <1>1, <1>2, <1>3, MemKeptByTick DEF Next
-----------------------------------------------------------------------------
(***************************************************************************)
(* The checkers.                                                           *)
(***************************************************************************)

\* Whether the loop is in check(), and that the monitor is not late.
LEMMA DelayKept == TypeOK /\ DelayInv /\ [Next]_vars => DelayInv'
  <1> SUFFICES ASSUME TypeOK, DelayInv, [Next]_vars PROVE DelayInv'
    OBVIOUS
  <1> USE ProgressWatchdogAssumption DEF DelayInv, Checkers, IsEnabled
  <1>0. /\ step \in [Checkers -> Loads \cup {"no", "swap", "now_ms", "reset", "exit"}]
        /\ now \in Nat /\ due \in Nat
    BY DEF TypeOK
  <1>1. CASE RecvGivesNothing
    BY <1>0, <1>1 DEF RecvGivesNothing, LoopAt, Goto, tickVars
  <1>2. CASE Loop /\ ~RecvGivesNothing
    <2>1. UNCHANGED <<step, due, now>> /\ pc # "check" /\ pc' # "check"
      BY <1>2
         DEF Loop, RecvInference, RecvMgmt, MgmtDone, SendReply, Dispatch, RequestStart,
             ResponseOk, ResponseErr, CountRequest, ReadStart, StampFirst, StampInFlight,
             ReadSuccess, StampSuccess, ClearOnSuccess, CountSuccess, ReadFailure,
             StampFailure, ClearOnFailure, Store, ReadClock, LoopAt, Goto,
             checkVars, tickVars
    <2> QED  BY <1>0, <2>1
  <1>3. CASE MonitorTick
    BY <1>0, <1>3 DEF MonitorTick, CheckAt, loopVars, tickVars
  <1>4. CASE Tick
    BY <1>0, <1>4 DEF Tick, checkVars
  <1>5. ASSUME NEW c \in Checkers, Check(c) PROVE DelayInv'
    <2>1. UNCHANGED now
      BY <1>5, CheckMoves
    <2>2. CASE CheckReturns(c) /\ step[c] # "no"
      BY <1>0, <2>1, <2>2 DEF CheckReturns, Goto
    <2>3. CASE /\ UNCHANGED <<pc, due>>
               /\ \/ UNCHANGED step
                  \/ step[c] # "no" /\ \E s : s # "no" /\ step' = [step EXCEPT ![c] = s]
      BY <1>0, <2>1, <2>3
    <2>4. Load(c) => \E s : s # "no" /\ step' = [step EXCEPT ![c] = s]
      <3> SUFFICES ASSUME Load(c) PROVE \E s : s # "no" /\ step' = [step EXCEPT ![c] = s]
        OBVIOUS
      <3>1. After[step[c]] # "no"
        BY AfterType, LoadsAre DEF Load
      <3> QED  BY <3>1 DEF Load
    <2> QED
      BY <1>0, <1>5, <2>2, <2>3, <2>4, LoadsAre
         DEF Check, Swap, Load, Condemn, Acquit, Reset, Exit, CheckAt, loopVars, checkVars
  <1>6. CASE Over \/ UNCHANGED vars
    BY <1>6 DEF Over, vars, checkVars, loopVars, tickVars
  <1> QED  BY <1>1, <1>2, <1>3, <1>4, <1>5, <1>6 DEF Next

\* A check has begun, and not longer ago than Span.
LEMMA BeganLately ==
    ASSUME TypeOK, DelayInv, NEW c \in Checkers, step[c] # "no"
    PROVE  /\ Began(c) \in Int /\ Began(c) <= now /\ now <= Began(c) + Span
  BY ProgressWatchdogAssumption, NumbersAre DEF DelayInv, Began, Checkers, Numbers

\* While a check goes on, its beginning and what it was told stay; the others' checks
\* do not interfere.
LEMMA InsideKeeps ==
    ASSUME TypeOK, DelayInv, ChecksAreExclusive, [Next]_vars,
           NEW c \in Checkers, Inside(c), Inside(c)'
    PROVE  /\ debt' = debt /\ Began(c)' = Began(c)
           /\ \/ Load(c) \/ Condemn(c) \/ Acquit(c)
              \/ /\ step'[c] = step[c] /\ snap'[c] = snap[c]
                 /\ step[c] = "exit" => reason' = reason
  <1>0. /\ step \in [Checkers -> Loads \cup {"no", "swap", "now_ms", "reset", "exit"}]
        /\ snap \in [Checkers -> Memories]
        /\ now \in Nat /\ due \in Nat /\ busy \in Nat /\ fired
        /\ c = "loop" => pc = "check"
    BY ProgressWatchdogAssumption DEF TypeOK, ChecksAreExclusive, DelayInv, Inside, Checkers
  <1>1. CASE Loop
    <2>1. UNCHANGED <<debt, due, now, snap, reason>>
      BY <1>1
         DEF Loop, RecvInference, RecvMgmt, MgmtDone, SendReply, Dispatch, RequestStart,
             ResponseOk, ResponseErr, CountRequest, ReadStart, StampFirst, StampInFlight,
             ReadSuccess, StampSuccess, ClearOnSuccess, CountSuccess, ReadFailure,
             StampFailure, ClearOnFailure, Store, ReadClock, RecvGivesNothing,
             checkVars, tickVars
    <2>2. pc # "check" /\ (RecvGivesNothing \/ UNCHANGED step)
      BY <1>1
         DEF Loop, RecvInference, RecvMgmt, MgmtDone, SendReply, Dispatch, RequestStart,
             ResponseOk, ResponseErr, CountRequest, ReadStart, StampFirst, StampInFlight,
             ReadSuccess, StampSuccess, ClearOnSuccess, CountSuccess, ReadFailure,
             StampFailure, ClearOnFailure, Store, ReadClock, LoopAt, RecvGivesNothing,
             checkVars
    <2>3. c = "monitor" /\ step'[c] = step[c]
      BY <1>0, <2>2 DEF Checkers, RecvGivesNothing
    <2> QED  BY <2>1, <2>3 DEF Began
  <1>2. CASE MonitorTick
    BY <1>0, <1>2 DEF MonitorTick, CheckAt, Inside, Began, Checkers, loopVars, tickVars
  <1>3. CASE Tick
    BY <1>0, <1>3 DEF Tick, Began, Checkers, Waiting, checkVars
  <1>4. CASE Over \/ UNCHANGED vars
    BY <1>4 DEF Over, vars, checkVars, loopVars, tickVars, Began
  <1>5. CASE Check(c)
    BY <1>0, <1>5
       DEF Check, Swap, Load, Condemn, Acquit, Reset, Exit, CheckAt, CheckReturns, Inside, Began,
           checkVars, loopVars, tickVars
  <1>6. ASSUME NEW d \in Checkers, d # c, Check(d)
        PROVE  /\ debt' = debt /\ Began(c)' = Began(c)
               /\ step'[c] = step[c] /\ snap'[c] = snap[c] /\ reason' = reason
    <2>1. ~Inside(d)
      BY <1>6 DEF ChecksAreExclusive, Checkers
    <2>2. Swap(d)
      BY <1>6, <2>1, LoadsAre DEF Check, Load, Condemn, Acquit, Reset, Exit, CheckAt, Inside
    <2> QED
      BY <1>0, <1>6, <2>2 DEF Swap, CheckReturns, Goto, Began, Checkers, tickVars
  <1> QED  BY <1>1, <1>2, <1>3, <1>4, <1>5, <1>6 DEF Next

\* What is owed is forgotten, or begins now; a late load shows it as it was.
LEMMA OwedMoves ==
    [Next]_vars => owed' \in {owed, 0, now + 1} /\ owedBefore' \in {owedBefore, owed}
  <1> SUFFICES ASSUME [Next]_vars
               PROVE  owed' \in {owed, 0, now + 1} /\ owedBefore' \in {owedBefore, owed}
    OBVIOUS
  <1>1. CASE Loop
    BY <1>1 DEF Loop, RecvInference, RecvMgmt, MgmtDone, RecvGivesNothing, SendReply, Dispatch,
       RequestStart, ResponseOk, ResponseErr, CountRequest, ReadStart, StampFirst,
       StampInFlight, ReadSuccess, StampSuccess, ClearOnSuccess, CountSuccess, ReadFailure,
       StampFailure, ClearOnFailure, Store, ReadClock, tickVars
  <1>2. ASSUME NEW c \in Checkers, Check(c) PROVE UNCHANGED <<owed, owedBefore>>
    BY <1>2, CheckMoves
  <1>3. CASE MonitorTick \/ Tick \/ Over \/ UNCHANGED vars
    BY <1>3 DEF MonitorTick, Tick, Over, vars, loopVars, tickVars
  <1> QED  BY <1>1, <1>2, <1>3 DEF Next

\* A check is entered through the swap that finds the flag clear.
LEMMA EnteredBySwap ==
    ASSUME TypeOK, [Next]_vars, NEW c \in Checkers, ~Inside(c), Inside(c)'
    PROVE  Swap(c) /\ ~fired /\ step'[c] = "total_requests"
  <1>0. step \in [Checkers -> Loads \cup {"no", "swap", "now_ms", "reset", "exit"}]
    BY DEF TypeOK
  <1>1. \A d \in Checkers \ {c} : ~Check(d)
    <2> SUFFICES ASSUME NEW d \in Checkers \ {c}, Check(d) PROVE FALSE
      OBVIOUS
    <2>1. step'[c] = step[c]
      BY <1>0 DEF Check, Swap, Load, Condemn, Acquit, Reset, Exit, CheckReturns, checkVars
    <2> QED  BY <2>1 DEF Inside
  <1>2. ~Loop
    BY <1>0
       DEF Loop, RecvInference, RecvMgmt, MgmtDone, RecvGivesNothing, SendReply, Dispatch,
           RequestStart, ResponseOk, ResponseErr, CountRequest, ReadStart, StampFirst,
           StampInFlight, ReadSuccess, StampSuccess, ClearOnSuccess, CountSuccess,
           ReadFailure, StampFailure, ClearOnFailure, Store, ReadClock, checkVars, Inside
  <1>3. ~(MonitorTick \/ Tick \/ Over \/ UNCHANGED vars)
    BY <1>0 DEF MonitorTick, Tick, Over, vars, checkVars, Inside, CheckAt
  <1>4. Swap(c)
    BY <1>1, <1>2, <1>3, LoadsAre
       DEF Next, Check, Load, Condemn, Acquit, Reset, Exit, CheckAt, Inside
  <1> QED  BY <1>0, <1>4 DEF Swap, CheckReturns, Inside

LEMMA DebtKept ==
    ASSUME TypeOK, StallInv, ChecksAreExclusive, [Next]_vars, NEW c \in Checkers
    PROVE  DebtInv(c)'
  <1> SUFFICES ASSUME Inside(c)'
               PROVE  /\ 0 < owed' /\ owed' <= Began(c)' => debt' = owed'
                      /\ 0 < owedBefore' /\ owedBefore' <= Began(c)' => debt' = owedBefore'
    BY DEF DebtInv
  <1>0. Numbers /\ step \in [Checkers -> Loads \cup {"no", "swap", "now_ms", "reset", "exit"}]
    BY NumbersAre DEF TypeOK
  <1>1. CASE Inside(c)
    <2>1. debt' = debt /\ Began(c)' = Began(c)
      BY <1>1, InsideKeeps DEF StallInv
    <2>2. Began(c) \in Int /\ Began(c) <= now
      BY <1>1, BeganLately DEF StallInv, Inside
    <2>3. DebtInv(c)
      BY DEF StallInv
    <2> QED  BY <1>0, <1>1, <2>1, <2>2, <2>3, OwedMoves DEF DebtInv, Numbers
  <1>2. CASE ~Inside(c)
    <2>1. Swap(c) /\ ~fired
      BY <1>2, EnteredBySwap
    <2>2. debt' = owedBefore /\ UNCHANGED <<owed, owedBefore, due, busy, now>>
      BY <2>1 DEF Swap, tickVars
    <2>3. Began(c)' = Began(c) /\ Began(c) \in Int /\ Began(c) <= now
      BY <2>1, <2>2, BeganLately DEF Swap, CheckAt, StallInv, Began
    <2> QED  BY <1>0, <2>2, <2>3 DEF StallInv, MemInv, ClockInv, Numbers
  <1> QED  BY <1>1, <1>2

\* No failure or first request that a load may return is older than those before, unless
\* it is of now.
LEMMA StampsMove ==
    TypeOK /\ [Next]_vars => /\ Failures' \subseteq Failures \cup {now + 1}
                            /\ Firsts' \subseteq Firsts \cup {now + 1}
  <1> SUFFICES ASSUME TypeOK, [Next]_vars
               PROVE  /\ Failures' \subseteq Failures \cup {now + 1}
                      /\ Firsts' \subseteq Firsts \cup {now + 1}
    OBVIOUS
  <1> USE DEF Failures, Firsts
  <1>0. mem \in Memories
    BY DEF TypeOK
  <1>1. CASE RecvInference \/ RecvMgmt \/ MgmtDone \/ RecvGivesNothing \/ SendReply
             \/ ReadStart \/ ReadSuccess \/ ReadFailure \/ CountSuccess
    BY <1>1 DEF RecvInference, RecvMgmt, MgmtDone, RecvGivesNothing, SendReply, Dispatch,
       ReadStart, ReadSuccess, ReadFailure, ReadClock, CountSuccess, Goto, Clock,
       sharedVars, tickVars
  <1>2. CASE CountRequest \/ StampFirst \/ StampInFlight
             \/ StampSuccess \/ ClearOnSuccess \/ StampFailure \/ ClearOnFailure
    BY <1>0, <1>2, LoadsAre, StoreIs
       DEF CountRequest, StampFirst, StampInFlight, StampSuccess, ClearOnSuccess,
           StampFailure, ClearOnFailure, Store, LoopAt, Goto, tickVars
  <1>3. ASSUME NEW c \in Checkers, Check(c)
        PROVE  Failures' \subseteq Failures /\ Firsts' \subseteq Firsts
    BY <1>3, CheckMoves
  <1>4. CASE MonitorTick \/ Tick \/ Over \/ UNCHANGED vars
    BY <1>4 DEF MonitorTick, Tick, Over, vars, sharedVars, loopVars, tickVars
  <1> QED
    BY <1>1, <1>2, <1>3, <1>4 DEF Next, Loop, RequestStart, ResponseOk, ResponseErr

\* Whatever last_success_ms a check loads, a stamp that it may yet load and that makes
\* this a sign of a stall is of a request owed when the check began.
LEMMA SuccessLoaded ==
    ASSUME TypeOK, StallInv, NEW c \in Checkers, Inside(c),
           NEW v \in Visible(c, "last_success_ms")
    PROVE  /\ \A x \in Failures : v < x => Covered(c, x)
           /\ v = 0 => \A x \in Firsts : Covered(c, x)
  <1>0. Numbers /\ MemInv /\ DebtInv(c)
    BY NumbersAre DEF StallInv
  <1>1. Began(c) \in Int /\ Began(c) <= now
    BY BeganLately DEF StallInv, Inside
  <1>2. v \in {mem["last_success_ms"], before["last_success_ms"]}
    BY DEF Visible
  <1>3. ASSUME NEW x \in Failures, v < x, 0 < x, x <= Began(c) PROVE Owes(debt, x)
    BY <1>0, <1>1, <1>2, <1>3, LoadsAre
       DEF Failures, MemInv, ClockInv, LoopInv, OwedInv, MixedInv, DebtInv, Owes, Numbers,
           Serving, LoopPC
  <1>4. ASSUME v = 0, NEW x \in Firsts, 0 < x, x <= Began(c) PROVE Owes(debt, x)
    BY <1>0, <1>1, <1>2, <1>4, LoadsAre
       DEF Firsts, MemInv, ClockInv, LoopInv, OwedInv, MixedInv, DebtInv, Owes, Numbers,
           Serving, LoopPC
  <1> QED  BY <1>3, <1>4 DEF Covered

LEMMA InFlightLoaded ==
    ASSUME TypeOK, StallInv, NEW c \in Checkers, Inside(c),
           NEW v \in Visible(c, "in_flight_start_ms")
    PROVE  Covered(c, v)
  <1>0. Numbers /\ MemInv /\ DebtInv(c)
    BY NumbersAre DEF StallInv
  <1>1. Began(c) \in Int /\ Began(c) <= now
    BY BeganLately DEF StallInv, Inside
  <1> QED
    BY <1>0, <1>1, LoadsAre DEF Visible, MemInv, OwedInv, DebtInv, Owes, Numbers, Covered

LEMMA SnapKeptByLoad ==
    ASSUME TypeOK, StallInv, ChecksAreExclusive, NEW c \in Checkers, Load(c)
    PROVE  SnapInv(c)'
  <1>0. /\ step \in [Checkers -> Loads \cup {"no", "swap", "now_ms", "reset", "exit"}]
        /\ snap \in [Checkers -> Memories] /\ Numbers /\ SnapInv(c)
    BY NumbersAre DEF TypeOK, StallInv
  <1>1. PICK v \in Visible(c, step[c]) : snap' = [snap EXCEPT ![c][step[c]] = v]
    BY DEF Load
  <1>2. /\ step[c] \in Loads /\ step'[c] = After[step[c]] /\ Inside(c)
        /\ snap'[c][step[c]] = v /\ \A f \in Loads \ {step[c]} : snap'[c][f] = snap[c][f]
    BY <1>0, <1>1, LoadsAre DEF Load, Inside, Memories
  <1>3. /\ Failures' = Failures /\ Firsts' = Firsts
        /\ \A x : Covered(c, x)' <=> Covered(c, x)
    BY DEF Load, Failures, Firsts, Covered, Began, Owes, sharedVars, loopVars, tickVars
  <1>4. CASE step[c] = "total_requests"
    BY <1>2, <1>4 DEF SnapInv, After
  <1>5. CASE step[c] = "last_success_ms"
    <2>1. /\ \A x \in Failures : v < x => Covered(c, x)
          /\ v = 0 => \A x \in Firsts : Covered(c, x)
      BY <1>1, <1>2, <1>5, SuccessLoaded
    <2> QED  BY <1>2, <1>3, <1>5, <2>1 DEF SnapInv, After
  <1>6. CASE step[c] = "last_failure_ms"
    <2>1. v \in Failures
      BY <1>1, <1>6 DEF Visible, Failures
    <2> QED  BY <1>0, <1>2, <1>3, <1>6, <2>1, LoadsAre DEF SnapInv, After
  <1>7. CASE step[c] = "first_request_ms"
    <2>1. v \in Firsts
      BY <1>1, <1>7 DEF Visible, Firsts
    <2> QED  BY <1>0, <1>2, <1>3, <1>7, <2>1, LoadsAre DEF SnapInv, After
  <1>8. CASE step[c] = "in_flight_start_ms"
    <2>1. Covered(c, v)
      BY <1>1, <1>2, <1>8, InFlightLoaded
    <2> QED  BY <1>0, <1>2, <1>3, <1>8, <2>1, LoadsAre DEF SnapInv, After
  <1> QED  BY <1>2, <1>4, <1>5, <1>6, <1>7, <1>8, LoadsAre

LEMMA SnapKept ==
    ASSUME TypeOK, StallInv, ChecksAreExclusive, [Next]_vars, NEW c \in Checkers
    PROVE  SnapInv(c)'
  <1>0. Numbers /\ SnapInv(c)
    BY NumbersAre DEF StallInv
  <1> DEFINE Judging == {"last_failure_ms", "first_request_ms", "in_flight_start_ms", "now_ms"}
  <1>1. CASE step'[c] \notin Judging
    BY <1>1 DEF SnapInv
  <1>2. CASE step'[c] \in Judging /\ ~Inside(c)
    BY <1>2, EnteredBySwap DEF Inside
  <1>3. CASE step'[c] \in Judging /\ Inside(c)
    <2>1. /\ debt' = debt /\ Began(c)' = Began(c)
          /\ \/ Load(c) \/ Condemn(c) \/ Acquit(c) \/ (step'[c] = step[c] /\ snap'[c] = snap[c])
      BY <1>3, InsideKeeps DEF StallInv, Inside
    <2>2. ~Condemn(c) /\ ~Acquit(c)
      BY <1>3 DEF Condemn, Acquit, TypeOK
    <2>3. CASE step'[c] = step[c] /\ snap'[c] = snap[c]
      <3>1. Began(c) \in Int /\ Began(c) <= now
        BY <1>3, BeganLately DEF StallInv, Inside
      <3>2. \A x : Covered(c, x)' <=> Covered(c, x)
        BY <2>1 DEF Covered, Owes
      <3>3. \A x \in {now + 1} : Covered(c, x)
        BY <1>0, <3>1 DEF Covered, Numbers
      <3> QED  BY <1>0, <2>3, <3>2, <3>3, StampsMove DEF SnapInv
    <2> QED  BY <2>1, <2>2, <2>3, SnapKeptByLoad
  <1> QED  BY <1>1, <1>2, <1>3

\* The invariant holds with types and exclusion in every reachable state, whatever the
\* limits.
THEOREM StallInvHolds == Spec => []StallInv
  <1>1. TypeOK /\ ChecksAreExclusive /\ StallInv /\ [Next]_vars => StallInv'
    <2> SUFFICES ASSUME TypeOK, ChecksAreExclusive, StallInv, [Next]_vars PROVE StallInv'
      OBVIOUS
    <2>1. DelayInv' /\ MemInv'
      BY DelayKept, MemKept DEF StallInv
    <2>2. \A c \in Checkers : DebtInv(c)' /\ SnapInv(c)'
      BY DebtKept, SnapKept
    <2> QED  BY <2>1, <2>2 DEF StallInv
  <1> QED  BY <1>1, InitStall, ProgressTypeCorrect, ChecksNeverOverlap, PTL DEF Spec
-----------------------------------------------------------------------------
\* Time does not go back.
LEMMA ClockMoves == [Next]_vars => now' \in {now, now + 1}
  <1> SUFFICES ASSUME [Next]_vars PROVE now' \in {now, now + 1}
    OBVIOUS
  <1>1. CASE Loop
    BY <1>1 DEF Loop, RecvInference, RecvMgmt, MgmtDone, RecvGivesNothing, SendReply, Dispatch,
       RequestStart, ResponseOk, ResponseErr, CountRequest, ReadStart, StampFirst,
       StampInFlight, ReadSuccess, StampSuccess, ClearOnSuccess, CountSuccess, ReadFailure,
       StampFailure, ClearOnFailure, Store, ReadClock, tickVars
  <1>2. ASSUME NEW c \in Checkers, Check(c) PROVE now' = now
    BY <1>2, CheckMoves
  <1>3. CASE MonitorTick \/ Tick \/ Over \/ UNCHANGED vars
    BY <1>3 DEF MonitorTick, Tick, Over, vars, tickVars
  <1> QED  BY <1>1, <1>2, <1>3 DEF Next

\* What has been owed for the whole limit stays so.
LEMMA OwedStays ==
    ASSUME TypeOK, [Next]_vars, OwedForTheWholeLimit, debt' = debt
    PROVE  OwedForTheWholeLimit'
  BY NumbersAre, ClockMoves, ProgressWatchdogAssumption
     DEF Numbers, OwedForTheWholeLimit, ProgressWatchdogAssumption

\* A loaded stamp as old as the limit is from before the check, and so covered.
LEMMA OldStampIsCovered ==
    ASSUME TypeOK, StallInv, MaxNoProgress > 0, Span <= MaxNoProgress,
           NEW c \in Checkers, step[c] = "now_ms",
           NEW f \in Loads, 0 < snap[c][f], Since(snap[c][f]) >= MaxNoProgress,
           Covered(c, snap[c][f])
    PROVE  OwedForTheWholeLimit
  <1>1. /\ now \in Nat /\ debt \in Nat /\ MaxNoProgress \in Nat /\ Span \in Nat
        /\ snap[c][f] \in Nat
    BY NumbersAre, ProgressWatchdogAssumption DEF Numbers, ProgressWatchdogAssumption
  <1>2. Began(c) \in Int /\ now <= Began(c) + Span
    BY BeganLately DEF StallInv
  <1>3. now >= snap[c][f] + MaxNoProgress
    BY <1>1 DEF Since
  <1>4. snap[c][f] <= Began(c)
    BY <1>1, <1>2, <1>3
  <1>5. 0 < debt /\ debt <= snap[c][f]
    BY <1>4 DEF Covered, Owes
  <1> QED  BY <1>1, <1>3, <1>5 DEF OwedForTheWholeLimit

\* Each of the three tests of the stamps, then, finds a request owed for the whole limit.
LEMMA SignIsDebt ==
    ASSUME TypeOK, StallInv, MaxNoProgress > 0 => Span <= MaxNoProgress,
           NEW c \in Checkers, step[c] = "now_ms",
           \/ NoSuccess(snap[c]) /\ snap[c]["first_request_ms"] > 0
           \/ FailureTimeout(snap[c])
           \/ InFlightStuck(snap[c])
    PROVE  OwedForTheWholeLimit
  <1>0. SnapInv(c) /\ Numbers
    BY NumbersAre DEF StallInv
  <1>1. CASE NoSuccess(snap[c]) /\ snap[c]["first_request_ms"] > 0
    <2>1. Covered(c, snap[c]["first_request_ms"])
      BY <1>0, <1>1 DEF NoSuccess, SnapInv
    <2> QED  BY <1>0, <1>1, <2>1, OldStampIsCovered, LoadsAre DEF NoSuccess, Numbers
  <1>2. CASE FailureTimeout(snap[c])
    <2>1. snap[c]["last_success_ms"] < snap[c]["last_failure_ms"]
      BY <1>0, <1>2, LoadsAre DEF FailureTimeout, Numbers
    <2>2. Covered(c, snap[c]["last_failure_ms"])
      BY <1>0, <2>1 DEF SnapInv
    <2>3. 0 < snap[c]["last_failure_ms"]
      BY <1>0, <2>1, LoadsAre DEF Numbers
    <2> QED  BY <1>2, <2>2, <2>3, OldStampIsCovered, LoadsAre DEF FailureTimeout
  <1>3. CASE InFlightStuck(snap[c])
    <2>1. Covered(c, snap[c]["in_flight_start_ms"])
      BY <1>0 DEF SnapInv
    <2> QED  BY <1>0, <1>3, <2>1, OldStampIsCovered, LoadsAre DEF InFlightStuck, Numbers
  <1> QED  BY <1>1, <1>2, <1>3

\* For all limits and periods: if no thread is kept for longer than the no-progress limit
\* between two waits, a check condemns the worker only for a request that has been owed
\* for the whole limit (watchdog.rs:279-357), the window of the first request aside.
THEOREM NoFalseAlarm ==
    ASSUME MaxNoProgress > 0 => Span <= MaxNoProgress
    PROVE  Spec => []KillNeedsStall
  <1>1. Init => KillNeedsStall
    BY DEF Init, KillNeedsStall
  <1>2. TypeOK /\ ChecksAreExclusive /\ StallInv /\ KillNeedsStall /\ [Next]_vars => KillNeedsStall'
    <2> SUFFICES ASSUME TypeOK, ChecksAreExclusive, StallInv, KillNeedsStall, [Next]_vars,
                        NEW c \in Checkers, step'[c] = "exit",
                        reason' # "max_lifetime exceeded",
                        reason' = "no success timeout" => snap'[c]["first_request_ms"] > 0
                 PROVE  OwedForTheWholeLimit'
      BY DEF KillNeedsStall
    <2>1. Inside(c) /\ Inside(c)'
      BY EnteredBySwap DEF Inside
    <2>2. debt' = debt
      BY <2>1, InsideKeeps DEF StallInv
    <2>3. OwedForTheWholeLimit
      <3>1. CASE Condemn(c)
        <4>1. /\ step[c] = "now_ms" /\ Verdict(snap[c]) # "none"
              /\ reason' = Verdict(snap[c]) /\ snap' = snap
          BY <3>1 DEF Condemn, CheckAt
        <4>2. \/ NoSuccess(snap[c]) /\ snap[c]["first_request_ms"] > 0
              \/ FailureTimeout(snap[c])
              \/ InFlightStuck(snap[c])
          BY <4>1 DEF Verdict
        <4> QED  BY <4>1, <4>2, SignIsDebt
      <3>2. CASE step[c] = "exit" /\ snap'[c] = snap[c] /\ reason' = reason
        BY <3>2 DEF KillNeedsStall
      <3>3. ~Load(c) /\ ~Acquit(c)
        BY AfterType, LoadsAre DEF Load, Acquit, TypeOK
      <3> QED  BY <2>1, <3>1, <3>2, <3>3, InsideKeeps DEF StallInv
    <2> QED  BY <2>2, <2>3, OwedStays
  <1> QED
    BY <1>1, <1>2, StallInvHolds, ProgressTypeCorrect, ChecksNeverOverlap, PTL DEF Spec
=============================================================================
