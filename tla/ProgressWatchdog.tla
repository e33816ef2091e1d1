-------------------------- MODULE ProgressWatchdog --------------------------
(***************************************************************************)
(* src/src/watchdog.rs, lines 149-398, with its two users in main.rs: the  *)
(* REP loop (284-417, 426-450) and the task watchdog_monitor (453-489).    *)
(*                                                                         *)
(* The loop runs on the main thread and records every inference request in *)
(* Relaxed atomics; the monitor runs on a runtime thread, reads them one   *)
(* after the other every CheckInterval, and exits the process with code 70 *)
(* when they show no progress. The loop checks too, when recv gives it no  *)
(* message. Every atomic access and every clock read is a step of its own. *)
(*                                                                         *)
(* One clock unit is a millisecond; the limits, configured in seconds, are *)
(* constants in clock units (the code compares whole seconds, and          *)
(* x / 1000 >= s iff x >= 1000 * s).                                       *)
(*                                                                         *)
(* Not modelled: total_failures and the health log line, which are only    *)
(* logged; the native call's own watchdog (ProcessWatchdog).               *)
(***************************************************************************)
EXTENDS Integers

CONSTANTS MaxNoProgress,  \* --max-no-progress-secs, 0: disabled
          MaxRequests,    \* --max-requests, 0: disabled
          MaxLifetime,    \* --max-lifetime-secs, 0: disabled
          CheckInterval,  \* WATCHDOG_CHECK_INTERVAL
          Span,           \* the longest a thread takes, once it has something to do
                          \* and however preempted, to get to its next wait
          MaxTraffic,     \* bound of the model: inference requests received
          MaxNow          \* bound of the model: uptime

ASSUME ProgressWatchdogAssumption ==
    /\ {MaxNoProgress, MaxRequests, MaxLifetime, Span, MaxTraffic, MaxNow} \subseteq Nat
    /\ CheckInterval \in Nat \ {0}

VARIABLES
    now,       \* elapsed_ms()
    mem,       \* the atomics of ProgressWatchdog that are read by another thread
    before,    \* mem when this clock unit began: what a Relaxed load may still see
    successes, \* total_successes, touched by the loop alone
    fired,     \* ProgressWatchdog.fired
    pc,        \* where the REP loop is
    stamp,     \* started_ms, or the argument of a store: a clock read taken earlier
    busy,      \* clock units since the loop last waited
    step,      \* where the loop and the monitor are in check()
    snap,      \* the HealthSnapshot each of them is building
    due,       \* the monitor's next check_timer tick
    reason,    \* why a check decided to exit
    exit,      \* the process's exit code, or Running
    owed,      \* history: when (+1) a request was first left without a recorded
               \* success, 0 if none is
    owedBefore,\* history: owed when this clock unit began
    debt       \* history: owedBefore when the running check started

sharedVars == <<mem, successes, fired>>
checkVars  == <<step, snap, due, reason, debt>>
loopVars   == <<pc, stamp, busy, owed>>
tickVars   == <<now, before, owedBefore>>
vars == <<sharedVars, checkVars, loopVars, tickVars, exit>>

Running == -1
EXIT_CODE_NO_PROGRESS == 70

Checkers == {"loop", "monitor"}

\* The loop. "recv": in socket.recv(); "mgmt": serving a model request; "check": in
\* health.check(); "dispatch": handling and answering an inference request; the others
\* are named for the next line of request_start, response_ok or response_err.
LoopPC == {"recv", "mgmt", "check", "dispatch",
           "rs_count", "rs_clock", "rs_first", "rs_inflight",
           "ok_clock", "ok_store", "ok_clear", "ok_count",
           "err_clock", "err_store", "err_clear"}

Waiting == {"recv", "mgmt", "dispatch"}

\* In request_start, and the request is counted.
Starting == {"rs_clock", "rs_first", "rs_inflight"}

Stamps == {"last_success_ms", "last_failure_ms", "first_request_ms", "in_flight_start_ms"}

\* snapshot(): the loads in the order of the source.
After ==
    [total_requests   |-> "last_success_ms",
     last_success_ms  |-> "last_failure_ms",
     last_failure_ms  |-> "first_request_ms",
     first_request_ms |-> "in_flight_start_ms",
     in_flight_start_ms |-> "now_ms"]

Loads == DOMAIN After
Zero  == [f \in Loads |-> 0]

Reasons == {"max_lifetime exceeded", "no success timeout", "failure timeout",
            "in-flight stuck"}

Memories == [Loads -> Nat]

TypeOK ==
    /\ now \in 0 .. MaxNow
    /\ mem \in Memories /\ before \in Memories
    /\ successes \in Nat
    /\ fired \in BOOLEAN
    /\ pc \in LoopPC
    /\ stamp \in 1 .. MaxNow + 1
    /\ busy \in 0 .. Span
    /\ step \in [Checkers -> Loads \cup {"no", "swap", "now_ms", "reset", "exit"}]
    /\ snap \in [Checkers -> Memories]
    /\ due \in Nat
    /\ reason \in Reasons \cup {"none"}
    /\ exit \in {Running, 0, EXIT_CODE_NO_PROGRESS}
    /\ owed \in 0 .. MaxNow + 1 /\ owedBefore \in 0 .. MaxNow + 1
    /\ debt \in 0 .. MaxNow + 1

Init ==
    /\ now = 0 /\ mem = Zero /\ before = Zero /\ successes = 0 /\ fired = FALSE
    /\ pc = "recv" /\ stamp = 1 /\ busy = 0
    /\ step = [c \in Checkers |-> "no"] /\ snap = [c \in Checkers |-> Zero]
    /\ due = CheckInterval /\ reason = "none" /\ exit = Running
    /\ owed = 0 /\ owedBefore = 0 /\ debt = 0

Up == exit = Running
IsEnabled == MaxNoProgress > 0 \/ MaxRequests > 0 \/ MaxLifetime > 0
-----------------------------------------------------------------------------
(***************************************************************************)
(* The REP loop.                                                           *)
(***************************************************************************)

LoopAt(here) == Up /\ pc = here

Goto(there) ==
    /\ pc' = there
    /\ busy' = IF there \in Waiting THEN 0 ELSE busy

\* Mutant: the timestamp is stored as it is read.
PlainClock == now

\* elapsed_ms() + 1: 0 stays free for "not set".
Clock == now + 1

ReadClock(here, there) ==
    /\ LoopAt(here)
    /\ stamp' = Clock
    /\ Goto(there)
    /\ UNCHANGED <<sharedVars, checkVars, owed, tickVars, exit>>

Store(here, field, value, there) ==
    /\ LoopAt(here)
    /\ mem' = [mem EXCEPT ![field] = value]
    /\ Goto(there)
    /\ UNCHANGED <<successes, fired, checkVars, stamp, tickVars, exit>>

\* recv returns an inference request.
RecvInference ==
    /\ LoopAt("recv")
    /\ mem["total_requests"] < MaxTraffic
    /\ owed' = IF owed = 0 THEN now + 1 ELSE owed
    /\ Goto("rs_count")
    /\ UNCHANGED <<sharedVars, checkVars, stamp, tickVars, exit>>

\* recv returns a model-management message: not tracked at all.
RecvMgmt ==
    /\ LoopAt("recv")
    /\ Goto("mgmt")
    /\ UNCHANGED <<sharedVars, checkVars, stamp, owed, tickVars, exit>>

MgmtDone ==
    /\ LoopAt("mgmt")
    /\ Goto("recv")
    /\ UNCHANGED <<sharedVars, checkVars, stamp, owed, tickVars, exit>>

\* recv times out, or fails and the loop has slept its backoff: either way check().
RecvGivesNothing ==
    /\ LoopAt("recv")
    /\ Goto("check")
    /\ step' = [step EXCEPT !["loop"] = "swap"]
    /\ UNCHANGED <<sharedVars, snap, due, reason, debt, stamp, owed, tickVars, exit>>

\* request_start(). compare_exchange(0, started_ms) stores the first stamp only.
CountRequest ==
    /\ Store("rs_count", "total_requests", mem["total_requests"] + 1, "rs_clock")
    /\ UNCHANGED owed
ReadStart == ReadClock("rs_clock", "rs_first")
StampFirst ==
    /\ Store("rs_first", "first_request_ms",
             IF mem["first_request_ms"] = 0 THEN stamp ELSE mem["first_request_ms"],
             "rs_inflight")
    /\ UNCHANGED owed
StampInFlight ==
    /\ Store("rs_inflight", "in_flight_start_ms", stamp, "dispatch")
    /\ UNCHANGED owed

RequestStart == CountRequest \/ ReadStart \/ StampFirst \/ StampInFlight

\* The request is handled and the reply is sent, or could not be (an error or the send
\* timeout). An inference error is a zero reply, and a sent zero reply is a success.
Dispatch(there) ==
    /\ LoopAt("dispatch")
    /\ Goto(there)
    /\ UNCHANGED <<sharedVars, checkVars, stamp, owed, tickVars, exit>>

SendReply == Dispatch("ok_clock") \/ Dispatch("err_clock")

\* Mutant: response_ok leaves the request in flight.
KeepInFlight ==
    /\ LoopAt("ok_clear")
    /\ owed' = 0
    /\ Goto("ok_count")
    /\ UNCHANGED <<sharedVars, checkVars, stamp, tickVars, exit>>

\* response_ok(). With its last store the success is on record.
ReadSuccess == ReadClock("ok_clock", "ok_store")
StampSuccess ==
    /\ Store("ok_store", "last_success_ms", stamp, "ok_clear")
    /\ UNCHANGED owed
ClearOnSuccess ==
    /\ Store("ok_clear", "in_flight_start_ms", 0, "ok_count")
    /\ owed' = 0

\* fetch_add on total_successes, and the clean exit at max_requests.
CountSuccess ==
    /\ LoopAt("ok_count")
    /\ successes' = successes + 1
    /\ exit' = IF MaxRequests > 0 /\ successes' >= MaxRequests THEN 0 ELSE exit
    /\ Goto("recv")
    /\ UNCHANGED <<mem, fired, checkVars, stamp, owed, tickVars>>

ResponseOk == ReadSuccess \/ StampSuccess \/ ClearOnSuccess \/ CountSuccess

\* response_err().
ReadFailure == ReadClock("err_clock", "err_store")
StampFailure ==
    /\ Store("err_store", "last_failure_ms", stamp, "err_clear")
    /\ UNCHANGED owed
ClearOnFailure ==
    /\ Store("err_clear", "in_flight_start_ms", 0, "recv")
    /\ UNCHANGED owed

ResponseErr == ReadFailure \/ StampFailure \/ ClearOnFailure

Loop == \/ RecvInference \/ RecvMgmt \/ MgmtDone \/ RecvGivesNothing
        \/ RequestStart \/ SendReply \/ ResponseOk \/ ResponseErr
-----------------------------------------------------------------------------
(***************************************************************************)
(* check(), by checker c.                                                  *)
(***************************************************************************)

CheckAt(c, here) == Up /\ step[c] = here

\* check() returned None: the loop goes back to recv, the monitor to its interval
\* (MissedTickBehavior::Burst: the next tick is one period after the one it served).
CheckReturns(c) ==
    /\ step' = [step EXCEPT ![c] = "no"]
    /\ snap' = [snap EXCEPT ![c] = Zero]
    /\ IF c = "loop"
       THEN Goto("recv") /\ UNCHANGED due
       ELSE due' = due + CheckInterval /\ UNCHANGED <<pc, busy>>

\* check_timer.tick() comes due.
MonitorTick ==
    /\ CheckAt("monitor", "no") /\ IsEnabled
    /\ now >= due
    /\ step' = [step EXCEPT !["monitor"] = "swap"]
    /\ UNCHANGED <<sharedVars, snap, due, reason, debt, loopVars, tickVars, exit>>

\* Mutant: a test and a store instead of a swap.
SwapIgnored(c) ==
    /\ CheckAt(c, "swap")
    /\ fired' = TRUE
    /\ step' = [step EXCEPT ![c] = "total_requests"]
    /\ debt' = owedBefore
    /\ UNCHANGED <<mem, successes, snap, due, reason, loopVars, tickVars, exit>>

\* fired.swap(true): whoever finds it set leaves the check to the other.
Swap(c) ==
    /\ CheckAt(c, "swap")
    /\ fired' = TRUE
    /\ IF fired
       THEN CheckReturns(c) /\ UNCHANGED debt
       ELSE /\ step' = [step EXCEPT ![c] = "total_requests"]
            /\ debt' = owedBefore
            /\ UNCHANGED <<snap, due, pc, busy>>
    /\ UNCHANGED <<mem, successes, reason, stamp, owed, tickVars, exit>>

\* A Relaxed load: the loop wrote the location itself, the monitor may see it late.
Visible(c, f) == IF c = "loop" THEN {mem[f]} ELSE {mem[f], before[f]}

Load(c) ==
    /\ Up /\ step[c] \in Loads
    /\ \E value \in Visible(c, step[c]) : snap' = [snap EXCEPT ![c][step[c]] = value]
    /\ step' = [step EXCEPT ![c] = After[step[c]]]
    /\ UNCHANGED <<sharedVars, due, reason, debt, loopVars, tickVars, exit>>

\* now_ms.saturating_sub(start)
Since(start) == IF now > start THEN now - start ELSE 0

\* The tests of check() on snapshot s and the clock read that ends it.
LifetimeOver == MaxLifetime > 0 /\ now >= MaxLifetime
NoSuccess(s) ==
    /\ MaxNoProgress > 0 /\ s.total_requests > 0
    /\ s.last_success_ms = 0
    /\ Since(s.first_request_ms) >= MaxNoProgress
\* Mutant: a failure in the same millisecond as a success comes after it.
FailureTimeoutEarly(s) ==
    /\ MaxNoProgress > 0 /\ s.total_requests > 0
    /\ s.last_failure_ms >= s.last_success_ms
    /\ Since(s.last_failure_ms) >= MaxNoProgress
FailureTimeout(s) ==
    /\ MaxNoProgress > 0 /\ s.total_requests > 0
    /\ s.last_failure_ms > s.last_success_ms
    /\ Since(s.last_failure_ms) >= MaxNoProgress
InFlightStuck(s) ==
    /\ MaxNoProgress > 0
    /\ s.in_flight_start_ms > 0
    /\ Since(s.in_flight_start_ms) >= MaxNoProgress

Verdict(s) ==
    IF LifetimeOver THEN "max_lifetime exceeded"
    ELSE IF NoSuccess(s) THEN "no success timeout"
    ELSE IF FailureTimeout(s) THEN "failure timeout"
    ELSE IF InFlightStuck(s) THEN "in-flight stuck" ELSE "none"

\* Some(reason): the caller of check() exits, and `fired` stays set.
Condemn(c) ==
    /\ CheckAt(c, "now_ms")
    /\ Verdict(snap[c]) # "none"
    /\ reason' = Verdict(snap[c])
    /\ step' = [step EXCEPT ![c] = "exit"]
    /\ UNCHANGED <<sharedVars, snap, due, debt, loopVars, tickVars, exit>>

\* The process is healthy by the clock just read.
Acquit(c) ==
    /\ CheckAt(c, "now_ms")
    /\ Verdict(snap[c]) = "none"
    /\ step' = [step EXCEPT ![c] = "reset"]
    /\ UNCHANGED <<sharedVars, snap, due, reason, debt, loopVars, tickVars, exit>>

\* Mutant: `fired` is not reset.
StayFired(c) ==
    /\ CheckAt(c, "reset")
    /\ CheckReturns(c)
    /\ UNCHANGED <<sharedVars, reason, debt, stamp, owed, tickVars, exit>>

\* fired.store(false), so that the next check is one again, and None.
Reset(c) ==
    /\ CheckAt(c, "reset")
    /\ fired' = FALSE
    /\ debt' = 0
    /\ CheckReturns(c)
    /\ UNCHANGED <<mem, successes, reason, stamp, owed, tickVars, exit>>

Exit(c) ==
    /\ CheckAt(c, "exit")
    /\ exit' = EXIT_CODE_NO_PROGRESS
    /\ UNCHANGED <<sharedVars, checkVars, loopVars, tickVars>>

Check(c) == Swap(c) \/ Load(c) \/ Condemn(c) \/ Acquit(c) \/ Reset(c) \/ Exit(c)
-----------------------------------------------------------------------------
\* One clock unit passes: no thread is kept from its next wait for more than Span, and
\* stores become visible.
Tick ==
    /\ Up /\ now < MaxNow
    /\ pc \notin Waiting => busy < Span
    /\ IsEnabled => now < due + Span
    /\ now' = now + 1
    /\ busy' = IF pc \in Waiting THEN 0 ELSE busy + 1
    /\ before' = mem
    /\ owedBefore' = owed
    /\ UNCHANGED <<sharedVars, checkVars, pc, stamp, owed, exit>>

\* The process has exited, or the model's time is up.
Over == (~Up \/ now = MaxNow) /\ UNCHANGED vars

Next == Loop \/ MonitorTick \/ (\E c \in Checkers : Check(c)) \/ Tick \/ Over

Spec == Init /\ [][Next]_vars
-----------------------------------------------------------------------------
(***************************************************************************)
(* Properties.                                                             *)
(***************************************************************************)

Inside(c) == step[c] \notin {"no", "swap"}

\* `fired` is a lock as well as a flag: however the loop's checks and the monitor's
\* interleave, one at most is between the swap and its verdict, and at most one of them
\* goes on to exit (watchdog.rs:279 "to avoid double-exit").
ChecksAreExclusive ==
    /\ ~(Inside("loop") /\ Inside("monitor"))
    /\ (\E c \in Checkers : Inside(c)) => fired

\* When c condemned the process for `why`, a request had been waiting for a success
\* since before the check began and for the whole limit.
OwedForTheWholeLimit == debt > 0 /\ now + 1 >= debt + MaxNoProgress

\* No torn snapshot, late store or old clock read makes check() (watchdog.rs:318-353)
\* kill a worker that is serving its requests.
KillNeedsStall ==
    \A c \in Checkers :
        /\ step[c] = "exit"
        /\ reason # "max_lifetime exceeded"
        /\ reason = "no success timeout" => snap[c].first_request_ms > 0
        => OwedForTheWholeLimit

\* The atomics as a record of requests. A request is on record with the last store of
\* request_start, its end with the time stamp that response_ok or response_err stores.
record ==
    [requested |-> mem["total_requests"] > (IF pc \in Starting THEN 1 ELSE 0),
     inFlight  |-> mem["in_flight_start_ms"] > 0 /\ pc \notin {"ok_clear", "err_clear"},
     succeeded |-> mem["last_success_ms"] > 0,
     failed    |-> mem["last_failure_ms"] > mem["last_success_ms"]]

RR == INSTANCE RequestRecord WITH health <- record

\* Whatever the clock reads and wherever the loop is delayed between a clock read and its
\* store, comparing time stamps with 0 and with each other tells whether there was a
\* request, is one, was a success, and came a failure after it (watchdog.rs:219-254).
ImplementsRequestRecord == RR!Spec

\* Between requests, and while one is served, what check() (watchdog.rs:299-353) would exit
\* for, on the atomics as they are, is a stall on record; and it would exit for every stall
\* on record once its stamps are as old as the limit.
Aged == \A f \in {"first_request_ms", "last_failure_ms", "in_flight_start_ms"} :
            Since(mem[f]) >= MaxNoProgress

CheckSeesStalls ==
    MaxNoProgress > 0 /\ ~LifetimeOver /\ pc \notin Starting \cup {"ok_clear", "err_clear"} =>
        /\ Verdict(mem) # "none" => RR!Stalled(record)
        /\ RR!Stalled(record) /\ Aged => Verdict(mem) # "none"

\* How long after its limit a stall can still be going on: for Span while the loop's check,
\* which read the clock before the limit, holds `fired` and the monitor gives way; for a
\* check period and Span, until the monitor's next tick is served; and for Span when that
\* one, too, finds `fired` held, by a check of the loop that will exit.
Grace == CheckInterval + 3 * Span - 1

\* A stamp may be stored that late, however short the limit.
Patience == IF MaxNoProgress \in 1 .. Span THEN Span ELSE MaxNoProgress

Overstays(start, limit) == limit > 0 /\ start > 0 /\ now > start + limit + Grace

\* A stall is caught in time: a first request without a success, a failure with no
\* success after it, a request in flight, and the process itself, outlive their limit
\* by no more than the check interval and the threads' delays (watchdog.rs:279-357).
StallIsCaught ==
    Up => /\ mem["last_success_ms"] = 0 =>
                ~Overstays(mem["first_request_ms"], Patience)
          /\ mem["last_failure_ms"] > mem["last_success_ms"] =>
                ~Overstays(mem["last_failure_ms"], Patience)
          /\ ~Overstays(mem["in_flight_start_ms"], Patience)
          /\ ~Overstays(1, MaxLifetime)
-----------------------------------------------------------------------------
(***************************************************************************)
(* What the documentation says and the code does not do.                   *)
(***************************************************************************)

\* watchdog.rs:299-306: the first request has the whole limit, from its start, to
\* succeed.
FirstRequestGetsItsWindow ==
    \A c \in Checkers :
        step[c] = "exit" /\ reason = "no success timeout" => OwedForTheWholeLimit

\* cli.rs:59 "Exit if no successful response completes within this many seconds":
\* a worker whose replies fail does not go on without a success for three times as long.
NoSuccessMeansExit ==
    Up /\ mem["last_failure_ms"] > mem["last_success_ms"]
    => ~Overstays(owed, 3 * MaxNoProgress)
=============================================================================
