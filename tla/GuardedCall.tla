---------------------------- MODULE GuardedCall ----------------------------
(***************************************************************************)
(* What run_with_process_watchdog promises of one guarded native call: the *)
(* caller's view, with no thread, mutex or condition variable.             *)
(*   - a call that is let finish goes back to "idle";                      *)
(*   - the process is killed only while a call is running, and only once   *)
(*     the call has run for its whole timeout;                             *)
(*   - no guarded call runs for more than timeout + Slack: time cannot     *)
(*     pass that point, the process must have been killed by then;         *)
(*   - a killed process does nothing any more.                             *)
(* A timeout of 0 turns the guard off.                                     *)
(***************************************************************************)
EXTENDS Integers

CONSTANTS Timeouts,  \* the configurable values of --inference-timeout-ms
          Slack      \* how late the kill may come, in clock units

VARIABLES timeout,   \* the configured timeout
          call,      \* "idle", "running" or "killed"
          age        \* clock units since the running call was armed, else 0

vars == <<timeout, call, age>>

Init ==
    /\ timeout \in Timeouts
    /\ call = "idle"
    /\ age = 0

Begin ==
    /\ call = "idle"
    /\ call' = "running"
    /\ UNCHANGED <<timeout, age>>

End ==
    /\ call = "running"
    /\ call' = "idle"
    /\ age' = 0
    /\ UNCHANGED timeout

Kill ==
    /\ call = "running"
    /\ timeout > 0
    /\ age >= timeout
    /\ call' = "killed"
    /\ age' = 0
    /\ UNCHANGED timeout

Tick ==
    /\ call = "running"
    /\ timeout > 0
    /\ age < timeout + Slack
    /\ age' = age + 1
    /\ UNCHANGED <<timeout, call>>

Next == Begin \/ End \/ Kill \/ Tick

Spec == Init /\ [][Next]_vars
=============================================================================
