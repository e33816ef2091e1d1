--------------------------- MODULE RequestRecord ---------------------------
(***************************************************************************)
(* What the progress watchdog has on record of the inference requests of   *)
(* one process, as far as check() tells records apart: whether there was a *)
(* request, whether one is in flight, whether one succeeded, and whether   *)
(* the last word is a failure. Worker keeps such a record, one update for  *)
(* a request's start and one for its end; ProgressWatchdog shows that the  *)
(* atomics, written one by one and compared by their time stamps, are one. *)
(***************************************************************************)
VARIABLE health

Healths == [requested : BOOLEAN, inFlight : BOOLEAN, succeeded : BOOLEAN, failed : BOOLEAN]

NoRequests == [requested |-> FALSE, inFlight |-> FALSE, succeeded |-> FALSE, failed |-> FALSE]

\* request_start
Started(h) ==
    [requested |-> TRUE, inFlight |-> TRUE, succeeded |-> h.succeeded, failed |-> h.failed]

\* response_ok: an earlier failure is forgotten.
Succeeded(h) ==
    [requested |-> h.requested, inFlight |-> FALSE, succeeded |-> TRUE, failed |-> FALSE]

\* response_err. A failure in the same millisecond as a success does not come after it.
Failed(h) ==
    {[requested |-> h.requested, inFlight |-> FALSE, succeeded |-> h.succeeded,
      failed |-> h.failed \/ ~h.succeeded \/ later] : later \in BOOLEAN}

\* What check() takes for a stall once it has lasted for max_no_progress.
Stalled(h) == \/ h.inFlight
              \/ h.failed
              \/ h.requested /\ ~h.succeeded

Init == health = NoRequests

\* Requests are served one after the other.
Start   == ~health.inFlight /\ health' = Started(health)
Succeed == health.inFlight /\ health' = Succeeded(health)
Fail    == health.inFlight /\ health' \in Failed(health)

Next == Start \/ Succeed \/ Fail

Spec == Init /\ [][Next]_health
=============================================================================
