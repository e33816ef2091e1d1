------------------------------- MODULE System -------------------------------
(***************************************************************************)
(* The whole detector as Frigate sees it: the parent process (Supervisor), *)
(* the worker processes it starts one after the other (Worker), and one    *)
(* Frigate client on the other end of the ZeroMQ connection.               *)
(*                                                                         *)
(* The client is not in this repository. It is modelled from what the      *)
(* handlers serve and from README.md:217-225: it asks whether its model is *)
(* loaded, transfers it if not, then sends inference requests, one at a    *)
(* time; a request that is not answered in time is abandoned, but may      *)
(* still reach a worker. The model is of a supervised process with a valid *)
(* configuration, and of a client that always wants the same model.        *)
(***************************************************************************)
EXTENDS Integers

CONSTANTS Names, Blobs, Unknown, NoName, NoModel, Nothing, Preloads, WarmupRuns,
          Watched, Tracked,                            \* Worker
          InitialBackoff, MaxBackoff, StableRuntime,   \* Supervisor
          Wanted,      \* the model Frigate is configured with: a member of W!Models
          MaxFaults    \* bound of the model: things that go wrong

VARIABLES
    preload, stage, hung, slot, warm, runs, msg, reply, code, health, said, accepted,
    config, state, backoff, runtime, pause, lastExit, slept, before,
    policy,    \* does the client ask about its model again after a bad answer?
    phase,     \* what the client sends next, or waits for an answer to
    waiting,   \* it has a request out
    sent,      \* that request is on its way to the worker
    stale,     \* an abandoned request on its way to the worker (bound: one), or Nothing
    asker,     \* who waits for the message that the worker serves
    got,       \* the last answer to an inference request, until the next request
    coldFits,  \* the first invocation of an interpreter meets the inference timeout
    faults     \* things that went wrong so far

W == INSTANCE Worker
S == INSTANCE Supervisor

worker == <<preload, stage, hung, slot, warm, runs, msg, reply, code, health, said, accepted>>
parent == <<config, state, backoff, runtime, pause, lastExit, slept, before>>
client == <<policy, phase, waiting, sent, stale, asker, got>>
vars == <<worker, parent, client, coldFits, faults>>

Phases == {"query", "transfer", "infer"}

\* A name stands for one model file: a pre-loaded one called like the wanted one is it.
ASSUME SystemAssumption ==
    /\ W!WorkerAssumption /\ S!SupervisorAssumption
    /\ Wanted \in W!Models /\ Wanted.name # NoName
    /\ \A p \in Preloads \ {NoModel} : p.name = Wanted.name => p = Wanted
    /\ Nothing \notin Phases /\ Nothing # W!Zeros
    /\ MaxFaults \in Nat

TypeOK ==
    /\ W!TypeOK /\ S!TypeOK
    /\ policy \in {"trusting", "vigilant"} /\ phase \in Phases
    /\ waiting \in BOOLEAN /\ sent \in BOOLEAN
    /\ stale \in Phases \cup {Nothing}
    /\ asker \in {"nobody", "client", "gone"}
    /\ got \in {W!Zeros} \cup [kind : {"detections"}, of : Blobs] \cup {Nothing}
    /\ coldFits \in BOOLEAN /\ faults \in 0 .. MaxFaults

\* Any valid configuration of a supervised process is as good.
Supervised == [backend |-> "teflon", no_delegate |-> FALSE, SUPERVISE_ENV |-> TRUE,
               WORKER_ENV |-> FALSE]

\* No worker runs yet.
Init ==
    /\ preload \in Preloads /\ stage = "exited" /\ W!Blank
    /\ S!Init /\ config = Supervised
    /\ policy \in {"trusting", "vigilant"} /\ phase = "query"
    /\ waiting = FALSE /\ sent = FALSE /\ stale = Nothing /\ asker = "nobody" /\ got = Nothing
    /\ coldFits \in BOOLEAN /\ faults = 0
-----------------------------------------------------------------------------
(***************************************************************************)
(* The client.                                                             *)
(***************************************************************************)

Message(kind) ==
    [mgmt |-> kind # "infer", name |-> Wanted.name, frames |-> IF kind = "query" THEN 1 ELSE 2,
     blob |-> Wanted.blob]

Ask ==
    /\ ~waiting
    /\ waiting' = TRUE /\ sent' = TRUE /\ got' = Nothing
    /\ UNCHANGED <<worker, parent, policy, phase, stale, asker, coldFits, faults>>

\* After a bad answer, or none, a vigilant client asks about its model again.
Doubtful == IF policy = "vigilant" THEN "query" ELSE phase

\* What an answer makes the client do next.
PhaseAfter(r) ==
    CASE r.kind = "availability" -> IF r.loaded THEN "infer" ELSE "transfer"
      [] r.kind = "transfer"     -> IF r.loaded THEN "infer" ELSE "query"
      [] r.kind = "error"        -> "query"
      [] r.kind = "detections"   -> "infer"
      [] r.kind = "zeros"        -> Doubtful

\* Only such a request can be answered: a worker is there to serve it, or it is being served.
Answerable == (sent \/ asker = "client") /\ stage \in {"recv", "handle", "send"} /\ ~hung

\* The request timeout. An answer that is merely late counts as a fault, no answer does not.
TimeOut ==
    /\ waiting
    /\ faults' = faults + (IF Answerable THEN 1 ELSE 0) /\ faults' <= MaxFaults
    /\ waiting' = FALSE /\ sent' = FALSE
    /\ stale' \in IF sent THEN {stale, phase} ELSE {stale}
    /\ asker' = IF asker = "client" THEN "gone" ELSE asker
    /\ phase' = Doubtful
    /\ UNCHANGED <<worker, parent, policy, got, coldFits>>
-----------------------------------------------------------------------------
(***************************************************************************)
(* The worker's steps, and what becomes of the client's requests.          *)
(***************************************************************************)

\* recv returns the client's request, or an abandoned one.
Deliver ==
    /\ \/ /\ sent /\ msg' = Message(phase)
          /\ sent' = FALSE /\ asker' = "client" /\ UNCHANGED stale
       \/ /\ stale # Nothing /\ msg' = Message(stale)
          /\ stale' = Nothing /\ asker' = "gone" /\ UNCHANGED sent
    /\ W!Recv
    /\ UNCHANGED <<parent, policy, phase, waiting, got, coldFits, faults>>

\* A connection that breaks takes any part of what is under way with it.
Disconnect ==
    /\ asker' = "nobody"
    /\ sent' \in {sent, FALSE}
    /\ stale' \in {stale, Nothing}

\* With a step that `goesWrong` the model's budget of faults is charged.
Charge(goesWrong) ==
    /\ faults' = faults + (IF goesWrong THEN 1 ELSE 0)
    /\ faults' <= MaxFaults

\* The main thread computes. An interpreter's first invocation meets the timeout or not.
Compute ==
    /\ W!Startup \/ W!Handle
    /\ W!Invoking /\ ~warm => coldFits
    /\ Charge(\/ stage' = "exited"
              \/ stage' = "send" /\ reply'.kind = "error"
              \/ stage' = "send" /\ reply'.kind = "zeros" /\ W!IsReady)
    /\ IF stage' = "exited" THEN Disconnect ELSE UNCHANGED <<asker, sent, stale>>
    /\ UNCHANGED <<parent, policy, phase, waiting, got, coldFits>>

\* The reply arrives, if its client still waits for it.
Reply ==
    /\ W!Send
    /\ IF asker = "client"
       THEN /\ waiting' = FALSE
            /\ phase' = PhaseAfter(reply)
            /\ got' = IF msg.mgmt THEN Nothing ELSE reply
       ELSE UNCHANGED <<waiting, phase, got>>
    /\ Charge(stage' = "exited" /\ ~(asker = "client" /\ reply.kind = "detections"))
    /\ IF stage' = "exited" THEN Disconnect ELSE asker' = "nobody" /\ UNCHANGED <<sent, stale>>
    /\ UNCHANGED <<parent, policy, coldFits>>

ReplyLost ==
    /\ W!SendFails
    /\ Charge(asker = "client")
    /\ asker' = "nobody"
    /\ UNCHANGED <<parent, policy, phase, waiting, sent, stale, got, coldFits>>

\* A call or the socket does not come back; a first invocation need not, for no fault.
GetStuck ==
    /\ W!NativeHangs \/ W!RecvWedges
    /\ Charge(~(W!Invoking /\ ~warm /\ ~coldFits))
    /\ UNCHANGED <<parent, client, coldFits>>

\* Exits that are nobody's fault but a fault's, and those that are one: a crash, a kill of a
\* call that was only late, the lifetime limit.
Die ==
    /\ W!NativeDies \/ W!WatchdogKill \/ W!ProgressExit
    /\ Charge(~hung)
    /\ Disconnect
    /\ UNCHANGED <<parent, policy, phase, waiting, got, coldFits>>

WorkerStep == Deliver \/ Compute \/ Reply \/ ReplyLost \/ GetStuck \/ Die
-----------------------------------------------------------------------------
(***************************************************************************)
(* The parent process.                                                     *)
(***************************************************************************)

StartWorker ==
    /\ S!Spawn /\ W!Restart
    /\ UNCHANGED <<client, coldFits, faults>>

\* child.wait() returns only after the child has exited.
Reap ==
    /\ stage = "exited" /\ S!WorkerExits
    /\ UNCHANGED <<worker, client, coldFits, faults>>

\* A supervisor that fails in wait leaves a worker behind, which goes on by itself.
Supervise ==
    /\ S!Decide \/ S!Fail \/ S!WakeUp \/ S!Tick
    /\ UNCHANGED <<worker, client, coldFits, faults>>

Over == state = "failed" /\ stage = "exited" /\ UNCHANGED vars

Next == Ask \/ TimeOut \/ WorkerStep \/ StartWorker \/ Reap \/ Supervise \/ Over

Spec == Init /\ [][Next]_vars

\* The client goes on asking and gives up on what can no longer be answered; requests reach
\* a worker that waits for one; the rest is the fairness of the parts.
FairSpec ==
    /\ Spec
    /\ WF_vars(Ask) /\ WF_vars(TimeOut /\ ~(sent \/ asker = "client"))
    /\ WF_vars(Deliver) /\ WF_vars(Compute) /\ WF_vars(Reply \/ ReplyLost)
    /\ WF_vars(hung /\ W!Guarded /\ Die)
    /\ WF_vars(Tracked /\ hung /\ W!Stalled /\ Die)
    /\ WF_vars(StartWorker \/ (state = "spawn" /\ S!Fail /\ Supervise)) /\ WF_vars(Reap)
    /\ WF_vars(S!Decide /\ Supervise) /\ WF_vars(S!WakeUp /\ Supervise)
    /\ WF_vars(state = "sleep" /\ S!Tick /\ Supervise)
-----------------------------------------------------------------------------
(***************************************************************************)
(* Properties.                                                             *)
(***************************************************************************)

\* Whatever a worker was told before it died, whatever of it still arrives at the next one,
\* and whatever model that one was started with: detections that Frigate takes are those of
\* the model it is configured with (protocol.rs:52-105 and 185-187, main.rs:203).
DetectionsAreOfTheRightModel ==
    got # Nothing /\ got.kind = "detections" => got.of = Wanted.blob

\* Zeros, which look like an empty image, are the answer to an inference request only after
\* something went wrong, or from a restarted worker that has no model file. Requests that
\* are abandoned while a worker starts and arrive later, transfers that are repeated, and
\* restarts of a worker that has its file never make the client infer where there is no
\* model (protocol.rs:52-105, main.rs:203).
ZerosComeOfTrouble ==
    got = W!Zeros => faults > 0 \/ (preload = NoModel /\ lastExit # "none")

\* The two ways in which the detector may stop for good: the parent gives up, or the worker
\* is stuck where neither watchdog looks.
StuckForGood == hung /\ ~W!Guarded /\ ~(Tracked /\ W!Stalled)
GivenUp == state = "failed" \/ StuckForGood

\* Faults of every kind, recycling and restarts end in detections again, if a first
\* invocation is possible at all within its timeout and the next worker gets its model
\* back: from a file, or from a client that asks about it again (README.md:34-37).
ServiceResumes ==
    /\ coldFits
    /\ preload = Wanted \/ (preload = NoModel /\ policy = "vigilant")
    => []<>(GivenUp \/ (got # Nothing /\ got.kind = "detections"))
=============================================================================
