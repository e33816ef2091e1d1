------------------------------- MODULE Worker -------------------------------
(***************************************************************************)
(* One worker process at the level of messages: startup (main.rs:80-176),  *)
(* the REP loop (main.rs:284-417), the protocol handlers (protocol.rs) and *)
(* the model the manager holds (tflite.rs). The supervisor that starts the *)
(* next worker is one action here; its pauses are in Supervisor.           *)
(*                                                                         *)
(* The thread of the loop is the only one that touches the manager, so a   *)
(* handler is one step, unless it enters native code: a native call may    *)
(* return an error, take the process down, or never come back. A call made *)
(* under run_with_process_watchdog is then ended by it (ProcessWatchdog);  *)
(* ProgressExit stands for ProgressWatchdog's exits, and `health` is what  *)
(* that watchdog has on record.                                            *)
(***************************************************************************)
EXTENDS Integers

CONSTANTS Names,        \* model names that Frigate, or a file, may use
          Blobs,        \* contents of model files
          Unknown,      \* the name "unknown", given to a message without one
          NoName,       \* model_name: None, of a file whose name is not UTF-8
          NoModel,      \* interpreter: None
          Nothing,      \* no message, no reply
          Preloads,     \* values of --model: files, or NoModel
          WarmupRuns,   \* --warmup-runs
          Watched,      \* --inference-timeout-ms > 0
          Tracked       \* --max-no-progress-secs > 0

Models == [name : Names \cup {Unknown, NoName}, blob : Blobs]

VARIABLES
    preload,   \* cli.model, the same in every life
    stage,     \* where the main thread is
    hung,      \* the native call it is in does not come back
    slot,      \* TfliteManager: model_bytes, model_name, model, interpreter
    warm,      \* the interpreter has been invoked: the delegate has compiled it
    runs,      \* warmup runs left
    msg,       \* the message being served
    reply,     \* the reply made for it
    code,      \* exit code of the process, or Nothing
    health,    \* what ProgressWatchdog has on record (RequestRecord)
    said,      \* history: what was last said to the client about a model
    accepted   \* history: blobs whose transfer was answered "model loaded"

process == <<stage, hung, code>>
manager == <<slot, warm>>
history == <<said, accepted>>
vars == <<preload, process, manager, runs, msg, reply, health, history>>

Stages == {"preload", "warmup", "bind", "recv", "handle", "send", "exited"}

\* classify_message: a first frame that is JSON with "model_request" or "model_data" is
\* management. Which of the two makes no difference, and of the frames after the second
\* nothing is read.
Messages == [mgmt : BOOLEAN, name : Names \cup {Unknown, NoName}, frames : 1 .. 2,
             blob : Blobs]

Availability(name, loaded) == [kind |-> "availability", name |-> name, loaded |-> loaded]
Transfer(name, loaded, why) ==
    [kind |-> "transfer", name |-> name, loaded |-> loaded, message |-> why]
\* The reply itself names no model: `name` is the request's, kept to say what it is about.
ModelError(name) == [kind |-> "error", name |-> name, loaded |-> FALSE]
Detections(blob) == [kind |-> "detections", of |-> blob]

\* zero_inference_reply(), and the 480 zero bytes of a failed inference.
Zeros == [kind |-> "zeros"]

NameTypes == Names \cup {Unknown, NoName}
Whys == {"model loaded", "model already loaded", "different model already loaded"}
Replies ==
    [kind : {"availability"}, name : NameTypes, loaded : BOOLEAN]
    \cup [kind : {"transfer"}, name : NameTypes, loaded : BOOLEAN, message : Whys]
    \cup [kind : {"error"}, name : NameTypes, loaded : {FALSE}]
    \cup [kind : {"detections"}, of : Blobs] \cup {Zeros}

\* The progress watchdog's record of requests.
Record == INSTANCE RequestRecord

ExitCodes == {0, 1, 70, 71, 101}

ASSUME WorkerAssumption ==
    /\ Unknown \notin Names /\ NoName \notin Names \cup {Unknown}
    /\ NoModel \notin Models /\ Nothing \notin ExitCodes
    /\ Preloads \subseteq Models \cup {NoModel}
    /\ WarmupRuns \in Nat
    /\ Watched \in BOOLEAN /\ Tracked \in BOOLEAN

TypeOK ==
    /\ preload \in Preloads
    /\ stage \in Stages /\ hung \in BOOLEAN
    /\ code \in ExitCodes \cup {Nothing}
    /\ slot \in Models \cup {NoModel} /\ warm \in BOOLEAN
    /\ runs \in 0 .. WarmupRuns
    /\ msg \in Messages \cup {Nothing}
    /\ reply \in Replies \cup {Nothing}
    /\ health \in Record!Healths
    /\ said \in {NoModel} \cup [name : NameTypes, loaded : BOOLEAN]
    /\ accepted \subseteq Blobs

NewProcess ==
    /\ stage' = "preload" /\ hung' = FALSE /\ code' = Nothing
    /\ slot' = NoModel /\ warm' = FALSE /\ runs' = WarmupRuns
    /\ msg' = Nothing /\ reply' = Nothing /\ health' = Record!NoRequests
    /\ said' = NoModel /\ accepted' = {}

\* A process that has done nothing yet.
Blank ==
    /\ hung = FALSE /\ code = Nothing
    /\ slot = NoModel /\ warm = FALSE /\ runs = WarmupRuns
    /\ msg = Nothing /\ reply = Nothing /\ health = Record!NoRequests
    /\ said = NoModel /\ accepted = {}

Init ==
    /\ preload \in Preloads
    /\ stage = "preload" /\ Blank

At(here) == stage = here /\ ~hung

Exit(c) ==
    /\ stage' = "exited" /\ code' = c /\ hung' = FALSE
    /\ UNCHANGED <<preload, manager, runs, msg, reply, health, history>>
-----------------------------------------------------------------------------
(***************************************************************************)
(* TfliteManager.                                                          *)
(***************************************************************************)

IsReady == slot # NoModel

\* Mutant: a model is as good as another.
AnyModelReady(name) == IsReady

\* Mutant: a worker without a model does not contradict.
NoOtherModelReady(name) == IsReady => slot.name = name

IsModelReady(name) == IsReady /\ slot.name = name

\* Mutant: the name and the bytes are kept before the interpreter is built.
CacheEarly(m, outcome) == slot' = m /\ warm' = FALSE

\* cache_model: all the fields are assigned after the last thing that can fail.
CacheModel(m, outcome) ==
    IF outcome = "ok" THEN slot' = m /\ warm' = FALSE ELSE UNCHANGED manager

Outcomes == {"ok", "error"}
-----------------------------------------------------------------------------
(***************************************************************************)
(* Startup.                                                                *)
(***************************************************************************)

\* fs::read and cache_model of --model. An error is fatal: main exits with code 1.
Preload ==
    /\ At("preload") /\ preload # NoModel
    /\ \E outcome \in Outcomes :
        /\ CacheModel(preload, outcome)
        /\ IF outcome = "ok"
           THEN stage' = "warmup" /\ UNCHANGED code
           ELSE stage' = "exited" /\ code' = 1
    /\ UNCHANGED <<preload, hung, runs, msg, reply, health, history>>

NoPreload ==
    /\ At("preload") /\ preload = NoModel
    /\ stage' = "warmup"
    /\ UNCHANGED <<preload, hung, code, manager, runs, msg, reply, health, history>>

\* Mutant: one warmup run too many.
WarmupOnceMore ==
    /\ At("warmup") /\ IsReady /\ runs >= 0
    /\ warm' = TRUE /\ runs' = runs - 1
    /\ UNCHANGED <<preload, process, slot, msg, reply, health, history>>

\* One warmup run under the process watchdog; the first failure ends them.
Warmup ==
    /\ At("warmup") /\ IsReady /\ runs > 0
    /\ \/ warm' = TRUE /\ runs' = runs - 1
       \/ warm' \in {warm, TRUE} /\ runs' = 0
    /\ UNCHANGED <<preload, process, slot, msg, reply, health, history>>

EndWarmup ==
    /\ At("warmup") /\ (IsReady => runs = 0)
    /\ stage' = "bind"
    /\ UNCHANGED <<preload, hung, code, manager, runs, msg, reply, health, history>>

Bind ==
    /\ At("bind")
    /\ stage' = "recv"
    /\ UNCHANGED <<preload, hung, code, manager, runs, msg, reply, health, history>>

\* load_tflite, the runtime or bind fails.
StartupFails ==
    /\ At("preload") \/ At("bind")
    /\ Exit(1)

Startup == Preload \/ NoPreload \/ Warmup \/ EndWarmup \/ Bind \/ StartupFails
-----------------------------------------------------------------------------
(***************************************************************************)
(* The REP loop. A recv that returns no message leaves everything as it is.*)
(***************************************************************************)

\* An inference request is counted and in flight (request_start), a management message
\* is not.
Recv ==
    /\ At("recv")
    /\ msg' \in Messages
    /\ health' = IF msg'.mgmt THEN health ELSE Record!Started(health)
    /\ stage' = "handle"
    /\ UNCHANGED <<preload, hung, code, manager, runs, reply, history>>

Answer(r) ==
    /\ reply' = r
    /\ stage' = "send"
    /\ UNCHANGED <<preload, hung, code, runs, msg, health, history>>

\* handle_model_request's `name`.
Called == IF msg.name = NoName THEN Unknown ELSE msg.name

\* A single frame: is this model loaded?
AnswerAvailability ==
    /\ At("handle") /\ msg.mgmt /\ msg.frames = 1
    /\ Answer(Availability(Called, IsModelReady(Called)))
    /\ UNCHANGED manager

\* Mutant: a transfer under another name replaces the model.
ReplaceModel ==
    /\ At("handle") /\ msg.mgmt /\ msg.frames = 2 /\ IsReady
    /\ slot' = [name |-> Called, blob |-> msg.blob] /\ warm' = FALSE
    /\ Answer(Transfer(Called, TRUE, "model loaded"))

\* Two frames with a model already there: the bytes are ignored, the name is compared.
IgnoreTransfer ==
    /\ At("handle") /\ msg.mgmt /\ msg.frames = 2 /\ IsReady
    /\ Answer(IF IsModelReady(Called)
              THEN Transfer(Called, TRUE, "model already loaded")
              ELSE Transfer(Called, FALSE, "different model already loaded"))
    /\ UNCHANGED manager

\* Two frames and no model: cache_model, with no watchdog around it.
AcceptTransfer ==
    /\ At("handle") /\ msg.mgmt /\ msg.frames = 2 /\ ~IsReady
    /\ \E outcome \in Outcomes :
        /\ CacheModel([name |-> Called, blob |-> msg.blob], outcome)
        /\ Answer(IF outcome = "ok"
                  THEN Transfer(Called, TRUE, "model loaded")
                  ELSE ModelError(Called))

\* Mutant: an inference without a model or a second frame is answered like a failed transfer.
InferAnswersError ==
    /\ At("handle") /\ ~msg.mgmt
    /\ \/ /\ msg.frames = 2 /\ IsReady
          /\ warm' \in {warm, TRUE}
          /\ Answer(Zeros) \/ (warm' /\ Answer(Detections(slot.blob)))
       \/ /\ msg.frames = 1 \/ ~IsReady
          /\ Answer(ModelError(Called))
          /\ UNCHANGED warm
    /\ UNCHANGED slot

\* handle_inference: zeros without a second frame, without a model, or when run fails,
\* which it does before the invoke (a wrong input size) or after.
Infer ==
    /\ At("handle") /\ ~msg.mgmt
    /\ \/ /\ msg.frames = 2 /\ IsReady
          /\ warm' = TRUE
          /\ Answer(Detections(slot.blob))
       \/ /\ msg.frames = 2 /\ IsReady
          /\ warm' \in {warm, TRUE}
          /\ Answer(Zeros)
       \/ /\ msg.frames = 1 \/ ~IsReady
          /\ Answer(Zeros)
          /\ UNCHANGED warm
    /\ UNCHANGED slot

Handle == AnswerAvailability \/ IgnoreTransfer \/ AcceptTransfer \/ Infer

AboutModel(r) == r.kind \in {"availability", "transfer", "error"}
Accepts(r) == r.kind = "transfer" /\ r.loaded /\ r.message = "model loaded"

\* socket.send succeeds, which makes an inference a success (response_ok); at max_requests
\* the process then exits with code 0.
Send ==
    /\ At("send")
    /\ said' = IF AboutModel(reply) THEN [name |-> reply.name, loaded |-> reply.loaded] ELSE said
    /\ accepted' = IF Accepts(reply) THEN accepted \cup {msg.blob} ELSE accepted
    /\ \/ stage' = "recv" /\ UNCHANGED code
       \/ ~msg.mgmt /\ stage' = "exited" /\ code' = 0
    /\ health' = IF msg.mgmt THEN health ELSE Record!Succeeded(health)
    /\ msg' = Nothing /\ reply' = Nothing
    /\ UNCHANGED <<preload, hung, manager, runs>>

\* It fails or times out: the client does not get this reply, and an inference is a failure
\* (response_err).
SendFails ==
    /\ At("send")
    /\ stage' = "recv"
    /\ health' \in IF msg.mgmt THEN {health} ELSE Record!Failed(health)
    /\ msg' = Nothing /\ reply' = Nothing
    /\ UNCHANGED <<preload, hung, code, manager, runs, history>>
-----------------------------------------------------------------------------
(***************************************************************************)
(* Native code that does not return, and the ways a process ends.          *)
(***************************************************************************)

Building == \/ stage = "preload" /\ preload # NoModel
            \/ stage = "handle" /\ msg.mgmt /\ msg.frames = 2 /\ ~IsReady
Invoking == \/ stage = "warmup" /\ IsReady /\ runs > 0
            \/ stage = "handle" /\ ~msg.mgmt /\ msg.frames = 2 /\ IsReady

\* Mutant: only the inference of a request is watched, not the warmup.
GuardedRequestsOnly == Watched /\ Invoking /\ stage = "handle"

\* run_with_process_watchdog is around warmup and run, and not around cache_model.
Guarded == Watched /\ Invoking

NativeHangs ==
    /\ ~hung /\ (Building \/ Invoking)
    /\ hung' = TRUE
    /\ UNCHANGED <<preload, stage, code, manager, runs, msg, reply, health, history>>

\* The socket gives no message, no error and no timeout any more.
RecvWedges ==
    /\ At("recv")
    /\ hung' = TRUE
    /\ UNCHANGED <<preload, stage, code, manager, runs, msg, reply, health, history>>

\* A panic (inputs[0] of a model without inputs, say) or a crash in native code.
NativeDies == ~hung /\ (Building \/ Invoking) /\ Exit(101)

WatchdogKill == Guarded /\ Exit(71)

\* health.check() fires, in the loop or in the monitor: for a stall, or for max_lifetime.
ProgressExit == stage \in {"recv", "handle", "send"} /\ Exit(70)

Stalled == Record!Stalled(health)

\* The monitor's thread is not the one that is stuck.
StallExit == Tracked /\ hung /\ Stalled /\ ProgressExit

\* A call that is never ended: nothing else happens in this process.
Hanging == hung /\ UNCHANGED vars

\* The supervisor starts the next worker.
Restart ==
    /\ stage = "exited"
    /\ NewProcess
    /\ UNCHANGED preload

Next == \/ Startup \/ Recv \/ Handle \/ Send \/ SendFails
        \/ NativeHangs \/ RecvWedges \/ NativeDies \/ WatchdogKill \/ ProgressExit
        \/ Hanging \/ Restart

Spec == Init /\ [][Next]_vars

\* The main thread runs, a guarded call that hangs is killed (ProcessWatchdog's
\* HungCallIsKilled), a stall that lasts is found by the monitor (ProgressWatchdog's
\* StallIsCaught), the supervisor restarts.
FairSpec == /\ Spec
            /\ WF_vars(Startup \/ Handle \/ Send \/ SendFails)
            /\ WF_vars(hung /\ WatchdogKill)
            /\ WF_vars(StallExit)
            /\ WF_vars(Restart)
-----------------------------------------------------------------------------
(***************************************************************************)
(* Properties.                                                             *)
(***************************************************************************)

MS == INSTANCE ModelSlot

\* To the client the worker is a write-once slot whose state it reports truthfully:
\* errors while building, ignored transfers, lost replies and restarts included.
ImplementsModelSlot == MS!Spec

\* A model whose transfer was answered "model loaded" is the one that every later
\* inference of this process runs on, whatever transfers and errors follow.
ServesWhatItAccepted ==
    stage = "send" /\ reply.kind = "detections" =>
        \A blob \in accepted : reply.of = blob

\* A main thread that is stuck for good, in native code or in the socket, ends with a new
\* worker, if it is in a call that the process watchdog is put around, or if the progress
\* watchdog has a request on record that no success has followed.
StuckWorkerIsReplaced ==
    hung /\ ((Watched /\ Invoking) \/ (Tracked /\ Stalled)) ~> stage = "preload"
-----------------------------------------------------------------------------
(***************************************************************************)
(* What the documentation says and the code does not do.                   *)
(***************************************************************************)

\* README.md:63: "inference timeouts to recover from native runtime hangs".
HangIsRecovered == hung /\ (Building \/ Invoking) ~> ~hung

\* cli.rs:59-60: max_no_progress_secs "Protects against wedged ZMQ recv".
WedgedRecvIsRecovered == Tracked /\ hung /\ stage = "recv" ~> ~hung

\* README.md:284-286: warmup invokes the interpreter that a transfer or the pre-load
\* built, "so delegate graph compilation happens before the first Frigate detection
\* request".
RequestsRunOnWarmModel ==
    WarmupRuns > 0 /\ stage = "handle" /\ Invoking => warm

\* README.md:219-220 and 233: {"model_request": true}, which names no model, is answered
\* with whether the model is loaded.
DocumentedQueryIsTruthful ==
    stage = "send" /\ reply.kind = "availability" /\ msg.name = NoName =>
        (reply.loaded <=> IsReady)
=============================================================================
