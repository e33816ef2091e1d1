---------------------------- MODULE SystemProofs ----------------------------
(***************************************************************************)
(* Proofs about the composition, for all models, pre-loads, limits and     *)
(* numbers of faults.                                                      *)
(*                                                                         *)
(* First: the client takes no detections of another model. A worker that   *)
(* serves either was started with another model, holds that one for life,  *)
(* and denies the wanted one to a client that therefore never asks for an  *)
(* inference; or it holds the wanted model or none. Which of the two it    *)
(* is, is the same in every life.                                          *)
(*                                                                         *)
(* Then: every behaviour of the composition is one of Supervisor and one   *)
(* of Worker, so that their theorems hold of it; every variable keeps its  *)
(* type; and the client gets zeros only when something went wrong, or from *)
(* a restarted worker without a model file.                                *)
(***************************************************************************)
EXTENDS System, TLAPS

\* The workers start without a model file, or with the wanted one.
Right == preload \in {NoModel, Wanted}

SlotInv ==
    /\ preload \in Preloads
    /\ stage = "preload" => slot = NoModel
    /\ Right => slot \in {NoModel, Wanted}
    /\ stage \in {"warmup", "bind"} => slot = preload
    /\ ~Right /\ stage \in {"recv", "handle", "send"} => slot = preload

MsgInv ==
    stage \in {"handle", "send"} =>
        \E kind \in Phases : msg = Message(kind) /\ (~Right => kind # "infer")

Kinds == {"availability", "transfer", "error", "detections", "zeros"}

ReplyInv ==
    stage = "send" =>
        IF Right
        THEN reply.kind \in Kinds /\ (reply.kind = "detections" => reply.of = Wanted.blob)
        ELSE reply.kind \in {"availability", "transfer", "error"} /\ reply.loaded = FALSE

ClientInv ==
    /\ phase \in Phases /\ stale \in Phases \cup {Nothing}
    /\ ~Right => phase # "infer" /\ stale # "infer"

GotInv ==
    IF Right THEN got # Nothing /\ got.kind = "detections" => got.of = Wanted.blob
    ELSE got = Nothing

IInv == SlotInv /\ MsgInv /\ ReplyInv /\ ClientInv /\ GotInv
-----------------------------------------------------------------------------
\* Every message of the client is about the wanted model and its file.
LEMMA MessageIs ==
    ASSUME NEW kind \in Phases
    PROVE  /\ Message(kind).mgmt = (kind # "infer")
           /\ Message(kind).name = Wanted.name
           /\ Message(kind).blob = Wanted.blob
  BY DEF Message

\* A model is no more than its name and its bytes.
LEMMA WantedIs == Wanted = [name |-> Wanted.name, blob |-> Wanted.blob]
  BY SystemAssumption DEF W!Models

\* What a worker in the main part of its life holds decides what it knows and serves.
LEMMA OtherModelIsDenied ==
    ASSUME SlotInv, ~Right, stage \in {"recv", "handle", "send"}
    PROVE  slot # NoModel /\ slot.name # Wanted.name
  BY SystemAssumption DEF SlotInv, Right

\* The replies that do not depend on strings of the program say what they are.
LEMMA RepliesSay ==
    /\ \A n, l : /\ W!Availability(n, l).kind = "availability"
                 /\ W!Availability(n, l).loaded = l
    /\ W!Zeros.kind = "zeros"
    /\ \A b : W!Detections(b).kind = "detections" /\ W!Detections(b).of = b
  BY DEF W!Availability, W!Zeros, W!Detections
-----------------------------------------------------------------------------
(***************************************************************************)
(* The client's steps.                                                     *)
(***************************************************************************)

LEMMA AskStep ==
    ASSUME IInv, Ask
    PROVE  IInv'
  <1>1. SlotInv' /\ MsgInv' /\ ReplyInv' /\ ClientInv'
    BY DEF IInv, Ask, worker, SlotInv, MsgInv, ReplyInv, ClientInv, Right, Message
  <1>2. GotInv'
    BY DEF IInv, Ask, worker, GotInv, Right
  <1> QED  BY <1>1, <1>2 DEF IInv

LEMMA TimeOutStep ==
    ASSUME IInv, TimeOut
    PROVE  IInv'
  <1>1. SlotInv' /\ MsgInv' /\ ReplyInv' /\ GotInv'
    BY DEF IInv, TimeOut, worker, SlotInv, MsgInv, ReplyInv, GotInv, Right, Message
  <1>2. ClientInv'
    BY DEF IInv, TimeOut, worker, ClientInv, Right, Doubtful, Phases
  <1> QED  BY <1>1, <1>2 DEF IInv
-----------------------------------------------------------------------------
(***************************************************************************)
(* The worker's steps.                                                     *)
(***************************************************************************)

LEMMA DeliverStep ==
    ASSUME IInv, Deliver
    PROVE  IInv'
  <1>1. stage = "recv" /\ stage' = "handle"
    BY DEF Deliver, W!Recv, W!At
  <1>2. UNCHANGED <<preload, slot, got, phase>>
    BY DEF Deliver, W!Recv, W!manager
  <1>3. SlotInv' /\ ReplyInv' /\ GotInv'
    BY <1>1, <1>2 DEF IInv, SlotInv, ReplyInv, GotInv, Right
  <1>4. MsgInv' /\ ClientInv'
    <2>1. CASE sent /\ msg' = Message(phase) /\ UNCHANGED stale
      BY <1>2, <2>1 DEF IInv, MsgInv, ClientInv, Right, Message
    <2>2. CASE stale # Nothing /\ msg' = Message(stale) /\ stale' = Nothing
      <3>1. stale \in Phases
        BY <2>2 DEF IInv, ClientInv
      <3>2. ClientInv'
        BY <1>2, <2>2, SystemAssumption DEF Phases, IInv, ClientInv, Right
      <3> QED  BY <1>2, <2>2, <3>1, <3>2 DEF IInv, MsgInv, ClientInv, Right, Message
    <2> QED  BY <2>1, <2>2 DEF Deliver
  <1> QED  BY <1>3, <1>4 DEF IInv

\* A process that ends keeps its slot to itself, and the client learns nothing from it.
LEMMA ExitStep ==
    ASSUME IInv, UNCHANGED <<preload, slot, phase, got>>, stage' = "exited",
           stale' \in {stale, Nothing}
    PROVE  IInv'
  <1>1. SlotInv' /\ MsgInv' /\ ReplyInv' /\ GotInv'
    BY DEF IInv, SlotInv, MsgInv, ReplyInv, GotInv, Right
  <1>2. ClientInv'
    BY SystemAssumption DEF Phases, IInv, ClientInv, Right
  <1> QED  BY <1>1, <1>2 DEF IInv

\* Steps of the main thread leave what the client knows alone.
LEMMA ClientUntouched ==
    ASSUME IInv, UNCHANGED <<preload, phase, got>>, stale' \in {stale, Nothing}
    PROVE  ClientInv' /\ GotInv'
  BY SystemAssumption DEF Phases, IInv, ClientInv, GotInv, Right

LEMMA StartupStep ==
    ASSUME IInv, W!Startup, UNCHANGED <<phase, got>>, stale' \in {stale, Nothing}
    PROVE  IInv'
  <1>1. CASE W!Preload \/ W!NoPreload
    <2>1. UNCHANGED preload /\ slot = NoModel
      BY <1>1 DEF IInv, SlotInv, W!Preload, W!NoPreload, W!At
    <2>2. \/ stage' = "warmup" /\ slot' = preload
          \/ stage' = "exited" /\ slot' = slot
      BY <1>1, <2>1 DEF W!Preload, W!NoPreload, W!At, W!CacheModel, W!manager, W!Outcomes
    <2>3. SlotInv' /\ MsgInv' /\ ReplyInv'
      BY <2>1, <2>2 DEF IInv, SlotInv, MsgInv, ReplyInv, Right
    <2> QED  BY <2>1, <2>3, ClientUntouched DEF IInv
  <1>2. CASE W!Warmup \/ W!EndWarmup \/ W!Bind
    <2>1. UNCHANGED <<preload, slot>>
      BY <1>2 DEF W!Warmup, W!EndWarmup, W!Bind, W!manager
    <2>2. \/ stage \in {"warmup", "bind"} /\ stage' \in {"warmup", "bind"}
          \/ stage = "bind" /\ stage' = "recv"
      BY <1>2 DEF W!Warmup, W!EndWarmup, W!Bind, W!At, W!process
    <2>3. SlotInv' /\ MsgInv' /\ ReplyInv'
      BY <2>1, <2>2 DEF IInv, SlotInv, MsgInv, ReplyInv, Right
    <2> QED  BY <2>1, <2>3, ClientUntouched DEF IInv
  <1>3. CASE W!StartupFails
    BY <1>3, ExitStep DEF W!StartupFails, W!Exit, W!manager
  <1> QED  BY <1>1, <1>2, <1>3 DEF W!Startup

\* What a handler makes of the client's message: a reply that is true of the slot.
LEMMA HandleStep ==
    ASSUME IInv, W!Handle, UNCHANGED <<phase, got>>, stale' \in {stale, Nothing}
    PROVE  IInv'
  <1>1. stage = "handle" /\ stage' = "send" /\ UNCHANGED <<preload, msg>>
    BY DEF W!Handle, W!AnswerAvailability, W!IgnoreTransfer, W!AcceptTransfer, W!Infer,
           W!Answer, W!At
  <1>2. PICK kind \in Phases : msg = Message(kind) /\ (~Right => kind # "infer")
    BY <1>1 DEF IInv, MsgInv
  <1>3. MsgInv'
    BY <1>1, <1>2 DEF MsgInv, Right, Message
  <1>4. W!Called = Wanted.name /\ msg.blob = Wanted.blob /\ msg.mgmt = (kind # "infer")
    BY <1>2, MessageIs, SystemAssumption DEF W!Called
  <1>5. ASSUME ~Right PROVE SlotInv' /\ ReplyInv'
    <2>1. slot # NoModel /\ slot.name # Wanted.name /\ slot = preload /\ msg.mgmt
      BY <1>1, <1>2, <1>4, <1>5, OtherModelIsDenied DEF IInv, SlotInv
    <2>2. W!AnswerAvailability \/ W!IgnoreTransfer
      BY <2>1 DEF W!Handle, W!AcceptTransfer, W!Infer, W!IsReady
    <2>3. UNCHANGED slot
      BY <2>2 DEF W!AnswerAvailability, W!IgnoreTransfer, W!manager
    <2>4. ~W!IsModelReady(W!Called)
      BY <1>4, <2>1 DEF W!IsModelReady
    <2>5. reply'.kind \in {"availability", "transfer"} /\ reply'.loaded = FALSE
      <3>1. CASE W!AnswerAvailability
        <4>1. reply' = W!Availability(W!Called, W!IsModelReady(W!Called))
          BY <3>1 DEF W!AnswerAvailability, W!Answer
        <4>2. W!IsModelReady(W!Called) = FALSE
          BY <2>4 DEF W!IsModelReady
        <4> QED  BY <4>1, <4>2, RepliesSay
      <3>2. CASE W!IgnoreTransfer
        <4>1. \E why : reply' = W!Transfer(W!Called, FALSE, why)
          BY <2>4, <3>2, Zenon DEF W!IgnoreTransfer, W!Answer
        <4> QED  BY <4>1 DEF W!Transfer
      <3> QED  BY <2>2, <3>1, <3>2
    <2> QED  BY <1>1, <1>5, <2>1, <2>3, <2>5 DEF IInv, SlotInv, ReplyInv, Right
  <1>6. ASSUME Right PROVE SlotInv' /\ ReplyInv'
    <2>1. slot \in {NoModel, Wanted} /\ slot' \in {NoModel, Wanted}
      <3>1. CASE W!AcceptTransfer
        BY <1>4, <1>6, <3>1, WantedIs
        DEF IInv, SlotInv, W!AcceptTransfer, W!CacheModel, W!manager
      <3>2. CASE W!AnswerAvailability \/ W!IgnoreTransfer \/ W!Infer
        BY <1>6, <3>2
        DEF IInv, SlotInv, W!AnswerAvailability, W!IgnoreTransfer, W!Infer, W!manager
      <3> QED  BY <3>1, <3>2 DEF W!Handle
    <2>2. reply'.kind \in Kinds /\ (reply'.kind = "detections" => reply'.of = Wanted.blob)
      <3> USE DEF Kinds
      <3>1. CASE W!AnswerAvailability
        <4>1. reply' = W!Availability(W!Called, W!IsModelReady(W!Called))
          BY <3>1 DEF W!AnswerAvailability, W!Answer
        <4> QED  BY <4>1, RepliesSay
      <3>2. CASE W!IgnoreTransfer
        <4>1. \E loaded, why : reply' = W!Transfer(W!Called, loaded, why)
          BY <3>2, Zenon DEF W!IgnoreTransfer, W!Answer
        <4> QED  BY <4>1 DEF W!Transfer
      <3>3. CASE W!AcceptTransfer
        <4>1. \/ \E loaded, why : reply' = W!Transfer(W!Called, loaded, why)
              \/ reply' = W!ModelError(W!Called)
          BY <3>3, Zenon DEF W!AcceptTransfer, W!Answer
        <4> QED  BY <4>1 DEF W!Transfer, W!ModelError
      <3>4. CASE W!Infer
        <4>1. reply' = W!Zeros \/ (W!IsReady /\ reply' = W!Detections(slot.blob))
          BY <3>4 DEF W!Infer, W!Answer
        <4> QED  BY <2>1, <4>1, RepliesSay DEF W!IsReady
      <3> QED  BY <3>1, <3>2, <3>3, <3>4 DEF W!Handle
    <2> QED  BY <1>1, <1>6, <2>1, <2>2 DEF IInv, SlotInv, ReplyInv, Right
  <1> QED  BY <1>1, <1>3, <1>5, <1>6, ClientUntouched DEF IInv

LEMMA ComputeStep ==
    ASSUME IInv, Compute
    PROVE  IInv'
  <1>1. UNCHANGED <<phase, got>> /\ stale' \in {stale, Nothing}
    BY DEF Compute, Disconnect
  <1> QED  BY <1>1, StartupStep, HandleStep DEF Compute

\* A reply that arrives tells the client no more than is true of the slot.
LEMMA ReplyStep ==
    ASSUME IInv, Reply
    PROVE  IInv'
  <1>1. /\ stage = "send" /\ stage' \in {"recv", "exited"}
        /\ UNCHANGED <<preload, slot>>
        /\ stale' \in {stale, Nothing}
    BY DEF Reply, Disconnect, W!Send, W!At, W!manager
  <1>2. SlotInv' /\ MsgInv' /\ ReplyInv'
    BY <1>1 DEF IInv, SlotInv, MsgInv, ReplyInv, Right
  <1>3. CASE asker = "client"
    <2>1. phase' = PhaseAfter(reply) /\ got' = IF msg.mgmt THEN Nothing ELSE reply
      BY <1>3 DEF Reply
    <2>2. CASE Right
      <3>1. PhaseAfter(reply) \in Phases
        BY <1>1, <2>2 DEF IInv, ReplyInv, ClientInv, PhaseAfter, Kinds, Doubtful, Phases
      <3> QED  BY <1>1, <1>2, <2>1, <2>2, <3>1
               DEF IInv, ReplyInv, ClientInv, GotInv, Right
    <2>3. CASE ~Right
      <3>1. msg.mgmt
        BY <1>1, <2>3, MessageIs DEF IInv, MsgInv
      <3>2. PhaseAfter(reply) \in {"query", "transfer"}
        BY <1>1, <2>3 DEF IInv, ReplyInv, PhaseAfter
      <3>3. ClientInv'
        BY <1>1, <2>1, <2>3, <3>2, SystemAssumption DEF Phases, IInv, ClientInv, Right
      <3> QED  BY <1>1, <1>2, <2>1, <2>3, <3>1, <3>3 DEF IInv, GotInv, Right
    <2> QED  BY <2>2, <2>3
  <1>4. CASE asker # "client"
    <2>1. UNCHANGED <<phase, got>>
      BY <1>4 DEF Reply
    <2> QED  BY <1>1, <1>2, <2>1, ClientUntouched DEF IInv
  <1> QED  BY <1>3, <1>4

LEMMA ReplyLostStep ==
    ASSUME IInv, ReplyLost
    PROVE  IInv'
  <1>1. stage = "send" /\ stage' = "recv" /\ UNCHANGED <<preload, slot, phase, got, stale>>
    BY DEF ReplyLost, W!SendFails, W!At, W!manager
  <1>2. SlotInv' /\ MsgInv' /\ ReplyInv'
    BY <1>1 DEF IInv, SlotInv, MsgInv, ReplyInv, Right
  <1> QED  BY <1>1, <1>2, ClientUntouched DEF IInv

\* Steps that leave alone everything the invariant is about.
LEMMA Elsewhere ==
    ASSUME IInv, UNCHANGED <<preload, stage, slot, msg, reply, phase, stale, got>>
    PROVE  IInv'
  BY DEF IInv, SlotInv, MsgInv, ReplyInv, ClientInv, GotInv, Right, Message

LEMMA WorkerStepKeeps ==
    ASSUME IInv, WorkerStep
    PROVE  IInv'
  <1>1. CASE GetStuck
    <2>1. UNCHANGED <<preload, stage, slot, msg, reply, phase, stale, got>>
      BY <1>1 DEF GetStuck, client, W!NativeHangs, W!RecvWedges, W!manager
    <2> QED  BY <2>1, Elsewhere
  <1>2. CASE Die
    <2>1. stage' = "exited" /\ UNCHANGED <<preload, slot, phase, got>>
      BY <1>2 DEF Die, W!NativeDies, W!WatchdogKill, W!ProgressExit, W!Exit, W!manager
    <2>2. stale' \in {stale, Nothing}
      BY <1>2 DEF Die, Disconnect
    <2> QED  BY <2>1, <2>2, ExitStep
  <1> QED
    BY <1>1, <1>2, DeliverStep, ComputeStep, ReplyStep, ReplyLostStep DEF WorkerStep
-----------------------------------------------------------------------------
(***************************************************************************)
(* The parent's steps, and the theorem.                                    *)
(***************************************************************************)

\* A new worker has the same pre-load and an empty slot.
LEMMA StartWorkerStep ==
    ASSUME IInv, StartWorker
    PROVE  IInv'
  <1>1. stage' = "preload" /\ slot' = NoModel /\ UNCHANGED <<preload, phase, stale, got>>
    BY DEF StartWorker, client, W!Restart, W!NewProcess
  <1>2. SlotInv' /\ MsgInv' /\ ReplyInv'
    BY <1>1 DEF IInv, SlotInv, MsgInv, ReplyInv, Right
  <1> QED  BY <1>1, <1>2, ClientUntouched DEF IInv

LEMMA InitKeeps == Init => IInv
  <1> SUFFICES ASSUME Init PROVE IInv
    OBVIOUS
  <1>1. stage = "exited" /\ slot = NoModel /\ preload \in Preloads
    BY DEF Init, W!Blank
  <1>2. phase = "query" /\ stale = Nothing /\ got = Nothing
    BY DEF Init
  <1> QED
    BY <1>1, <1>2, SystemAssumption
    DEF IInv, SlotInv, MsgInv, ReplyInv, ClientInv, GotInv, Right, Phases

LEMMA StepKeeps == IInv /\ [Next]_vars => IInv'
  <1> SUFFICES ASSUME IInv, [Next]_vars PROVE IInv'
    OBVIOUS
  <1>1. CASE Reap \/ Supervise \/ Over \/ UNCHANGED vars
    <2>1. UNCHANGED <<preload, stage, slot, msg, reply, phase, stale, got>>
      BY <1>1 DEF Reap, Supervise, Over, vars, worker, client
    <2> QED  BY <2>1, Elsewhere
  <1> QED
    BY <1>1, AskStep, TimeOutStep, WorkerStepKeeps, StartWorkerStep DEF Next

\* What the client asks for, what it is told and what the worker holds agree in every
\* reachable state, across faults and restarts (main.rs:199-226, protocol.rs:52-105).
THEOREM SystemInvHolds == Spec => []IInv
  <1>1. Init => IInv
    BY InitKeeps
  <1>2. IInv /\ [Next]_vars => IInv'
    BY StepKeeps
  <1> QED  BY <1>1, <1>2, PTL DEF Spec

\* Whatever goes wrong, however often, and whatever is still on its way to the next
\* worker: detections that the client takes are of the model that it wants.
THEOREM DetectionsOfTheRightModel == Spec => []DetectionsAreOfTheRightModel
  <1>1. IInv => DetectionsAreOfTheRightModel
    BY DEF IInv, GotInv, DetectionsAreOfTheRightModel
  <1> QED  BY <1>1, SystemInvHolds, PTL
-----------------------------------------------------------------------------
(***************************************************************************)
(* The parent in the composition behaves as it does by itself.             *)
(***************************************************************************)

SP == INSTANCE SupervisorProofs

LEMMA SupervisorAssumed == SP!SupervisorAssumption
  BY SystemAssumption DEF S!SupervisorAssumption, SP!SupervisorAssumption

\* Every behaviour of the composition is one of the supervisor's (main.rs:189-227), so that
\* what is proved of the supervisor with an arbitrary worker holds of it with this one.
THEOREM SystemRunsTheSupervisor == Spec => S!Spec
  <1>1. Init => S!Init
    BY DEF Init
  <1>2. [Next]_vars => [S!Next]_(S!vars)
    <2> SUFFICES ASSUME [Next]_vars PROVE [S!Next]_(S!vars)
      OBVIOUS
    <2> USE DEF S!vars, S!local, S!history, parent
    <2>1. CASE Ask \/ TimeOut \/ Over \/ UNCHANGED vars
      BY <2>1 DEF Ask, TimeOut, Over, vars
    <2>2. CASE WorkerStep
      BY <2>2 DEF WorkerStep, Deliver, Compute, Reply, ReplyLost, GetStuck, Die
    <2>3. CASE StartWorker \/ Reap \/ Supervise
      BY <2>3 DEF StartWorker, Reap, Supervise, S!Next
    <2> QED  BY <2>1, <2>2, <2>3 DEF Next
  <1> QED  BY <1>1, <1>2, PTL DEF Spec, S!Spec

LEMMA OneSupervisor == S!Spec => SP!Spec
  <1>1. S!Init => SP!Init
    BY DEF S!Init, SP!Init, S!Configs, SP!Configs
  <1>2. [S!Next]_(S!vars) => [SP!Next]_(SP!vars)
    BY DEF S!Next, SP!Next, S!vars, SP!vars, S!local, SP!local, S!history, SP!history,
           S!Decide, SP!Decide, S!Spawn, SP!Spawn, S!Fail, SP!Fail, S!WakeUp, SP!WakeUp,
           S!WorkerExits, SP!WorkerExits, S!Tick, SP!Tick, S!Over, SP!Over,
           S!LongRun, SP!LongRun, S!QuickRun, SP!QuickRun, S!Doubled, SP!Doubled,
           S!Shorter, SP!Shorter, S!IsValid, SP!IsValid, S!Supervises, SP!Supervises
  <1> QED  BY <1>1, <1>2, PTL DEF S!Spec, SP!Spec

\* A worker is started again only after the pause owed (main.rs:216-225), with the worker
\* and the client of this composition.
THEOREM SystemRestartsAreSpacedOut == Spec => []S!RestartsAreSpacedOut
  <1>1. SP!RestartsAreSpacedOut => S!RestartsAreSpacedOut
    BY DEF S!RestartsAreSpacedOut, SP!RestartsAreSpacedOut, S!PauseOwed, SP!PauseOwed,
           S!Shorter, SP!Shorter
  <1>2. SP!Spec => []SP!RestartsAreSpacedOut
    BY SP!RestartsSpacedOut, SupervisorAssumed
  <1> QED  BY <1>1, <1>2, SystemRunsTheSupervisor, OneSupervisor, PTL
-----------------------------------------------------------------------------
(***************************************************************************)
(* So does the worker, whose first life begins with the composition's.     *)
(***************************************************************************)

\* Until the first worker is started there is none, and its state is that of a worker which
\* has not done anything yet.
Life == IF stage = "exited" /\ code = Nothing THEN "preload" ELSE stage

WP == INSTANCE WorkerProofs WITH stage <- Life

\* Nothing is left over from before the first worker.
LifeInv == stage = "exited" /\ code = Nothing => W!Blank

LEMMA WorkerAssumed == WP!WorkerAssumption
  BY SystemAssumption
  DEF W!WorkerAssumption, WP!WorkerAssumption, W!Models, WP!Models, W!ExitCodes, WP!ExitCodes

LEMMA ExitCodesAre == Nothing \notin {0, 1, 70, 71, 101}
  BY SystemAssumption DEF W!WorkerAssumption, W!ExitCodes

\* A step of a running worker: it is in the stage it seems to be in, and if the step ends
\* the process, it is with an exit code.
LEMMA RunningWorker ==
    ASSUME \/ W!Startup \/ W!Recv \/ W!Handle \/ W!Send \/ W!SendFails
           \/ W!NativeHangs \/ W!RecvWedges \/ W!NativeDies \/ W!WatchdogKill
           \/ W!ProgressExit
    PROVE  /\ Life = stage /\ Life' = stage' /\ stage # "exited"
           /\ stage' = "exited" => code' # Nothing
  <1>1. stage # "exited"
    BY DEF W!Startup, W!Preload, W!NoPreload, W!Warmup, W!EndWarmup, W!Bind, W!StartupFails,
           W!Recv, W!Handle, W!AnswerAvailability, W!IgnoreTransfer, W!AcceptTransfer,
           W!Infer, W!Send, W!SendFails, W!NativeHangs, W!RecvWedges, W!NativeDies,
           W!WatchdogKill, W!ProgressExit, W!At, W!Building, W!Invoking, W!Guarded
  <1>2. stage' = "exited" => code' # Nothing
    <2>1. CASE W!Startup
      BY <1>1, <2>1, ExitCodesAre
      DEF W!Startup, W!Preload, W!NoPreload, W!Warmup, W!EndWarmup, W!Bind, W!StartupFails,
          W!Exit, W!process
    <2>2. CASE W!Recv \/ W!Handle \/ W!Send \/ W!SendFails
      BY <1>1, <2>2, ExitCodesAre
      DEF W!Recv, W!Handle, W!AnswerAvailability, W!IgnoreTransfer, W!AcceptTransfer,
          W!Infer, W!Answer, W!Send, W!SendFails
    <2>3. CASE W!NativeHangs \/ W!RecvWedges \/ W!NativeDies \/ W!WatchdogKill \/ W!ProgressExit
      BY <1>1, <2>3, ExitCodesAre
      DEF W!NativeHangs, W!RecvWedges, W!NativeDies, W!WatchdogKill, W!ProgressExit, W!Exit
    <2> QED  BY <2>1, <2>2, <2>3
  <1> QED  BY <1>1, <1>2 DEF Life

\* The worker's operators are the same, whatever the stage is called.
LEMMA SameOperators ==
    /\ W!Models = WP!Models /\ W!Messages = WP!Messages /\ W!Outcomes = WP!Outcomes
    /\ W!Called = WP!Called /\ W!IsReady = WP!IsReady
    /\ \A n : W!IsModelReady(n) = WP!IsModelReady(n)
    /\ W!Zeros = WP!Zeros /\ \A b : W!Detections(b) = WP!Detections(b)
    /\ \A n, l : W!Availability(n, l) = WP!Availability(n, l)
    /\ \A n, l, w : W!Transfer(n, l, w) = WP!Transfer(n, l, w)
    /\ \A n : W!ModelError(n) = WP!ModelError(n)
  BY DEF W!Models, WP!Models, W!Messages, WP!Messages, W!Outcomes, WP!Outcomes,
         W!Called, WP!Called, W!IsReady, WP!IsReady, W!IsModelReady, WP!IsModelReady,
         W!Zeros, WP!Zeros, W!Detections, WP!Detections, W!Availability, WP!Availability,
         W!Transfer, WP!Transfer, W!ModelError, WP!ModelError

LEMMA SameRecord ==
    /\ W!Record!NoRequests = WP!Record!NoRequests
    /\ \A h : /\ W!Record!Started(h) = WP!Record!Started(h)
              /\ W!Record!Succeeded(h) = WP!Record!Succeeded(h)
              /\ W!Record!Failed(h) = WP!Record!Failed(h)
  BY DEF W!Record!NoRequests, WP!Record!NoRequests, W!Record!Started, WP!Record!Started,
         W!Record!Succeeded, WP!Record!Succeeded, W!Record!Failed, WP!Record!Failed

LEMMA SameStartup == W!Startup => WP!Startup
  <1> SUFFICES ASSUME W!Startup PROVE WP!Startup
    OBVIOUS
  <1>1. Life = stage /\ Life' = stage'
    BY RunningWorker
  <1> USE DEF W!At, WP!At, W!manager, WP!manager, W!history, WP!history, W!process,
              WP!process, W!Exit, WP!Exit
  <1>2. CASE W!Preload
    <2>1. \A m, o : W!CacheModel(m, o) <=> WP!CacheModel(m, o)
      BY DEF W!CacheModel, WP!CacheModel
    <2>2. WP!Preload
      BY <1>1, <1>2, <2>1, SameOperators DEF W!Preload, WP!Preload
    <2> QED  BY <2>2 DEF WP!Startup
  <1>3. CASE W!Warmup
    BY <1>1, <1>3, SameOperators DEF W!Warmup, WP!Warmup, WP!Startup
  <1>4. CASE W!NoPreload \/ W!EndWarmup \/ W!Bind \/ W!StartupFails
    BY <1>1, <1>4, SameOperators
    DEF W!NoPreload, WP!NoPreload, W!EndWarmup, WP!EndWarmup, W!Bind, WP!Bind,
        W!StartupFails, WP!StartupFails, WP!Startup
  <1> QED  BY <1>2, <1>3, <1>4 DEF W!Startup

LEMMA SameHandle == W!Handle => WP!Handle
  <1> SUFFICES ASSUME W!Handle PROVE WP!Handle
    OBVIOUS
  <1>1. Life = stage /\ Life' = stage'
    BY RunningWorker
  <1> USE DEF W!At, WP!At, W!manager, WP!manager, W!history, WP!history
  <1>2. \A r : W!Answer(r) => WP!Answer(r)
    BY <1>1 DEF W!Answer, WP!Answer
  <1>3. CASE W!AnswerAvailability
    BY <1>1, <1>2, <1>3, SameOperators
    DEF W!AnswerAvailability, WP!AnswerAvailability, WP!Handle
  <1>4. CASE W!IgnoreTransfer
    BY <1>1, <1>2, <1>4, SameOperators DEF W!IgnoreTransfer, WP!IgnoreTransfer, WP!Handle
  <1>5. CASE W!AcceptTransfer
    <2>1. \A m, o : W!CacheModel(m, o) <=> WP!CacheModel(m, o)
      BY DEF W!CacheModel, WP!CacheModel
    <2>2. WP!AcceptTransfer
      BY <1>1, <1>2, <1>5, <2>1, SameOperators DEF W!AcceptTransfer, WP!AcceptTransfer
    <2> QED  BY <2>2 DEF WP!Handle
  <1>6. CASE W!Infer
    BY <1>1, <1>2, <1>6, SameOperators DEF W!Infer, WP!Infer, WP!Handle
  <1> QED  BY <1>3, <1>4, <1>5, <1>6 DEF W!Handle

LEMMA SameLoop ==
    /\ W!Recv => WP!Recv
    /\ W!Send => WP!Send
    /\ W!SendFails => WP!SendFails
  <1> USE DEF W!At, WP!At, W!manager, WP!manager, W!history, WP!history
  <1>1. ASSUME W!Recv PROVE WP!Recv
    BY <1>1, RunningWorker, SameOperators, SameRecord DEF W!Recv, WP!Recv
  <1>2. ASSUME W!Send PROVE WP!Send
    BY <1>2, RunningWorker, SameRecord
    DEF W!Send, WP!Send, W!AboutModel, WP!AboutModel, W!Accepts, WP!Accepts
  <1>3. ASSUME W!SendFails PROVE WP!SendFails
    BY <1>3, RunningWorker, SameRecord DEF W!SendFails, WP!SendFails
  <1> QED  BY <1>1, <1>2, <1>3

LEMMA SameEnd ==
    /\ W!NativeHangs \/ W!RecvWedges => WP!NativeHangs \/ WP!RecvWedges
    /\ W!NativeDies \/ W!WatchdogKill \/ W!ProgressExit
       => WP!NativeDies \/ WP!WatchdogKill \/ WP!ProgressExit
  <1> USE SameOperators
      DEF W!At, WP!At, W!manager, WP!manager, W!history, WP!history, W!Building, WP!Building,
          W!Invoking, WP!Invoking, W!Guarded, WP!Guarded, W!Exit, WP!Exit
  <1>1. W!NativeHangs \/ W!RecvWedges => WP!NativeHangs \/ WP!RecvWedges
    BY RunningWorker DEF W!NativeHangs, WP!NativeHangs, W!RecvWedges, WP!RecvWedges
  <1>2. W!NativeDies \/ W!WatchdogKill \/ W!ProgressExit
        => WP!NativeDies \/ WP!WatchdogKill \/ WP!ProgressExit
    BY RunningWorker
    DEF W!NativeDies, WP!NativeDies, W!WatchdogKill, WP!WatchdogKill, W!ProgressExit,
        WP!ProgressExit
  <1> QED  BY <1>1, <1>2

LEMMA WorkerStepIs ==
    ASSUME WorkerStep
    PROVE  /\ Life' = stage' /\ stage # "exited"
           /\ stage' = "exited" => code' # Nothing
           /\ UNCHANGED parent
           /\ WP!Next
  <1>1. UNCHANGED parent
    BY DEF WorkerStep, Deliver, Compute, Reply, ReplyLost, GetStuck, Die
  <1>2. \/ W!Startup \/ W!Recv \/ W!Handle \/ W!Send \/ W!SendFails
        \/ W!NativeHangs \/ W!RecvWedges \/ W!NativeDies \/ W!WatchdogKill
        \/ W!ProgressExit
    BY DEF WorkerStep, Deliver, Compute, Reply, ReplyLost, GetStuck, Die
  <1>3. WP!Next
    BY <1>2, SameStartup, SameHandle, SameLoop, SameEnd DEF WP!Next
  <1> QED  BY <1>1, <1>2, <1>3, RunningWorker

\* A step of the composition that is not the worker's, nor a start of one.
LEMMA WorkerUntouched ==
    ASSUME Ask \/ TimeOut \/ Reap \/ Supervise \/ Over \/ UNCHANGED vars
    PROVE  UNCHANGED worker
  BY DEF Ask, TimeOut, Reap, Supervise, Over, vars

LEMMA StartWorkerIs ==
    ASSUME StartWorker
    PROVE  stage = "exited" /\ stage' = "preload" /\ Life' = stage' /\ state' = "wait"
  BY DEF StartWorker, S!Spawn, W!Restart, W!NewProcess, Life

LEMMA LifeInvHolds == Spec => []LifeInv
  <1>1. Init => LifeInv
    BY DEF Init, LifeInv
  <1>2. LifeInv /\ [Next]_vars => LifeInv'
    <2> SUFFICES ASSUME LifeInv, [Next]_vars PROVE LifeInv'
      OBVIOUS
    <2>1. CASE WorkerStep
      BY <2>1, WorkerStepIs DEF LifeInv
    <2>2. CASE StartWorker
      BY <2>2, StartWorkerIs DEF LifeInv
    <2>3. CASE Ask \/ TimeOut \/ Reap \/ Supervise \/ Over \/ UNCHANGED vars
      BY <2>3, WorkerUntouched DEF LifeInv, worker, W!Blank
    <2> QED  BY <2>1, <2>2, <2>3 DEF Next
  <1> QED  BY <1>1, <1>2, PTL DEF Spec

\* Every behaviour of the composition is one of Worker's, in which workers follow each other
\* for ever, so that what is proved of a worker with an arbitrary client holds of it with
\* this one. The first start begins nothing: it is the first life's.
THEOREM SystemRunsTheWorker == Spec => WP!Spec
  <1>1. Init => WP!Init
    BY SameRecord DEF Init, W!Blank, WP!Init, WP!Blank, Life
  <1>2. LifeInv /\ [Next]_vars => [WP!Next]_(WP!vars)
    <2> SUFFICES ASSUME LifeInv, [Next]_vars PROVE [WP!Next]_(WP!vars)
      OBVIOUS
    <2> USE DEF WP!vars, WP!process, WP!manager, WP!history
    <2>1. CASE WorkerStep
      BY <2>1, WorkerStepIs
    <2>2. CASE StartWorker /\ code = Nothing
      <3>1. W!Blank /\ Life = "preload" /\ Life' = "preload"
        BY <2>2, StartWorkerIs DEF LifeInv, Life
      <3>2. W!NewProcess /\ UNCHANGED preload
        BY <2>2 DEF StartWorker, W!Restart
      <3> QED  BY <3>1, <3>2 DEF W!Blank, W!NewProcess
    <2>3. CASE StartWorker /\ code # Nothing
      <3>1. Life = "exited" /\ Life' = stage'
        BY <2>3, StartWorkerIs DEF Life
      <3>2. W!NewProcess /\ UNCHANGED preload
        BY <2>3 DEF StartWorker, W!Restart
      <3>3. WP!Restart
        BY <3>1, <3>2, SameRecord DEF W!NewProcess, WP!Restart, WP!NewProcess
      <3> QED  BY <3>3 DEF WP!Next
    <2>4. CASE Ask \/ TimeOut \/ Reap \/ Supervise \/ Over \/ UNCHANGED vars
      BY <2>4, WorkerUntouched DEF worker, Life
    <2> QED  BY <2>1, <2>2, <2>3, <2>4 DEF Next
  <1> QED  BY <1>1, <1>2, LifeInvHolds, PTL DEF Spec, WP!Spec

\* To the client of this composition the detector is a write-once slot that tells the truth
\* (protocol.rs:38-106), across all its workers.
THEOREM SystemImplementsModelSlot == Spec => W!ImplementsModelSlot
  <1>1. WP!Spec => WP!ImplementsModelSlot
    BY WP!WorkerImplementsModelSlot, WorkerAssumed
  <1>2. WP!ImplementsModelSlot => W!ImplementsModelSlot
    <2>1. WP!MS!Init => W!MS!Init
      BY DEF WP!MS!Init, W!MS!Init
    <2>2. [WP!MS!Next]_(WP!MS!vars) => [W!MS!Next]_(W!MS!vars)
      BY SameOperators
      DEF WP!MS!Next, W!MS!Next, WP!MS!vars, W!MS!vars, WP!MS!Install, W!MS!Install,
          WP!MS!Say, W!MS!Say, WP!MS!NewLife, W!MS!NewLife, WP!MS!Installed, W!MS!Installed
    <2> QED  BY <2>1, <2>2, PTL DEF WP!ImplementsModelSlot, W!ImplementsModelSlot, WP!MS!Spec,
                                    W!MS!Spec
  <1> QED  BY <1>1, <1>2, SystemRunsTheWorker, PTL

\* protocol.rs:66-105 and 185-187: a model whose transfer a worker accepted is the one it
\* serves, whatever late messages reach it.
THEOREM SystemServesWhatItAccepted == Spec => []W!ServesWhatItAccepted
  <1>1. WP!Spec => []WP!ServesWhatItAccepted
    BY WP!AcceptedModelIsServed, WorkerAssumed
  <1>2. WP!ServesWhatItAccepted => W!ServesWhatItAccepted
    BY DEF WP!ServesWhatItAccepted, W!ServesWhatItAccepted, Life
  <1> QED  BY <1>1, <1>2, SystemRunsTheWorker, PTL
-----------------------------------------------------------------------------
(***************************************************************************)
(* Types.                                                                  *)
(***************************************************************************)

Answers == {W!Zeros} \cup [kind : {"detections"}, of : Blobs]

\* What is made for an inference request is an answer to one.
AnswerInv == stage = "send" /\ ~msg.mgmt => reply \in Answers

ClientTypes ==
    /\ policy \in {"trusting", "vigilant"}
    /\ waiting \in BOOLEAN /\ sent \in BOOLEAN
    /\ asker \in {"nobody", "client", "gone"}
    /\ got \in Answers \cup {Nothing}
    /\ coldFits \in BOOLEAN /\ faults \in 0 .. MaxFaults

\* The steps that touch what an inference request is answered, and what the client has got.
LEMMA AnswersAre ==
    ASSUME W!TypeOK, AnswerInv, ClientTypes, [Next]_vars
    PROVE  AnswerInv' /\ got' \in Answers \cup {Nothing}
  <1>1. CASE Compute /\ W!Handle
    <2>1. UNCHANGED <<msg, got>>
      BY <1>1
      DEF Compute, W!Handle, W!AnswerAvailability, W!IgnoreTransfer, W!AcceptTransfer,
          W!Infer, W!Answer
    <2>2. ASSUME ~msg.mgmt PROVE reply' \in Answers
      <3>1. W!Infer
        BY <1>1, <2>2 DEF W!Handle, W!AnswerAvailability, W!IgnoreTransfer, W!AcceptTransfer
      <3>2. reply' = W!Zeros \/ (W!IsReady /\ reply' = W!Detections(slot.blob))
        BY <3>1 DEF W!Infer, W!Answer
      <3>3. W!IsReady => slot.blob \in Blobs
        BY DEF W!IsReady, W!TypeOK, W!Models
      <3> QED  BY <3>2, <3>3 DEF Answers, W!Detections
    <2> QED  BY <2>1, <2>2 DEF AnswerInv, ClientTypes
  <1>2. CASE Compute /\ W!Startup
    <2>1. stage' \in {"warmup", "bind", "recv", "exited"} /\ UNCHANGED got
      BY <1>2
      DEF Compute, W!Startup, W!Preload, W!NoPreload, W!Warmup, W!EndWarmup, W!Bind,
          W!StartupFails, W!Exit, W!At, W!process
    <2> QED  BY <2>1 DEF AnswerInv, ClientTypes
  <1>3. CASE Reply
    <2>1. stage = "send" /\ stage' \in {"recv", "exited"}
      BY <1>3 DEF Reply, W!Send, W!At
    <2>2. got' \in Answers \cup {Nothing}
      BY <1>3, <2>1 DEF Reply, AnswerInv, ClientTypes
    <2> QED  BY <2>1, <2>2 DEF AnswerInv
  <1>4. CASE Deliver \/ ReplyLost \/ Die \/ StartWorker
    <2>1. stage' # "send" /\ UNCHANGED got
      BY <1>4
      DEF Deliver, ReplyLost, Die, StartWorker, client, W!Recv, W!SendFails, W!NativeDies,
          W!WatchdogKill, W!ProgressExit, W!Exit, W!Restart, W!NewProcess
    <2> QED  BY <2>1 DEF AnswerInv, ClientTypes
  <1>5. CASE GetStuck
    <2>1. UNCHANGED <<stage, msg, reply, got>>
      BY <1>5 DEF GetStuck, client, W!NativeHangs, W!RecvWedges
    <2> QED  BY <2>1 DEF AnswerInv, ClientTypes
  <1>6. CASE Ask \/ TimeOut \/ Reap \/ Supervise \/ Over \/ UNCHANGED vars
    <2>1. UNCHANGED <<stage, msg, reply>> /\ (got' = got \/ got' = Nothing)
      BY <1>6 DEF Ask, TimeOut, Reap, Supervise, Over, vars, worker, client
    <2> QED  BY <2>1 DEF AnswerInv, ClientTypes
  <1> QED
    BY <1>1, <1>2, <1>3, <1>4, <1>5, <1>6 DEF Next, WorkerStep, Compute

LEMMA ChargeTyped ==
    ASSUME faults \in 0 .. MaxFaults, NEW wrong, Charge(wrong)
    PROVE  faults' \in 0 .. MaxFaults
  BY SystemAssumption DEF Charge

LEMMA ClientTyped ==
    ASSUME W!TypeOK, AnswerInv, ClientTypes, [Next]_vars
    PROVE  AnswerInv' /\ ClientTypes'
  <1>1. faults' \in 0 .. MaxFaults
    <2>1. CASE Compute
      BY <2>1, ChargeTyped DEF Compute, ClientTypes
    <2>2. CASE Reply
      BY <2>2, ChargeTyped DEF Reply, ClientTypes
    <2>3. CASE ReplyLost \/ GetStuck \/ Die
      BY <2>3, ChargeTyped DEF ReplyLost, GetStuck, Die, ClientTypes
    <2>4. CASE TimeOut
      BY <2>4, SystemAssumption DEF TimeOut, ClientTypes
    <2>5. CASE Deliver \/ Ask \/ StartWorker \/ Reap \/ Supervise \/ Over \/ UNCHANGED vars
      BY <2>5 DEF Deliver, Ask, StartWorker, Reap, Supervise, Over, vars, ClientTypes
    <2> QED  BY <2>1, <2>2, <2>3, <2>4, <2>5 DEF Next, WorkerStep
  <1>2. UNCHANGED <<policy, coldFits>>
    BY DEF Next, WorkerStep, Ask, TimeOut, Deliver, Compute, Reply, ReplyLost, GetStuck, Die,
           StartWorker, Reap, Supervise, Over, vars, client
  <1>3. waiting' \in BOOLEAN /\ sent' \in BOOLEAN /\ asker' \in {"nobody", "client", "gone"}
    <2>1. CASE Ask \/ TimeOut
      BY <2>1 DEF Ask, TimeOut, ClientTypes
    <2>2. CASE WorkerStep
      BY <2>2 DEF WorkerStep, Deliver, Compute, Reply, ReplyLost, GetStuck, Die, Disconnect,
                  client, ClientTypes
    <2>3. CASE StartWorker \/ Reap \/ Supervise \/ Over \/ UNCHANGED vars
      BY <2>3 DEF StartWorker, Reap, Supervise, Over, vars, client, ClientTypes
    <2> QED  BY <2>1, <2>2, <2>3 DEF Next
  <1> QED  BY <1>1, <1>2, <1>3, AnswersAre DEF ClientTypes

\* The types of the parts are those of the composition.
LEMMA PartsTyped == Spec => [](W!TypeOK /\ S!TypeOK)
  <1>1. WP!Spec => []WP!TypeOK
    BY WP!WorkerTypeCorrect, WorkerAssumed
  <1>2. WP!TypeOK => W!TypeOK
    <2>1. Life \in WP!Stages => stage \in W!Stages
      BY DEF Life, WP!Stages, W!Stages
    <2> QED
      BY <2>1, SameOperators
      DEF WP!TypeOK, W!TypeOK, WP!ExitCodes, W!ExitCodes, WP!Replies, W!Replies,
          WP!NameTypes, W!NameTypes, WP!Whys, W!Whys, WP!Record!Healths, W!Record!Healths
  <1>3. SP!Spec => []SP!TypeOK
    BY SP!SupervisorTypeCorrect, SupervisorAssumed
  <1>4. SP!TypeOK => S!TypeOK
    BY DEF SP!TypeOK, S!TypeOK, SP!Configs, S!Configs, SP!States, S!States
  <1> QED
    BY <1>1, <1>2, <1>3, <1>4, SystemRunsTheWorker, SystemRunsTheSupervisor, OneSupervisor,
       PTL

\* Every variable of the composition keeps its type, and the budget of faults is kept.
THEOREM SystemTypeCorrect == Spec => []TypeOK
  <1>1. Init => AnswerInv /\ ClientTypes
    <2>1. 0 \in 0 .. MaxFaults
      BY SystemAssumption
    <2> QED  BY <2>1 DEF Init, AnswerInv, ClientTypes
  <1>2. W!TypeOK /\ AnswerInv /\ ClientTypes /\ [Next]_vars => AnswerInv' /\ ClientTypes'
    BY ClientTyped
  <1>3. IInv /\ ClientTypes /\ W!TypeOK /\ S!TypeOK => TypeOK
    BY DEF IInv, ClientInv, ClientTypes, Answers, TypeOK
  <1> QED
    BY <1>1, <1>2, <1>3, SystemInvHolds, PartsTyped, PTL DEF Spec
-----------------------------------------------------------------------------
(***************************************************************************)
(* Zeros.                                                                  *)
(***************************************************************************)

\* Nothing has gone wrong, and the worker is the first one or has its model file.
Quiet == faults = 0 /\ (preload # NoModel \/ lastExit = "none")

\* Before the first exit, the parent starts the first worker.
FirstInv ==
    /\ state = "sleep" => lastExit # "none"
    /\ state \in {"run", "spawn"} /\ lastExit = "none" => stage = "exited" /\ code = Nothing

\* An answer after which the client sends inference requests.
Encouraging(r) ==
    \/ r.kind = "detections"
    \/ r.kind \in {"availability", "transfer"} /\ r.loaded

\* A file that was pre-loaded stays; and while all is quiet, wherever an inference is asked
\* for, on its way, served or encouraged, there is a model.
FileInv == preload # NoModel /\ stage \in {"recv", "handle", "send"} => slot # NoModel
RequestInv ==
    /\ preload = NoModel /\ (phase = "infer" \/ stale = "infer") => slot # NoModel
    /\ stage \in {"handle", "send"} /\ ~msg.mgmt => slot # NoModel
    /\ stage = "send" /\ Encouraging(reply) => slot # NoModel
NoZerosInv ==
    /\ got # W!Zeros
    /\ stage = "send" /\ ~msg.mgmt => reply # W!Zeros

ZerosInv == FileInv /\ (Quiet => RequestInv /\ NoZerosInv)

LEMMA FirstStep == LifeInv /\ FirstInv /\ [Next]_vars => FirstInv'
  <1> SUFFICES ASSUME FirstInv, [Next]_vars PROVE FirstInv'
    OBVIOUS
  <1>1. CASE WorkerStep
    BY <1>1, WorkerStepIs DEF FirstInv, parent
  <1>2. CASE StartWorker
    BY <1>2, StartWorkerIs DEF FirstInv
  <1>3. CASE Reap
    BY <1>3 DEF Reap, S!WorkerExits, S!LongRun, S!QuickRun, FirstInv
  <1>4. CASE Supervise
    BY <1>4 DEF Supervise, worker, S!Decide, S!Fail, S!WakeUp, S!Tick, S!local, S!history,
                FirstInv
  <1>5. CASE Ask \/ TimeOut \/ Over \/ UNCHANGED vars
    BY <1>5 DEF Ask, TimeOut, Over, vars, worker, parent, FirstInv
  <1> QED  BY <1>1, <1>2, <1>3, <1>4, <1>5 DEF Next

\* Faults are never taken back, and neither is an exit.
LEMMA QuietBefore ==
    ASSUME faults \in 0 .. MaxFaults, [Next]_vars
    PROVE  UNCHANGED preload /\ (Quiet' => Quiet)
  <1>1. UNCHANGED preload
    <2>1. CASE WorkerStep
      <3>1. CASE Compute
        BY <3>1 DEF Compute, W!Startup, W!Preload, W!NoPreload, W!Warmup, W!EndWarmup,
                    W!Bind, W!StartupFails, W!Exit, W!Handle, W!AnswerAvailability,
                    W!IgnoreTransfer, W!AcceptTransfer, W!Infer, W!Answer
      <3>2. CASE Deliver \/ Reply \/ ReplyLost \/ GetStuck \/ Die
        BY <3>2 DEF Deliver, Reply, ReplyLost, GetStuck, Die, W!Recv, W!Send, W!SendFails,
                    W!NativeHangs, W!RecvWedges, W!NativeDies, W!WatchdogKill,
                    W!ProgressExit, W!Exit
      <3> QED  BY <2>1, <3>1, <3>2 DEF WorkerStep
    <2>2. CASE StartWorker
      BY <2>2 DEF StartWorker, W!Restart
    <2>3. CASE Ask \/ TimeOut \/ Reap \/ Supervise \/ Over \/ UNCHANGED vars
      BY <2>3, WorkerUntouched DEF worker
    <2> QED  BY <2>1, <2>2, <2>3 DEF Next
  <1>2. faults' = 0 => faults = 0
    BY DEF Next, WorkerStep, Ask, TimeOut, Deliver, Compute, Reply, ReplyLost, GetStuck, Die,
           StartWorker, Reap, Supervise, Over, vars, Charge
  <1>3. lastExit' = "none" => lastExit = "none"
    <2>1. CASE Reap
      BY <2>1 DEF Reap, S!WorkerExits, S!LongRun, S!QuickRun
    <2>2. CASE Supervise \/ StartWorker
      BY <2>2 DEF Supervise, StartWorker, S!Decide, S!Fail, S!WakeUp, S!Tick, S!Spawn,
                  S!local, S!history
    <2>3. CASE WorkerStep
      BY <2>3, WorkerStepIs DEF parent
    <2>4. CASE Ask \/ TimeOut \/ Over \/ UNCHANGED vars
      BY <2>4 DEF Ask, TimeOut, Over, vars, parent
    <2> QED  BY <2>1, <2>2, <2>3, <2>4 DEF Next
  <1> QED  BY <1>1, <1>2, <1>3 DEF Quiet

\* The worker's steps leave a model alone that is there.
LEMMA ModelStays ==
    ASSUME WorkerStep
    PROVE  slot # NoModel /\ stage # "preload" => slot' = slot
  <1>1. CASE Compute
    BY <1>1 DEF Compute, W!Startup, W!Preload, W!NoPreload, W!Warmup, W!EndWarmup, W!Bind,
                W!StartupFails, W!Exit, W!At, W!Handle, W!AnswerAvailability,
                W!IgnoreTransfer, W!AcceptTransfer, W!Infer, W!IsReady, W!manager
  <1>2. CASE Deliver \/ Reply \/ ReplyLost \/ GetStuck \/ Die
    BY <1>2 DEF Deliver, Reply, ReplyLost, GetStuck, Die, W!Recv, W!Send, W!SendFails,
                W!NativeHangs, W!RecvWedges, W!NativeDies, W!WatchdogKill, W!ProgressExit,
                W!Exit, W!manager
  <1> QED  BY <1>1, <1>2 DEF WorkerStep

\* A pre-loaded file is there when the loop begins.
LEMMA FileStep ==
    ASSUME IInv, FileInv, faults \in 0 .. MaxFaults, [Next]_vars
    PROVE  FileInv'
  <1>1. UNCHANGED preload
    BY QuietBefore
  <1>2. CASE WorkerStep
    <2> SUFFICES ASSUME preload # NoModel, stage' \in {"recv", "handle", "send"}
                 PROVE  slot' # NoModel
      BY <1>1 DEF FileInv
    <2>1. stage \in {"bind", "recv", "handle", "send"}
      BY <1>2 DEF WorkerStep, Deliver, Compute, Reply, ReplyLost, GetStuck, Die, W!Startup,
                  W!Preload, W!NoPreload, W!Warmup, W!EndWarmup, W!Bind, W!StartupFails,
                  W!Exit, W!At, W!process, W!Handle, W!AnswerAvailability, W!IgnoreTransfer,
                  W!AcceptTransfer, W!Infer, W!Answer, W!Recv, W!Send, W!SendFails,
                  W!NativeHangs, W!RecvWedges, W!NativeDies, W!WatchdogKill, W!ProgressExit
    <2>2. slot # NoModel
      BY <2>1 DEF IInv, SlotInv, FileInv
    <2> QED  BY <1>2, <2>1, <2>2, ModelStays
  <1>3. CASE StartWorker
    BY <1>3, StartWorkerIs DEF FileInv
  <1>4. CASE Ask \/ TimeOut \/ Reap \/ Supervise \/ Over \/ UNCHANGED vars
    BY <1>4, WorkerUntouched DEF worker, FileInv
  <1> QED  BY <1>2, <1>3, <1>4 DEF Next

\* What a handler answers while nothing goes wrong: no zeros where there is a model, and
\* nothing that encourages the client where there is none.
LEMMA HandleAnswers ==
    ASSUME IInv, RequestInv, Compute, W!Handle, faults = 0, faults' = 0
    PROVE  /\ ~msg.mgmt => slot # NoModel /\ reply' # W!Zeros
           /\ Encouraging(reply') => slot' # NoModel
  <1>1. stage = "handle" /\ stage' = "send"
    BY DEF W!Handle, W!AnswerAvailability, W!IgnoreTransfer, W!AcceptTransfer, W!Infer,
           W!Answer, W!At
  <1>2. CASE W!AnswerAvailability
    <2>1. msg.mgmt /\ slot' = slot /\ reply' = W!Availability(W!Called, W!IsModelReady(W!Called))
      BY <1>2 DEF W!AnswerAvailability, W!Answer, W!manager
    <2>2. reply'.kind = "availability" /\ reply'.loaded = W!IsModelReady(W!Called)
      BY <2>1 DEF W!Availability
    <2> QED  BY <2>1, <2>2 DEF Encouraging, W!IsModelReady, W!IsReady
  <1>3. CASE W!IgnoreTransfer
    BY <1>3 DEF W!IgnoreTransfer, W!IsReady, W!manager
  <1>4. CASE W!AcceptTransfer
    <2>1. msg.mgmt
      BY <1>4 DEF W!AcceptTransfer
    <2>2. PICK outcome \in W!Outcomes :
              /\ W!CacheModel([name |-> W!Called, blob |-> msg.blob], outcome)
              /\ reply' = IF outcome = "ok" THEN W!Transfer(W!Called, TRUE, "model loaded")
                          ELSE W!ModelError(W!Called)
      BY <1>4 DEF W!AcceptTransfer, W!Answer
    <2>3. CASE outcome = "ok"
      <3>1. slot' = [name |-> W!Called, blob |-> msg.blob]
        BY <2>2, <2>3 DEF W!CacheModel
      <3>2. W!Called = Wanted.name /\ msg.blob = Wanted.blob
        BY <1>1, MessageIs, SystemAssumption DEF IInv, MsgInv, W!Called
      <3>3. slot' = Wanted
        BY <3>1, <3>2, WantedIs
      <3> QED  BY <2>1, <3>3, SystemAssumption DEF W!WorkerAssumption
    <2>4. CASE outcome # "ok"
      <3>1. reply'.kind = "error"
        BY <2>2, <2>4 DEF W!ModelError
      <3> QED  BY <2>1, <3>1 DEF Encouraging
    <2> QED  BY <2>3, <2>4
  <1>5. CASE W!Infer
    <2>1. ~msg.mgmt /\ slot' = slot
      BY <1>5 DEF W!Infer
    <2>2. slot # NoModel
      BY <1>1, <2>1 DEF RequestInv
    <2>3. ~(stage' = "send" /\ reply'.kind = "zeros" /\ W!IsReady)
      BY DEF Compute, Charge
    <2>4. reply'.kind # "zeros"
      BY <1>1, <2>2, <2>3 DEF W!IsReady
    <2> QED  BY <2>1, <2>2, <2>4, RepliesSay
  <1> QED  BY <1>2, <1>3, <1>4, <1>5 DEF W!Handle

\* The client goes over to inference after an encouraging answer only.
LEMMA PhaseAfterAnswer ==
    ASSUME NEW r, r.kind \in Kinds, PhaseAfter(r) = "infer"
    PROVE  Encouraging(r) \/ phase = "infer"
  BY DEF PhaseAfter, Kinds, Doubtful, Encouraging

LEMMA ReplyTells ==
    ASSUME IInv, ZerosInv, Reply, Quiet, Quiet', UNCHANGED preload
    PROVE  RequestInv' /\ NoZerosInv'
  <1>1. /\ stage = "send" /\ stage' \in {"recv", "exited"} /\ slot' = slot
        /\ stale' \in {stale, Nothing}
    BY DEF Reply, Disconnect, W!Send, W!At, W!manager
  <1>2. RequestInv /\ NoZerosInv
    BY DEF ZerosInv
  <1>3. got' # W!Zeros
    <2>1. got' \in {got, Nothing} \/ (~msg.mgmt /\ got' = reply)
      BY DEF Reply
    <2> QED  BY <1>1, <1>2, <2>1, SystemAssumption DEF NoZerosInv
  <1>4. ASSUME preload = NoModel, phase' = "infer" PROVE slot # NoModel
    <2>1. CASE asker = "client"
      <3>1. phase' = PhaseAfter(reply) /\ reply.kind \in Kinds
        BY <1>1, <1>4, <2>1 DEF Reply, IInv, ReplyInv, Right
      <3>2. Encouraging(reply) \/ phase = "infer"
        BY <1>4, <3>1, PhaseAfterAnswer
      <3> QED  BY <1>1, <1>2, <1>4, <3>2 DEF RequestInv
    <2>2. CASE asker # "client"
      BY <1>2, <1>4, <2>2 DEF Reply, RequestInv
    <2> QED  BY <2>1, <2>2
  <1>5. stale' = "infer" => stale = "infer"
    BY <1>1, SystemAssumption DEF Phases
  <1> QED  BY <1>1, <1>2, <1>3, <1>4, <1>5 DEF RequestInv, NoZerosInv

\* Everything else, while all is quiet: what is not touched, and what comes to nothing.
LEMMA QuietStep ==
    ASSUME IInv, LifeInv, FirstInv, ZerosInv, Quiet, Quiet', UNCHANGED preload, [Next]_vars
    PROVE  RequestInv' /\ NoZerosInv'
  <1>0. RequestInv /\ NoZerosInv /\ FileInv
    BY DEF ZerosInv
  <1>1. CASE Deliver
    <2>1. /\ stage = "recv" /\ stage' = "handle"
          /\ UNCHANGED <<slot, phase, got>>
      BY <1>1 DEF Deliver, W!Recv, W!At, W!manager
    <2>2. \/ msg' = Message(phase) /\ phase \in Phases /\ UNCHANGED stale
          \/ msg' = Message(stale) /\ stale \in Phases /\ stale' = Nothing
      BY <1>1 DEF Deliver, IInv, ClientInv
    <2>3. ~msg'.mgmt => phase = "infer" \/ stale = "infer"
      BY <2>2, MessageIs
    <2>4. ~msg'.mgmt => slot # NoModel
      BY <1>0, <2>1, <2>3 DEF RequestInv, FileInv
    <2>5. stale' = "infer" => stale = "infer"
      BY <2>2, SystemAssumption DEF Phases
    <2> QED  BY <1>0, <2>1, <2>4, <2>5 DEF RequestInv, NoZerosInv
  <1>2. CASE Compute /\ W!Handle
    <2>1. stage = "handle" /\ stage' = "send" /\ UNCHANGED <<msg, phase, stale, got>>
      BY <1>2 DEF Compute, W!Handle, W!AnswerAvailability, W!IgnoreTransfer,
                  W!AcceptTransfer, W!Infer, W!Answer, W!At
    <2>2. slot # NoModel => slot' = slot
      BY <1>2, <2>1, ModelStays DEF WorkerStep
    <2>3. /\ ~msg.mgmt => slot # NoModel /\ reply' # W!Zeros
          /\ Encouraging(reply') => slot' # NoModel
      BY <1>0, <1>2, HandleAnswers DEF Quiet
    <2> QED  BY <1>0, <2>1, <2>2, <2>3 DEF RequestInv, NoZerosInv
  <1>3. CASE Compute /\ W!Startup
    <2>1. stage' \notin {"handle", "send"} /\ UNCHANGED <<phase, got>>
          /\ stale' \in {stale, Nothing} /\ (preload = NoModel => slot' = slot)
      BY <1>3
      DEF Compute, Disconnect, W!Startup, W!Preload, W!NoPreload, W!Warmup, W!EndWarmup,
          W!Bind, W!StartupFails, W!Exit, W!At, W!process, W!manager
    <2>2. stale' = "infer" => stale = "infer"
      BY <2>1, SystemAssumption DEF Phases
    <2> QED  BY <1>0, <2>1, <2>2 DEF RequestInv, NoZerosInv
  <1>4. CASE Reply
    BY <1>4, ReplyTells
  <1>5. CASE ReplyLost \/ Die
    <2>1. stage' \notin {"handle", "send"} /\ UNCHANGED <<slot, phase, got>>
          /\ stale' \in {stale, Nothing}
      BY <1>5 DEF ReplyLost, Die, Disconnect, W!SendFails, W!NativeDies, W!WatchdogKill,
                  W!ProgressExit, W!Exit, W!manager
    <2>2. stale' = "infer" => stale = "infer"
      BY <2>1, SystemAssumption DEF Phases
    <2> QED  BY <1>0, <2>1, <2>2 DEF RequestInv, NoZerosInv
  <1>6. CASE GetStuck \/ Reap \/ Supervise \/ Over \/ UNCHANGED vars
    <2>1. UNCHANGED <<stage, slot, msg, reply, phase, stale, got>>
      BY <1>6 DEF GetStuck, W!NativeHangs, W!RecvWedges, W!manager, Reap, Supervise, Over,
                  vars, worker, client
    <2> QED  BY <1>0, <2>1 DEF RequestInv, NoZerosInv, Encouraging
  <1>7. CASE Ask
    <2>1. UNCHANGED <<stage, slot, msg, reply, phase, stale>> /\ got' = Nothing
      BY <1>7 DEF Ask, worker
    <2> QED  BY <1>0, <2>1, SystemAssumption DEF RequestInv, NoZerosInv, Encouraging
  <1>8. CASE TimeOut
    <2>1. UNCHANGED <<stage, slot, msg, reply, got>> /\ phase' \in {"query", phase}
          /\ stale' \in {stale, phase}
      BY <1>8 DEF TimeOut, Doubtful, worker
    <2> QED  BY <1>0, <2>1 DEF RequestInv, NoZerosInv, Encouraging
  <1>9. CASE StartWorker
    <2>1. stage = "exited" /\ stage' = "preload" /\ slot' = NoModel
          /\ UNCHANGED <<phase, stale, got>>
      BY <1>9 DEF StartWorker, client, W!Restart, W!NewProcess
    <2>2. preload = NoModel => slot = NoModel
      BY <1>9, <2>1 DEF StartWorker, S!Spawn, FirstInv, LifeInv, W!Blank, Quiet
    <2> QED  BY <1>0, <2>1, <2>2 DEF RequestInv, NoZerosInv
  <1> QED
    BY <1>1, <1>2, <1>3, <1>4, <1>5, <1>6, <1>7, <1>8, <1>9 DEF Next, WorkerStep, Compute

\* An answer of zeros, which Frigate takes for an empty image, means that something went
\* wrong or that a worker without a model file was restarted: whatever is abandoned, late or
\* repeated, no worker is asked for an inference before it has the client's model
\* (protocol.rs:52-105, main.rs:203).
THEOREM ZerosOnlyOfTrouble == Spec => []ZerosComeOfTrouble
  <1>1. Init => FirstInv /\ ZerosInv
    <2> SUFFICES ASSUME Init PROVE FirstInv /\ ZerosInv
      OBVIOUS
    <2>1. /\ stage = "exited" /\ code = Nothing /\ phase = "query" /\ stale = Nothing
          /\ got = Nothing /\ state = "run"
      BY DEF Init, W!Blank, S!Init
    <2> QED
      BY <2>1, SystemAssumption
      DEF FirstInv, ZerosInv, FileInv, RequestInv, NoZerosInv, Phases
  <1>2. TypeOK /\ IInv /\ LifeInv /\ FirstInv /\ ZerosInv /\ [Next]_vars
        => FirstInv' /\ ZerosInv'
    <2> SUFFICES ASSUME TypeOK, IInv, LifeInv, FirstInv, ZerosInv, [Next]_vars
                 PROVE  FirstInv' /\ ZerosInv'
      OBVIOUS
    <2>1. faults \in 0 .. MaxFaults
      BY DEF TypeOK
    <2>2. UNCHANGED preload /\ (Quiet' => Quiet)
      BY <2>1, QuietBefore
    <2>3. FileInv'
      BY <2>1, FileStep DEF ZerosInv
    <2>4. Quiet' => RequestInv' /\ NoZerosInv'
      BY <2>2, QuietStep
    <2> QED  BY <2>3, <2>4, FirstStep DEF ZerosInv
  <1>3. TypeOK /\ ZerosInv => ZerosComeOfTrouble
    BY DEF TypeOK, ZerosInv, NoZerosInv, Quiet, ZerosComeOfTrouble
  <1> QED
    BY <1>1, <1>2, <1>3, SystemTypeCorrect, SystemInvHolds, LifeInvHolds, PTL DEF Spec
=============================================================================
