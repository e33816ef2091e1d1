---------------------------- MODULE WorkerProofs ----------------------------
(***************************************************************************)
(* Proofs about Worker, for all names, model files, pre-loads and numbers  *)
(* of warmup runs.                                                         *)
(***************************************************************************)
EXTENDS Worker, TLAPS

\* The part of the state the client can be told about.
SlotType == slot \in Models \cup {NoModel} /\ preload \in Models \cup {NoModel}

\* A message is being served from recv to the end of send.
MessageInv == stage \in {"handle", "send"} => msg \in Messages

\* Nothing is installed before the pre-load, and what was accepted is what is installed.
AcceptedInv ==
    /\ stage = "preload" => slot = NoModel
    /\ \A blob \in accepted : slot # NoModel /\ slot.blob = blob

\* A reply waiting to be sent is still true: the slot cannot change under it.
ReplyInv ==
    stage = "send" =>
        /\ AboutModel(reply) =>
              /\ reply.name \in NameTypes
              /\ reply.loaded \in BOOLEAN
              /\ reply.loaded <=> IsModelReady(reply.name)
        /\ Accepts(reply) => slot # NoModel /\ slot.blob = msg.blob
        /\ reply.kind = "detections" => slot # NoModel /\ slot.blob = reply.of

IInv == SlotType /\ MessageInv /\ AcceptedInv /\ ReplyInv
-----------------------------------------------------------------------------
LEMMA InitEstablishesIInv == Init => IInv
BY WorkerAssumption
   DEF WorkerAssumption, Init, Blank, IInv, SlotType, MessageInv, AcceptedInv, ReplyInv

\* Steps that leave the model, the message and the history alone, and that lead neither
\* back to the start nor into the service of a message.
LEMMA QuietStepKeepsIInv ==
    ASSUME IInv, UNCHANGED <<preload, slot, msg, reply, accepted>>,
           stage' = stage \/ stage' \notin {"preload", "handle", "send"}
    PROVE  IInv'
BY DEF IInv, SlotType, MessageInv, AcceptedInv, ReplyInv, IsModelReady, IsReady

LEMMA StartupKeepsIInv == IInv /\ Startup => IInv'
<1> SUFFICES ASSUME IInv, Startup PROVE IInv'
  OBVIOUS
<1>1. CASE Preload
  <2>1. slot = NoModel /\ accepted = {}
    BY <1>1 DEF Preload, At, IInv, AcceptedInv
  <2>2. slot' \in Models \cup {NoModel} /\ stage' \in {"warmup", "exited"}
        /\ UNCHANGED <<preload, msg, reply, accepted>>
    BY <1>1, <2>1 DEF Preload, CacheModel, manager, history, IInv, SlotType
  <2> QED
    BY <2>1, <2>2 DEF IInv, SlotType, MessageInv, AcceptedInv, ReplyInv
<1>2. CASE NoPreload \/ Warmup \/ EndWarmup \/ Bind \/ StartupFails
  BY <1>2, QuietStepKeepsIInv
     DEF NoPreload, Warmup, EndWarmup, Bind, StartupFails, At, Exit, process, manager, history
<1> QED
  BY <1>1, <1>2 DEF Startup

LEMMA RecvKeepsIInv == IInv /\ Recv => IInv'
BY DEF Recv, At, manager, history, IInv, SlotType, MessageInv, AcceptedInv, ReplyInv

\* The handlers: the reply they make is true of the slot they leave behind.
LEMMA HandleKeepsIInv == IInv /\ Handle => IInv'
<1> SUFFICES ASSUME IInv, Handle PROVE IInv'
  OBVIOUS
<1>0. stage = "handle" /\ msg \in Messages
      /\ stage' = "send" /\ UNCHANGED <<preload, msg, accepted>>
  BY DEF Handle, AnswerAvailability, IgnoreTransfer, AcceptTransfer, Infer, At, Answer,
         IInv, MessageInv, history
<1>1. Called \in NameTypes /\ msg.blob \in Blobs
  BY <1>0 DEF Called, Messages, NameTypes
<1> USE DEF IsModelReady, IsReady
<1>2. CASE AnswerAvailability
  <2>1. UNCHANGED slot /\ reply' = Availability(Called, IsModelReady(Called))
    BY <1>2 DEF AnswerAvailability, Answer, manager
  <2> QED
    BY <1>0, <1>1, <2>1 DEF Availability, AboutModel, Accepts, IInv, SlotType, MessageInv,
                            AcceptedInv, ReplyInv
<1>3. CASE IgnoreTransfer
  <2>1. UNCHANGED slot /\ IsReady
    BY <1>3 DEF IgnoreTransfer, manager
  <2>2. reply' = IF IsModelReady(Called)
                 THEN Transfer(Called, TRUE, "model already loaded")
                 ELSE Transfer(Called, FALSE, "different model already loaded")
    BY <1>3 DEF IgnoreTransfer, Answer
  <2> QED
    BY <1>0, <1>1, <2>1, <2>2 DEF Transfer, AboutModel, Accepts, IInv, SlotType,
                                  MessageInv, AcceptedInv, ReplyInv
<1>4. CASE AcceptTransfer
  <2>0. slot = NoModel /\ accepted = {}
    BY <1>4 DEF AcceptTransfer, IInv, AcceptedInv
  <2>1. PICK outcome \in Outcomes :
            /\ CacheModel([name |-> Called, blob |-> msg.blob], outcome)
            /\ reply' = IF outcome = "ok" THEN Transfer(Called, TRUE, "model loaded")
                        ELSE ModelError(Called)
    BY <1>4 DEF AcceptTransfer, Answer
  <2>2. CASE outcome = "ok"
    <3>1. slot' = [name |-> Called, blob |-> msg.blob]
          /\ reply' = Transfer(Called, TRUE, "model loaded")
      BY <2>1, <2>2 DEF CacheModel
    <3>2. slot' \in Models
      BY <1>1, <3>1 DEF Models, NameTypes
    <3>3. slot' # NoModel
      BY <3>2, WorkerAssumption DEF WorkerAssumption
    <3> QED
      BY <1>0, <1>1, <2>0, <3>1, <3>2, <3>3
         DEF Transfer, AboutModel, Accepts, IInv, SlotType, MessageInv, AcceptedInv, ReplyInv
  <2>3. CASE outcome # "ok"
    <3>1. slot' = NoModel /\ reply' = ModelError(Called)
      BY <2>0, <2>1, <2>3 DEF CacheModel, manager
    <3> QED
      BY <1>0, <1>1, <2>0, <3>1
         DEF ModelError, AboutModel, Accepts, IInv, SlotType, MessageInv, AcceptedInv, ReplyInv
  <2> QED
    BY <2>2, <2>3
<1>5. CASE Infer
  <2>1. UNCHANGED slot
    BY <1>5 DEF Infer
  <2>2. reply' = Zeros \/ (IsReady /\ reply' = Detections(slot.blob))
    BY <1>5 DEF Infer, Answer
  <2>3. CASE reply' = Zeros
    BY <1>0, <2>1, <2>3 DEF Zeros, AboutModel, Accepts, IInv, SlotType, MessageInv,
                            AcceptedInv, ReplyInv
  <2>4. CASE IsReady /\ reply' = Detections(slot.blob)
    BY <1>0, <2>1, <2>4 DEF Detections, AboutModel, Accepts, IInv, SlotType, MessageInv,
                            AcceptedInv, ReplyInv
  <2> QED
    BY <2>2, <2>3, <2>4
<1> QED
  BY <1>2, <1>3, <1>4, <1>5 DEF Handle

\* Delivering the reply, or failing to, and everything that ends the process.
LEMMA SendKeepsIInv == IInv /\ (Send \/ SendFails) => IInv'
<1> SUFFICES ASSUME IInv, Send \/ SendFails PROVE IInv'
  OBVIOUS
<1>1. stage = "send" /\ stage' \in {"recv", "exited"} /\ reply' = Nothing
      /\ UNCHANGED <<preload, slot>>
  BY DEF Send, SendFails, At, manager
<1>2. \A blob \in accepted' : slot # NoModel /\ slot.blob = blob
  BY DEF Send, SendFails, At, history, IInv, AcceptedInv, ReplyInv
<1> QED
  BY <1>1, <1>2 DEF IInv, SlotType, MessageInv, AcceptedInv, ReplyInv

\* Hangs, deaths, exits, and the next life of the process.
LEMMA LifeKeepsIInv ==
    IInv /\ (\/ NativeHangs \/ RecvWedges \/ NativeDies \/ WatchdogKill \/ ProgressExit
             \/ Hanging \/ Restart)
    => IInv'
<1> SUFFICES ASSUME IInv, \/ NativeHangs \/ RecvWedges \/ NativeDies \/ WatchdogKill
                          \/ ProgressExit \/ Hanging \/ Restart
             PROVE  IInv'
  OBVIOUS
<1>1. CASE NativeHangs \/ RecvWedges \/ NativeDies \/ WatchdogKill \/ ProgressExit \/ Hanging
  BY <1>1, QuietStepKeepsIInv
     DEF NativeHangs, RecvWedges, NativeDies, WatchdogKill, ProgressExit, Hanging, Exit,
         manager, history, process, vars
<1>2. CASE Restart
  BY <1>2 DEF Restart, NewProcess, IInv, SlotType, MessageInv, AcceptedInv, ReplyInv
<1> QED
  BY <1>1, <1>2

\* IInv holds in every reachable state of the worker.
THEOREM WorkerInvHolds == Spec => []IInv
<1>1. IInv /\ [Next]_vars => IInv'
  <2> SUFFICES ASSUME IInv, [Next]_vars PROVE IInv'
    OBVIOUS
  <2>1. CASE UNCHANGED vars
    BY <2>1, QuietStepKeepsIInv DEF vars, manager, history, process
  <2> QED
    BY <2>1, StartupKeepsIInv, RecvKeepsIInv, HandleKeepsIInv, SendKeepsIInv, LifeKeepsIInv
       DEF Next
<1> QED
  BY <1>1, InitEstablishesIInv, PTL DEF Spec

\* protocol.rs:66-105 and 185-187: after a transfer was answered "model loaded", every
\* inference of the same process runs on the bytes of that transfer.
THEOREM AcceptedModelIsServed == Spec => []ServesWhatItAccepted
<1>1. IInv => ServesWhatItAccepted
  BY DEF IInv, AcceptedInv, ReplyInv, ServesWhatItAccepted
<1> QED
  BY <1>1, WorkerInvHolds, PTL
-----------------------------------------------------------------------------
(***************************************************************************)
(* Types.                                                                  *)
(***************************************************************************)

\* Exits and hangs touch the process alone.
LEMMA ProcessStepTyped ==
    ASSUME TypeOK, stage' \in Stages, hung' \in BOOLEAN, code' \in ExitCodes \cup {Nothing},
           UNCHANGED <<preload, manager, runs, msg, reply, health, history>>
    PROVE  TypeOK'
BY DEF TypeOK, manager, history

LEMMA ExitTyped == ASSUME TypeOK, NEW c \in ExitCodes, Exit(c) PROVE TypeOK'
BY ProcessStepTyped DEF Exit, Stages

LEMMA StartupTyped == TypeOK /\ Startup => TypeOK'
<1> SUFFICES ASSUME TypeOK, Startup PROVE TypeOK'
  OBVIOUS
<1> USE WorkerAssumption DEF WorkerAssumption
<1>1. CASE Preload
  <2>1. PICK outcome \in Outcomes :
            /\ CacheModel(preload, outcome)
            /\ IF outcome = "ok" THEN stage' = "warmup" /\ UNCHANGED code
                                 ELSE stage' = "exited" /\ code' = 1
    BY <1>1 DEF Preload
  <2>2. preload \in Models
    BY <1>1 DEF Preload, TypeOK
  <2>3. slot' \in Models \cup {NoModel} /\ warm' \in BOOLEAN
    BY <2>1, <2>2 DEF CacheModel, manager, TypeOK
  <2>4. stage' \in Stages /\ code' \in ExitCodes \cup {Nothing}
    BY <2>1 DEF TypeOK, Stages, ExitCodes
  <2> QED
    BY <1>1, <2>3, <2>4 DEF Preload, TypeOK, history
<1>2. CASE NoPreload \/ EndWarmup \/ Bind
  BY <1>2, ProcessStepTyped DEF NoPreload, EndWarmup, Bind, TypeOK, Stages
<1>3. CASE Warmup
  <2>0. runs > 0 /\ (runs' = runs - 1 \/ runs' = 0)
    BY <1>3, Zenon DEF Warmup
  <2>1. runs' \in 0 .. WarmupRuns
    BY <2>0 DEF TypeOK
  <2>2. warm' \in BOOLEAN
    BY <1>3 DEF Warmup, TypeOK
  <2> QED
    BY <1>3, <2>1, <2>2 DEF Warmup, TypeOK, process, history
<1>4. CASE StartupFails
  BY <1>4, ExitTyped DEF StartupFails, ExitCodes
<1> QED
  BY <1>1, <1>2, <1>3, <1>4 DEF Startup

\* What the constructors of protocol.rs make is a reply.
LEMMA RepliesAre ==
    /\ \A n \in NameTypes, l \in BOOLEAN : Availability(n, l) \in Replies
    /\ \A n \in NameTypes, l \in BOOLEAN, w \in Whys : Transfer(n, l, w) \in Replies
    /\ \A n \in NameTypes : ModelError(n) \in Replies
    /\ \A b \in Blobs : Detections(b) \in Replies
    /\ Zeros \in Replies
<1>1. \A n \in NameTypes, l \in BOOLEAN : Availability(n, l) \in Replies
  BY DEF Availability, Replies
<1>2. \A n \in NameTypes, l \in BOOLEAN, w \in Whys : Transfer(n, l, w) \in Replies
  BY DEF Transfer, Replies
<1>3. \A n \in NameTypes : ModelError(n) \in Replies
  BY DEF ModelError, Replies
<1>4. \A b \in Blobs : Detections(b) \in Replies
  BY DEF Detections, Replies
<1>5. Zeros \in Replies
  BY DEF Replies
<1> QED
  BY <1>1, <1>2, <1>3, <1>4, <1>5

LEMMA HandleTyped == TypeOK /\ IInv /\ Handle => TypeOK'
<1> SUFFICES ASSUME TypeOK, IInv, Handle PROVE TypeOK'
  OBVIOUS
<1>0. msg \in Messages /\ stage' \in Stages
      /\ UNCHANGED <<preload, hung, code, runs, msg, health, history>>
  BY DEF Handle, AnswerAvailability, IgnoreTransfer, AcceptTransfer, Infer, At, Answer,
         IInv, MessageInv, Stages
<1>1. Called \in NameTypes /\ msg.blob \in Blobs
  BY <1>0 DEF Called, Messages, NameTypes
<1>2. slot' \in Models \cup {NoModel} /\ warm' \in BOOLEAN
  <2>1. CASE AcceptTransfer
    <3>1. [name |-> Called, blob |-> msg.blob] \in Models
      BY <1>1 DEF Models, NameTypes
    <3> QED
      BY <2>1, <3>1 DEF AcceptTransfer, CacheModel, manager, TypeOK
  <2>2. CASE Infer
    BY <2>2 DEF Infer, TypeOK
  <2>3. CASE AnswerAvailability \/ IgnoreTransfer
    BY <2>3 DEF AnswerAvailability, IgnoreTransfer, manager, TypeOK
  <2> QED
    BY <2>1, <2>2, <2>3 DEF Handle
<1>3. reply' \in Replies
  <2>1. CASE AnswerAvailability
    <3>1. IsModelReady(Called) \in BOOLEAN
      BY DEF IsModelReady, IsReady
    <3>2. reply' = Availability(Called, IsModelReady(Called))
      BY <2>1 DEF AnswerAvailability, Answer
    <3> QED
      BY <1>1, <3>1, <3>2, RepliesAre
  <2>2. CASE IgnoreTransfer
    <3>1. \/ reply' = Transfer(Called, TRUE, "model already loaded")
          \/ reply' = Transfer(Called, FALSE, "different model already loaded")
      BY <2>2 DEF IgnoreTransfer, Answer
    <3> QED
      BY <1>1, <3>1, RepliesAre DEF Whys
  <2>3. CASE AcceptTransfer
    <3>1. \/ reply' = Transfer(Called, TRUE, "model loaded")
          \/ reply' = ModelError(Called)
      BY <2>3 DEF AcceptTransfer, Answer
    <3> QED
      BY <1>1, <3>1, RepliesAre DEF Whys
  <2>4. CASE Infer
    <3>1. IsReady => slot.blob \in Blobs
      BY DEF IsReady, TypeOK, Models
    <3>2. reply' = Zeros \/ (IsReady /\ reply' = Detections(slot.blob))
      BY <2>4 DEF Infer, Answer
    <3> QED
      BY <3>1, <3>2, RepliesAre
  <2> QED
    BY <2>1, <2>2, <2>3, <2>4 DEF Handle
<1> QED
  BY <1>0, <1>2, <1>3 DEF TypeOK, history

\* A record of requests stays one.
LEMMA RecordsAre ==
    ASSUME NEW h \in Record!Healths
    PROVE  /\ Record!Started(h) \in Record!Healths
           /\ Record!Succeeded(h) \in Record!Healths
           /\ Record!Failed(h) \subseteq Record!Healths
<1>1. h.requested \in BOOLEAN /\ h.succeeded \in BOOLEAN /\ h.failed \in BOOLEAN
  BY DEF Record!Healths
<1>2. Record!Started(h) \in Record!Healths
  BY <1>1 DEF Record!Healths, Record!Started
<1>3. Record!Succeeded(h) \in Record!Healths
  BY <1>1 DEF Record!Healths, Record!Succeeded
<1>4. Record!Failed(h) \subseteq Record!Healths
  <2>1. \A later \in BOOLEAN :
            [requested |-> h.requested, inFlight |-> FALSE, succeeded |-> h.succeeded,
             failed |-> h.failed \/ ~h.succeeded \/ later] \in Record!Healths
    BY <1>1 DEF Record!Healths
  <2> QED
    BY <2>1 DEF Record!Failed
<1> QED
  BY <1>2, <1>3, <1>4

LEMMA LoopTyped == TypeOK /\ IInv /\ (Recv \/ Send \/ SendFails) => TypeOK'
<1> SUFFICES ASSUME TypeOK, IInv, Recv \/ Send \/ SendFails PROVE TypeOK'
  OBVIOUS
<1>1. health' \in Record!Healths
  BY RecordsAre DEF Recv, Send, SendFails, TypeOK
<1>2. CASE Recv
  BY <1>1, <1>2 DEF Recv, TypeOK, Stages, manager, history
<1>3. CASE Send
  <2>1. accepted' \subseteq Blobs
    BY <1>3 DEF Send, At, IInv, MessageInv, Messages, TypeOK
  <2>2. stage' \in Stages /\ code' \in ExitCodes \cup {Nothing}
    BY <1>3 DEF Send, Stages, ExitCodes, TypeOK
  <2>3. said' \in {NoModel} \cup [name : NameTypes, loaded : BOOLEAN]
    <3>1. ASSUME AboutModel(reply) PROVE reply.name \in NameTypes /\ reply.loaded \in BOOLEAN
      BY <1>3, <3>1 DEF Send, At, IInv, ReplyInv
    <3>2. said' = IF AboutModel(reply) THEN [name |-> reply.name, loaded |-> reply.loaded]
                  ELSE said
      BY <1>3 DEF Send
    <3> QED
      BY <3>1, <3>2 DEF TypeOK
  <2> QED
    BY <1>1, <1>3, <2>1, <2>2, <2>3 DEF Send, TypeOK, manager
<1>4. CASE SendFails
  BY <1>1, <1>4 DEF SendFails, TypeOK, Stages, manager, history
<1> QED
  BY <1>2, <1>3, <1>4

LEMMA LifeTyped ==
    TypeOK /\ (\/ NativeHangs \/ RecvWedges \/ NativeDies \/ WatchdogKill \/ ProgressExit
               \/ Hanging \/ Restart)
    => TypeOK'
<1> SUFFICES ASSUME TypeOK, \/ NativeHangs \/ RecvWedges \/ NativeDies \/ WatchdogKill
                            \/ ProgressExit \/ Hanging \/ Restart
             PROVE  TypeOK'
  OBVIOUS
<1>1. CASE NativeHangs \/ RecvWedges
  BY <1>1, ProcessStepTyped DEF NativeHangs, RecvWedges, TypeOK
<1>2. CASE NativeDies \/ WatchdogKill \/ ProgressExit
  BY <1>2, ExitTyped DEF NativeDies, WatchdogKill, ProgressExit, ExitCodes
<1>3. CASE Hanging
  BY <1>3 DEF Hanging, vars, process, manager, history, TypeOK
<1>4. CASE Restart
  <2>1. stage' \in Stages /\ hung' \in BOOLEAN /\ warm' \in BOOLEAN
    BY <1>4 DEF Restart, NewProcess, Stages
  <2>3. runs' \in 0 .. WarmupRuns
    BY <1>4, WorkerAssumption DEF WorkerAssumption, Restart, NewProcess
  <2>2. health' \in Record!Healths
    BY <1>4 DEF Restart, NewProcess, Record!NoRequests, Record!Healths
  <2> QED
    BY <1>4, <2>1, <2>2, <2>3 DEF Restart, NewProcess, TypeOK
<1> QED
  BY <1>1, <1>2, <1>3, <1>4

\* Every variable keeps its type: what a handler answers is a reply of the protocol, and
\* the exit codes are those of main.rs, watchdog.rs and a panic.
THEOREM WorkerTypeCorrect == Spec => []TypeOK
<1>1. Init => TypeOK
  <2> SUFFICES ASSUME Init PROVE TypeOK
    OBVIOUS
  <2>1. stage \in Stages /\ hung \in BOOLEAN /\ warm \in BOOLEAN
    BY DEF Init, Blank, Stages
  <2>3. runs \in 0 .. WarmupRuns
    BY WorkerAssumption DEF WorkerAssumption, Init, Blank
  <2>2. health \in Record!Healths
    BY DEF Init, Blank, Record!NoRequests, Record!Healths
  <2> QED
    BY <2>1, <2>2, <2>3 DEF Init, Blank, TypeOK
<1>2. TypeOK /\ IInv /\ [Next]_vars => TypeOK'
  <2> SUFFICES ASSUME TypeOK, IInv, [Next]_vars PROVE TypeOK'
    OBVIOUS
  <2>1. CASE UNCHANGED vars
    BY <2>1 DEF vars, process, manager, history, TypeOK
  <2> QED
    BY <2>1, StartupTyped, HandleTyped, LoopTyped, LifeTyped DEF Next
<1> QED
  BY <1>1, <1>2, WorkerInvHolds, PTL DEF Spec
-----------------------------------------------------------------------------
(***************************************************************************)
(* Refinement: the worker is a write-once slot that speaks the truth.      *)
(***************************************************************************)

LEMMA StepRefines == IInv /\ [Next]_vars => [MS!Next]_(MS!vars)
<1> SUFFICES ASSUME IInv, [Next]_vars PROVE [MS!Next]_(MS!vars)
  OBVIOUS
<1> USE DEF MS!Next, MS!vars
<1>1. CASE UNCHANGED <<slot, said>>
  BY <1>1
<1>2. CASE Preload
  <2>1. slot = NoModel /\ said' = said
    BY <1>2 DEF Preload, At, IInv, AcceptedInv, history
  <2>2. slot' = preload \/ slot' = slot
    BY <1>2 DEF Preload, CacheModel, manager
  <2>3. preload \in Models
    BY <1>2 DEF Preload, IInv, SlotType
  <2> QED
    BY <2>1, <2>2, <2>3 DEF MS!Install
<1>3. CASE AcceptTransfer
  <2>1. slot = NoModel /\ said' = said /\ msg \in Messages
    BY <1>3 DEF AcceptTransfer, At, IsReady, Answer, history, IInv, MessageInv
  <2>2. slot' = [name |-> Called, blob |-> msg.blob] \/ slot' = slot
    BY <1>3 DEF AcceptTransfer, CacheModel, manager
  <2>3. [name |-> Called, blob |-> msg.blob] \in Models
    BY <2>1 DEF Called, Messages, Models
  <2> QED
    BY <2>1, <2>2, <2>3 DEF MS!Install
<1>4. CASE Send
  <2>1. slot' = slot /\ stage = "send"
    BY <1>4 DEF Send, At, manager
  <2>2. CASE AboutModel(reply)
    <3>1. said' = [name |-> reply.name, loaded |-> reply.loaded]
      BY <1>4, <2>2 DEF Send
    <3>2. /\ reply.name \in NameTypes /\ reply.loaded \in BOOLEAN
          /\ reply.loaded <=> MS!Installed(reply.name)
      BY <2>1, <2>2 DEF IInv, ReplyInv, IsModelReady, IsReady, MS!Installed
    <3>3. reply.loaded = MS!Installed(reply.name)
      BY <3>2 DEF MS!Installed
    <3>4. PICK blob \in Blobs : TRUE
      BY <2>1 DEF IInv, MessageInv, Messages
    <3>5. reply.name \in {m.name : m \in Models}
      <4>1. [name |-> reply.name, blob |-> blob] \in Models
        BY <3>2, <3>4 DEF Models, NameTypes
      <4> QED
        BY <4>1
    <3> QED
      BY <2>1, <3>1, <3>2, <3>3, <3>5 DEF MS!Say
  <2>3. CASE ~AboutModel(reply)
    BY <1>4, <2>1, <2>3 DEF Send
  <2> QED
    BY <2>2, <2>3
<1>5. CASE Restart
  BY <1>5 DEF Restart, NewProcess, MS!NewLife
<1>6. Startup => Preload \/ UNCHANGED <<slot, said>>
  BY DEF Startup, NoPreload, Warmup, EndWarmup, Bind, StartupFails, Exit, manager, history
<1>7. Handle => AcceptTransfer \/ UNCHANGED <<slot, said>>
  BY DEF Handle, AnswerAvailability, IgnoreTransfer, Infer, Answer, manager, history
<1>8. Recv \/ SendFails => UNCHANGED <<slot, said>>
  BY DEF Recv, SendFails, manager, history
<1>9. NativeHangs \/ RecvWedges \/ NativeDies \/ WatchdogKill \/ ProgressExit \/ Hanging
      => UNCHANGED <<slot, said>>
  BY DEF NativeHangs, RecvWedges, NativeDies, WatchdogKill, ProgressExit, Hanging, Exit,
         manager, history, vars
<1>10. UNCHANGED vars => UNCHANGED <<slot, said>>
  BY DEF vars, manager, history
<1> QED
  BY <1>1, <1>2, <1>3, <1>4, <1>5, <1>6, <1>7, <1>8, <1>9, <1>10 DEF Next

\* tflite.rs:80-113 and protocol.rs:38-106, with lost replies and restarts: a model is
\* installed at most once in a life, and what the client is told of it is true.
THEOREM WorkerImplementsModelSlot == Spec => ImplementsModelSlot
<1>1. Init => MS!Init
  BY DEF Init, Blank, MS!Init
<1> QED
  BY <1>1, StepRefines, WorkerInvHolds, PTL DEF Spec, ImplementsModelSlot, MS!Spec
=============================================================================
