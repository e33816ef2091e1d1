----------------------------- MODULE Inference -----------------------------
(***************************************************************************)
(* src/src/tflite.rs, lines 217-315: one inference, from the request's     *)
(* tensor to the (20, 6) buffer of detections. The native interpreter may  *)
(* fail at every call; its output tensors are arbitrary (any lengths, any  *)
(* count, unsorted scores, NaN).                                           *)
(*                                                                         *)
(* Scores and the count are in tenths, and may be NaN. Boxes and classes   *)
(* are never computed with, so a tensor of them is its length: its element *)
(* at index j is Elem(j), and a read past the end gives 0, as in the code. *)
(***************************************************************************)
EXTENDS Integers, Sequences

CONSTANTS MaxDetections,  \* MAX_DETECTIONS, 20
          MinScore,       \* MIN_SCORE, 0.4, in tenths
          NaN,            \* the f32 that compares with nothing
          Scores,         \* score tensors
          Counts,         \* count tensors
          BoxLengths,     \* lengths of the boxes tensor
          ClassLengths    \* lengths of the class_ids tensor

ASSUME InferenceAssumption ==
    /\ MaxDetections \in Nat \ {0}
    /\ MinScore \in Nat \ {0}
    /\ NaN \notin Int
    /\ Scores \subseteq Seq(Int \cup {NaN}) /\ Counts \subseteq Seq(Int \cup {NaN})
    /\ BoxLengths \subseteq Nat /\ ClassLengths \subseteq Nat

VARIABLES
    stage,       \* where run_inference is
    tensors,     \* what the interpreter returned
    i,           \* the loop's index, from 0
    detections   \* the buffer of MaxDetections * 6 floats

vars == <<stage, tensors, i, detections>>

Row == 6
Stages == {"input", "invoke", "outputs", "loop", "ok", "error"}

\* Stand-ins for the boxes' and the classes' elements: non-zero, all different.
BoxElem(j) == 1000 + j
ClassElem(j) == 2000 + j

\* tensor.get(j).copied().unwrap_or(0.0)
Box(j)   == IF j < tensors.boxes THEN BoxElem(j) ELSE 0
Class(j) == IF j < tensors.classes THEN ClassElem(j) ELSE 0
Score(j) == IF j < Len(tensors.scores) THEN tensors.scores[j + 1] ELSE 0

Outputs == [boxes : BoxLengths, classes : ClassLengths, scores : Scores, count : Counts]

TypeOK ==
    /\ stage \in Stages
    /\ tensors \in Outputs
    /\ i \in 0 .. MaxDetections
    /\ detections \in [1 .. MaxDetections * Row -> Int \cup {NaN}]

Blank == [k \in 1 .. MaxDetections * Row |-> 0]

Init ==
    /\ stage = "input"
    /\ tensors \in Outputs
    /\ i = 0
    /\ detections = Blank

\* Err(...): inputs_mut, a size that is not the input tensor's, the copy, invoke, or the
\* output tensors (fewer than 4, or not f32). The caller answers with zeros.
Fails ==
    /\ stage \in {"input", "invoke", "outputs"}
    /\ stage' = "error"
    /\ UNCHANGED <<tensors, i, detections>>

SetInput ==
    /\ stage = "input" /\ stage' = "invoke"
    /\ UNCHANGED <<tensors, i, detections>>

Invoke ==
    /\ stage = "invoke" /\ stage' = "outputs"
    /\ UNCHANGED <<tensors, i, detections>>

ReadOutputs ==
    /\ stage = "outputs" /\ stage' = "loop"
    /\ UNCHANGED <<tensors, i, detections>>

\* Mutant: the count is not limited to the buffer.
UnlimitedCount(c) == IF c = NaN \/ c < 0 THEN 0 ELSE c \div 10

\* (*c as usize).min(MAX_DETECTIONS): the cast truncates, saturates, and takes NaN to 0.
AsCount(c) ==
    IF c = NaN \/ c < 0 THEN 0
    ELSE IF c \div 10 > MaxDetections THEN MaxDetections ELSE c \div 10

det_count == IF tensors.count = <<>> THEN 0 ELSE AsCount(tensors.count[1])

\* Mutant: the score at the threshold is dropped.
AtMost(score) == score # NaN /\ score <= MinScore

\* score < MIN_SCORE, which is false of NaN.
TooLow(score) == score # NaN /\ score < MinScore

Loops == stage = "loop" /\ i < det_count /\ ~TooLow(Score(i))

\* Mutant: the boxes are indexed like the scores.
BoxOffset(n) == n

\* let bo = i * 4
BoxStart(n) == n * 4

RowOf(n) == <<Class(n), Score(n), Box(BoxStart(n)), Box(BoxStart(n) + 1),
              Box(BoxStart(n) + 2), Box(BoxStart(n) + 3)>>

\* Mutant: `continue` for `break`.
WriteOrSkip ==
    /\ stage = "loop" /\ i < det_count
    /\ detections' = [k \in DOMAIN detections |->
                        IF ~TooLow(Score(i)) /\ k \in i * Row + 1 .. i * Row + Row
                        THEN RowOf(i)[k - i * Row] ELSE detections[k]]
    /\ i' = i + 1
    /\ UNCHANGED <<stage, tensors>>

\* One iteration: the row is written at oo = i * 6.
WriteRow ==
    /\ Loops
    /\ detections' = [k \in DOMAIN detections |->
                        IF k \in i * Row + 1 .. i * Row + Row
                        THEN RowOf(i)[k - i * Row] ELSE detections[k]]
    /\ i' = i + 1
    /\ UNCHANGED <<stage, tensors>>

\* The range is exhausted, or `break`.
Finish ==
    /\ stage = "loop" /\ ~Loops
    /\ stage' = "ok"
    /\ UNCHANGED <<tensors, i, detections>>

Done == stage \in {"ok", "error"} /\ UNCHANGED vars

Next == Fails \/ SetInput \/ Invoke \/ ReadOutputs \/ WriteRow \/ Finish \/ Done

Spec == Init /\ [][Next]_vars
-----------------------------------------------------------------------------
(***************************************************************************)
(* Properties.                                                             *)
(***************************************************************************)

\* The reply's row n, and what the model's outputs say of detection n.
RowAt(n) == [c \in 1 .. Row |-> detections[n * Row + c]]
IsEmpty(n) == \A c \in 1 .. Row : RowAt(n)[c] = 0
Slots == 0 .. MaxDetections - 1

Announced(n) == tensors.count # <<>> /\ tensors.count[1] # NaN /\ tensors.count[1] >= 10 * (n + 1)
Below(n) == Score(n) # NaN /\ Score(n) < MinScore

\* Whatever the order of the scores, NaN among them or not, a detection is in the reply, at
\* its own position, exactly when it is announced and neither it nor one before it is below
\* the threshold; of descending scores, which the SSD post-processing operator emits, that
\* hides none that reaches it (tflite.rs:279-307).
ReplyHoldsTheConfidentDetections ==
    stage = "ok" => \A n \in Slots : ~IsEmpty(n) <=> \A k \in 0 .. n : Announced(k) /\ ~Below(k)

\* Whatever the tensors' lengths and order, a row is never put together from two
\* detections: class, score and the four box corners come from the same slot, and are 0
\* exactly where its tensor is too short (tflite.rs:288-306).
RowsAreNotMixed ==
    \A n \in Slots : ~IsEmpty(n) =>
        /\ RowAt(n)[1] = IF n < tensors.classes THEN ClassElem(n) ELSE 0
        /\ RowAt(n)[2] = Score(n)
        /\ \A c \in 0 .. 3 :
              RowAt(n)[3 + c] = IF 4 * n + c < tensors.boxes THEN BoxElem(4 * n + c) ELSE 0

\* The rows are a prefix of the buffer: Frigate may stop at the first empty one.
NoGaps == \A n \in Slots : n > 0 /\ ~IsEmpty(n) => ~IsEmpty(n - 1)
=============================================================================
