-------------------------- MODULE InferenceProofs --------------------------
(***************************************************************************)
(* Proofs about the reply buffer, for every size of it and all tensors.    *)
(*                                                                         *)
(* The argument: at any time the rows before i are those of the first i    *)
(* detections, all of which passed the threshold, and the others are zero. *)
(* A score that passed is not 0, so that a written row is never empty.     *)
(***************************************************************************)
EXTENDS Inference, TLAPS

F32 == Int \cup {NaN}

\* Row n is detection n, which passed the tests of the loop.
Written(n) ==
    /\ n < det_count /\ ~TooLow(Score(n))
    /\ \A c \in 1 .. Row : detections[n * Row + c] = RowOf(n)[c]

Untouched(n) == \A c \in 1 .. Row : detections[n * Row + c] = 0

RowsInv == \A n \in Slots : IF n < i THEN Written(n) ELSE Untouched(n)

\* The loop has ended because it had to.
EndInv == stage = "ok" => ~(i < det_count /\ ~TooLow(Score(i)))

IInv == TypeOK /\ RowsInv /\ EndInv
-----------------------------------------------------------------------------
LEMMA CountFits == ASSUME tensors \in Outputs PROVE det_count \in 0 .. MaxDetections
  BY InferenceAssumption DEF Outputs, det_count, AsCount

LEMMA ScoresAreF32 ==
    ASSUME tensors \in Outputs, NEW n \in Nat
    PROVE  Score(n) \in F32
  BY InferenceAssumption DEF Outputs, Score, F32

\* Every element of a row is an f32, and only row n's own elements go into row n.
LEMMA RowsAreF32 ==
    ASSUME tensors \in Outputs, NEW n \in Nat
    PROVE  /\ RowOf(n) \in [1 .. Row -> F32]
           /\ RowOf(n)[1] = IF n < tensors.classes THEN ClassElem(n) ELSE 0
           /\ RowOf(n)[2] = Score(n)
           /\ \A c \in 0 .. 3 :
                 RowOf(n)[3 + c] = IF 4 * n + c < tensors.boxes THEN BoxElem(4 * n + c) ELSE 0
  <1>1. Score(n) \in F32
    BY ScoresAreF32
  <1>2. /\ Class(n) = IF n < tensors.classes THEN ClassElem(n) ELSE 0
        /\ Class(n) \in F32
    BY InferenceAssumption DEF Outputs, Class, ClassElem, F32
  <1>3. \A c \in 0 .. 3 :
            /\ Box(BoxStart(n) + c) = IF 4 * n + c < tensors.boxes THEN BoxElem(4 * n + c) ELSE 0
            /\ Box(BoxStart(n) + c) \in F32
    BY InferenceAssumption DEF Outputs, Box, BoxElem, BoxStart, F32
  <1>4. BoxStart(n) + 0 = BoxStart(n)
    BY DEF BoxStart
  <1> QED  BY <1>1, <1>2, <1>3, <1>4 DEF RowOf, Row

\* A score that passes the threshold is not 0.
LEMMA PassedIsNotZero ==
    ASSUME tensors \in Outputs, NEW n \in Nat, ~TooLow(Score(n))
    PROVE  Score(n) # 0
  BY InferenceAssumption, ScoresAreF32 DEF TooLow, F32
-----------------------------------------------------------------------------
LEMMA InitKeeps == Init => IInv
  <1> SUFFICES ASSUME Init PROVE IInv
    OBVIOUS
  <1>1. tensors \in Outputs /\ i = 0 /\ detections = Blank /\ stage = "input"
    BY DEF Init
  <1>2. TypeOK
    BY <1>1, InferenceAssumption DEF TypeOK, Stages, Blank
  <1>3. \A n \in Slots : Untouched(n)
    BY <1>1, InferenceAssumption DEF Slots, Untouched, Blank, Row
  <1> QED  BY <1>1, <1>2, <1>3 DEF IInv, RowsInv, EndInv, Slots

LEMMA WriteRowKeeps == ASSUME IInv, WriteRow PROVE IInv'
  <1>1. /\ stage = "loop" /\ i < det_count /\ ~TooLow(Score(i))
        /\ i' = i + 1 /\ UNCHANGED <<stage, tensors>>
        /\ i \in Nat /\ i < MaxDetections
    BY CountFits, InferenceAssumption DEF IInv, TypeOK, WriteRow, Loops
  <1>2. RowOf(i) \in [1 .. Row -> F32]
    BY <1>1, RowsAreF32 DEF IInv, TypeOK
  <1>3. /\ detections' \in [1 .. MaxDetections * Row -> F32]
        /\ \A k \in 1 .. MaxDetections * Row :
              detections'[k] = IF k \in i * Row + 1 .. i * Row + Row
                               THEN RowOf(i)[k - i * Row] ELSE detections[k]
    BY <1>1, <1>2 DEF IInv, TypeOK, WriteRow, F32, Row
  <1>4. TypeOK'
    BY <1>1, <1>3, InferenceAssumption DEF IInv, TypeOK, F32
  <1>5. RowsInv'
    <2> SUFFICES ASSUME NEW n \in Slots
                 PROVE  IF n < i' THEN Written(n)' ELSE Untouched(n)'
      BY DEF RowsInv, Slots
    <2>1. \A c \in 1 .. Row : n * Row + c \in 1 .. MaxDetections * Row
      BY InferenceAssumption DEF Slots, Row
    <2>2. /\ det_count' = det_count /\ Score(n)' = Score(n) /\ RowOf(n)' = RowOf(n)
          /\ TooLow(Score(n))' = TooLow(Score(n))
      BY <1>1 DEF det_count, Score, RowOf, Class, Box, TooLow
    <2>3. CASE n = i
      <3>1. \A c \in 1 .. Row : detections'[n * Row + c] = RowOf(n)[c]
        <4> SUFFICES ASSUME NEW c \in 1 .. Row
                     PROVE  detections'[i * Row + c] = RowOf(i)[c]
          BY <2>3
        <4> DEFINE k == i * Row + c
        <4>1. k \in 1 .. MaxDetections * Row
          BY <2>1, <2>3
        <4>2. k \in i * Row + 1 .. i * Row + Row /\ k - i * Row = c
          BY <1>1 DEF Row
        <4> HIDE DEF k
        <4>3. detections'[k] = RowOf(i)[k - i * Row]
          BY <1>3, <4>1, <4>2
        <4> QED  BY <4>2, <4>3 DEF k
      <3>2. \A c \in 1 .. Row : (detections[n * Row + c] = RowOf(n)[c])'
        BY <2>2, <3>1
      <3>3. (n < det_count /\ ~TooLow(Score(n)))'
        BY <1>1, <2>2, <2>3
      <3>4. Written(n)'
        BY <3>2, <3>3 DEF Written
      <3>5. n < i'
        BY <1>1, <2>3
      <3> QED  BY <3>4, <3>5
    <2>4. CASE n # i
      <3>1. \A c \in 1 .. Row : detections'[n * Row + c] = detections[n * Row + c]
        <4> SUFFICES ASSUME NEW c \in 1 .. Row
                     PROVE  detections'[n * Row + c] = detections[n * Row + c]
          OBVIOUS
        <4>1. n * Row + c \notin i * Row + 1 .. i * Row + Row
          BY <1>1, <2>4, InferenceAssumption DEF Row, Slots
        <4> QED  BY <1>3, <2>1, <4>1
      <3>2. n < i' <=> n < i
        BY <1>1, <2>4, InferenceAssumption DEF Slots
      <3>3. IF n < i THEN Written(n) ELSE Untouched(n)
        BY DEF IInv, RowsInv
      <3> QED  BY <2>2, <3>1, <3>2, <3>3 DEF Written, Untouched
    <2> QED  BY <2>3, <2>4
  <1> QED  BY <1>1, <1>4, <1>5 DEF IInv, EndInv

LEMMA StepKeeps == IInv /\ [Next]_vars => IInv'
  <1> SUFFICES ASSUME IInv, [Next]_vars PROVE IInv'
    OBVIOUS
  <1>1. CASE WriteRow
    BY <1>1, WriteRowKeeps
  <1>2. CASE Fails \/ SetInput \/ Invoke \/ ReadOutputs \/ Done \/ UNCHANGED vars
    <2>1. UNCHANGED <<tensors, i, detections>> /\ stage' \in Stages
      BY <1>2 DEF Fails, SetInput, Invoke, ReadOutputs, Done, vars, IInv, TypeOK, Stages
    <2>2. stage' = "ok" => stage = "ok"
      BY <1>2 DEF Fails, SetInput, Invoke, ReadOutputs, Done, vars
    <2> QED  BY <2>1, <2>2 DEF IInv, TypeOK, RowsInv, EndInv, Written, Untouched,
                 det_count, TooLow, Score, RowOf, Class, Box, Slots
  <1>3. CASE Finish
    <2>1. UNCHANGED <<tensors, i, detections>> /\ stage' = "ok" /\ ~Loops /\ stage = "loop"
      BY <1>3 DEF Finish
    <2> QED  BY <2>1 DEF IInv, TypeOK, RowsInv, EndInv, Written, Untouched, Loops, Stages,
                 det_count, TooLow, Score, RowOf, Class, Box, Slots
  <1> QED  BY <1>1, <1>2, <1>3 DEF Next
-----------------------------------------------------------------------------
\* The first i rows of the buffer, and nothing else, are filled (tflite.rs:287-307).
THEOREM InferenceInvHolds == Spec => []IInv
  <1>1. Init => IInv
    BY InitKeeps
  <1>2. IInv /\ [Next]_vars => IInv'
    BY StepKeeps
  <1> QED  BY <1>1, <1>2, PTL DEF Spec

\* Every variable keeps its type: the buffer keeps its size, the loop its limit.
THEOREM InferenceTypeCorrect == Spec => []TypeOK
  <1>1. IInv => TypeOK
    BY DEF IInv
  <1> QED  BY <1>1, InferenceInvHolds, PTL

LEMMA EmptyMeansUntouched ==
    ASSUME IInv, NEW n \in Slots
    PROVE  /\ IsEmpty(n) <=> n >= i
           /\ n < i => \A c \in 1 .. Row : RowAt(n)[c] = RowOf(n)[c]
  <1>1. n \in Nat /\ i \in Nat /\ (n < i \/ n >= i) /\ tensors \in Outputs
    BY InferenceAssumption DEF Slots, IInv, TypeOK
  <1>2. \A c \in 1 .. Row : RowAt(n)[c] = detections[n * Row + c]
    BY DEF RowAt
  <1>3. CASE n < i
    <2>1. Written(n)
      BY <1>3 DEF IInv, RowsInv
    <2>2. 2 \in 1 .. Row /\ RowAt(n)[2] = Score(n)
      <3>1. RowOf(n)[2] = Score(n)
        BY <1>1, RowsAreF32
      <3> QED  BY <1>2, <2>1, <3>1 DEF Written, Row
    <2>3. Score(n) # 0
      BY <1>1, <2>1, PassedIsNotZero DEF Written
    <2>4. ~IsEmpty(n)
      BY <2>2, <2>3 DEF IsEmpty
    <2> QED  BY <1>1, <1>2, <1>3, <2>1, <2>4 DEF Written
  <1>4. CASE n >= i
    <2>1. Untouched(n)
      BY <1>1, <1>4 DEF IInv, RowsInv
    <2> QED  BY <1>1, <1>2, <1>4, <2>1 DEF Untouched, IsEmpty
  <1> QED  BY <1>1, <1>3, <1>4

\* For all tensors, however malformed, no row mixes two detections (tflite.rs:293-306).
THEOREM RowsNeverMixed == Spec => []RowsAreNotMixed
  <1>1. IInv => RowsAreNotMixed
    <2> SUFFICES ASSUME IInv, NEW n \in Slots, ~IsEmpty(n)
                 PROVE  /\ RowAt(n)[1] = IF n < tensors.classes THEN ClassElem(n) ELSE 0
                        /\ RowAt(n)[2] = Score(n)
                        /\ \A c \in 0 .. 3 :
                              RowAt(n)[3 + c] =
                                  IF 4 * n + c < tensors.boxes THEN BoxElem(4 * n + c) ELSE 0
      BY DEF RowsAreNotMixed
    <2>1. n \in Nat /\ i \in Nat /\ tensors \in Outputs
      BY InferenceAssumption DEF Slots, IInv, TypeOK
    <2>2. \A c \in 1 .. Row : RowAt(n)[c] = RowOf(n)[c]
      BY <2>1, EmptyMeansUntouched
    <2>3. /\ 1 \in 1 .. Row /\ 2 \in 1 .. Row
          /\ \A c \in 0 .. 3 : 3 + c \in 1 .. Row
      BY DEF Row
    <2> QED  BY <2>1, <2>2, <2>3, RowsAreF32
  <1> QED  BY <1>1, InferenceInvHolds, PTL

\* For all tensors the filled rows are a prefix (tflite.rs:287-291).
THEOREM RowsHaveNoGaps == Spec => []NoGaps
  <1>1. IInv => NoGaps
    <2> SUFFICES ASSUME IInv, NEW n \in Slots, n > 0, ~IsEmpty(n)
                 PROVE  ~IsEmpty(n - 1)
      BY DEF NoGaps
    <2>1. n \in Nat /\ i \in Nat /\ n - 1 \in Slots
      BY InferenceAssumption DEF Slots, IInv, TypeOK
    <2>2. n < i
      BY <2>1, EmptyMeansUntouched
    <2> QED  BY <2>1, <2>2, EmptyMeansUntouched
  <1> QED  BY <1>1, InferenceInvHolds, PTL

\* For all tensors the reply holds the announced detections up to the first one below the
\* threshold (tflite.rs:279-307).
THEOREM ReplyIsComplete == Spec => []ReplyHoldsTheConfidentDetections
  <1>1. IInv => ReplyHoldsTheConfidentDetections
    <2> SUFFICES ASSUME IInv, stage = "ok", NEW n \in Slots
                 PROVE  ~IsEmpty(n) <=> \A k \in 0 .. n : Announced(k) /\ ~Below(k)
      BY DEF ReplyHoldsTheConfidentDetections
    <2>1. n \in Nat /\ n < MaxDetections /\ i \in Nat /\ tensors \in Outputs
      BY InferenceAssumption DEF Slots, IInv, TypeOK
    <2>2. \A k \in 0 .. n : Announced(k) <=> k < det_count
      BY <2>1, InferenceAssumption DEF Announced, det_count, AsCount, Outputs
    <2>3. \A k \in 0 .. n : Below(k) <=> TooLow(Score(k))
      BY DEF Below, TooLow
    <2>4. CASE n < i
      <3>1. \A k \in 0 .. n : k \in Slots /\ k < i
        BY <2>1, <2>4, InferenceAssumption DEF Slots
      <3>2. \A k \in 0 .. n : k < det_count /\ ~TooLow(Score(k))
        BY <3>1 DEF IInv, RowsInv, Written
      <3> QED  BY <2>1, <2>2, <2>3, <2>4, <3>2, EmptyMeansUntouched
    <2>5. CASE n >= i
      <3>1. i \in 0 .. n /\ ~(i < det_count /\ ~TooLow(Score(i)))
        BY <2>1, <2>5 DEF IInv, EndInv
      <3> QED  BY <2>2, <2>3, <2>5, <3>1, EmptyMeansUntouched
    <2> QED  BY <2>1, <2>4, <2>5
  <1> QED  BY <1>1, InferenceInvHolds, PTL

Confident(n) == Score(n) # NaN /\ Score(n) >= MinScore

Descending ==
    /\ \A k \in DOMAIN tensors.scores : tensors.scores[k] # NaN
    /\ \A j, k \in DOMAIN tensors.scores :
        j <= k => tensors.scores[k] <= tensors.scores[j]

\* For all descending scores the reply holds the announced detections that reach the
\* threshold, and no others (tflite.rs:279-307).
THEOREM SortedReplyIsComplete ==
    Spec => [](stage = "ok" /\ Descending
               => \A n \in Slots : ~IsEmpty(n) <=> Announced(n) /\ Confident(n))
  <1>1. IInv /\ ReplyHoldsTheConfidentDetections
        => (stage = "ok" /\ Descending
            => \A n \in Slots : ~IsEmpty(n) <=> Announced(n) /\ Confident(n))
    <2> SUFFICES ASSUME IInv, ReplyHoldsTheConfidentDetections, stage = "ok", Descending,
                        NEW n \in Slots
                 PROVE  ~IsEmpty(n) <=> Announced(n) /\ Confident(n)
      OBVIOUS
    <2>1. n \in Nat /\ tensors \in Outputs
      BY InferenceAssumption DEF Slots, IInv, TypeOK
    <2>2. \A k \in 0 .. n : Score(k) \in Int /\ (Confident(n) => Score(n) <= Score(k))
      <3> SUFFICES ASSUME NEW k \in 0 .. n
                   PROVE  Score(k) \in Int /\ (Confident(n) => Score(n) <= Score(k))
        OBVIOUS
      <3>1. Score(k) \in Int /\ Score(n) \in Int
        BY <2>1, InferenceAssumption DEF Descending, Score, Outputs
      <3>2. Confident(n) => n < Len(tensors.scores)
        BY InferenceAssumption DEF Confident, Score
      <3>3. n < Len(tensors.scores) => Score(n) <= Score(k)
        BY <2>1, InferenceAssumption DEF Descending, Score, Outputs
      <3> QED  BY <3>1, <3>2, <3>3
    <2>3. Announced(n) => \A k \in 0 .. n : Announced(k)
      BY <2>1, InferenceAssumption DEF Announced, Outputs
    <2>4. Confident(n) <=> ~Below(n)
      BY <2>1, <2>2, InferenceAssumption DEF Confident, Below
    <2>5. Confident(n) => \A k \in 0 .. n : ~Below(k)
      BY <2>1, <2>2, InferenceAssumption DEF Confident, Below
    <2>6. n \in 0 .. n
      BY <2>1
    <2> QED  BY <2>3, <2>4, <2>5, <2>6 DEF ReplyHoldsTheConfidentDetections
  <1> QED  BY <1>1, InferenceInvHolds, ReplyIsComplete, PTL
=============================================================================
