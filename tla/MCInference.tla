---------------------------- MODULE MCInference ----------------------------
(***************************************************************************)
(* Inference with a buffer of 3 rows and tensors for up to 4 detections:   *)
(* none, fewer, as many and more than the buffer holds; tensors that are   *)
(* too short, in the middle of a box too; scores below, at and above the   *)
(* threshold; counts that are missing, NaN, negative, fractional or huge.  *)
(***************************************************************************)
EXTENDS Inference

ScoreValues == {0, 3, 4, 9, NaN}
MCScores == UNION {[1 .. n -> ScoreValues] : n \in {0, 1, 2, 4}}
MCCounts == {<<>>} \cup {<<c>> : c \in {NaN, -10, 0, 9, 10, 25, 30, 1000}}
MCBoxLengths == {0, 6, 16}
MCClassLengths == {1, 4}
=============================================================================
