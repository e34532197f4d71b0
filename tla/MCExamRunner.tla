---------------------------- MODULE MCExamRunner ----------------------------
(* Instances of ExamRunner for TLC: one attempt, without essays. *)
EXTENDS ExamRunner

CONSTANTS s1, f1, f2

MCObjectiveMarks == [sheet \in Sheets |-> sheet]
=============================================================================
