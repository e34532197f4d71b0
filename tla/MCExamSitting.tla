--------------------------- MODULE MCExamSitting ---------------------------
(* An instance of ExamSitting for TLC. *)
EXTENDS ExamSitting, TLC

CONSTANTS s1, e1, e2, q1, q2, t1, t2, blank, right

\* One objective question of one mark.
MCObjectiveMarks == [sheet \in Sheets |-> IF sheet = right THEN 1 ELSE 0]
MCSymmetry == Permutations({q1, q2}) \cup Permutations({t1, t2}) \cup Permutations({e1, e2})
=============================================================================
