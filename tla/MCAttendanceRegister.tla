------------------------ MODULE MCAttendanceRegister ------------------------
(* An instance of AttendanceRegister for TLC. *)
EXTENDS AttendanceRegister

CONSTANTS s1, s2, q1, q2, a1, b1, b2

\* The muted parent's child is absent, and the other one may be.
MCSheets == {[s \in Students |-> IF s = s1 THEN status ELSE "ABSENT"] : status \in {"PRESENT", "ABSENT"}}
=============================================================================
