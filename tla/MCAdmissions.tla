---------------------------- MODULE MCAdmissions ----------------------------
(* Instances of Admissions for TLC: a class of one seat and one of two. *)
EXTENDS Admissions, TLC

CONSTANTS c1, c2, s1, s2, s3, r1, r2

MCCapacity == [c \in Classes |-> IF c = c1 THEN 1 ELSE 2]
MCOffered ==
    {[outcome |-> "PROMOTED", class |-> c2], [outcome |-> "REPEATED", class |-> c1],
     [outcome |-> "GRADUATED", class |-> None], [outcome |-> "IN_PROGRESS", class |-> None]}
MCSymmetry == Permutations({s2, s3}) \cup Permutations({r1, r2})
MCBudgets == {<<3, 1>>, <<1, 3>>, <<0, 4>>}
MCOneStart == {<<0, 1>>}
=============================================================================
