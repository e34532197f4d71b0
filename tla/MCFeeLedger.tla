---------------------------- MODULE MCFeeLedger ----------------------------
(* Instances of FeeLedger for TLC. *)
EXTENDS FeeLedger, TLC

CONSTANTS i1, r1, r2, r3, s1, s2

\* The billed amount: two of the smallest payments.
MCTotal == [i \in Invoices |-> 2]

\* References, and requests, are interchangeable.
Symmetry == Permutations(Refs) \cup Permutations(Staff)
=============================================================================
