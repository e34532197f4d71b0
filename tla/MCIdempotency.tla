---------------------------- MODULE MCIdempotency ----------------------------
(* Idempotency for TLC: clients are interchangeable in the safety runs.       *)
EXTENDS Idempotency, TLC

ClientSymmetry == Permutations(Clients) \cup Permutations(Hashes)
=============================================================================
