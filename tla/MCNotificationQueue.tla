------------------------- MODULE MCNotificationQueue -------------------------
(* An instance of NotificationQueue for TLC. *)
EXTENDS NotificationQueue

CONSTANTS j1, j2, w1, w2, a1, none

\* Two requests about the job that can be sent, none about the other.
AsksOfSent == [j \in {j1, j2} |-> IF j = j1 THEN 2 ELSE 0]
=============================================================================
