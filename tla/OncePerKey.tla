------------------------------ MODULE OncePerKey ------------------------------
(***************************************************************************)
(* What the idempotency layer promises its callers: the side effects of a   *)
(* key happen once, for one request, and every client that is told of       *)
(* success is told of that execution, and had asked for it.                 *)
(***************************************************************************)
CONSTANTS Clients, Keys, Hashes, NoHash, Nobody

VARIABLES effect,   \* the execution committed for a key: who ran it, what was asked
          told,     \* the execution a client was told of
          req       \* the key and the body each client sends

vars == <<effect, told, req>>

None == [by |-> Nobody, hash |-> NoHash]

Init ==
    /\ effect = [k \in Keys |-> None]
    /\ told = [c \in Clients |-> Nobody]
    /\ req \in [Clients -> [key: Keys, hash: Hashes]]

\* The request of `c` takes effect.
Execute(c) ==
    /\ effect[req[c].key] = None
    /\ effect' = [effect EXCEPT ![req[c].key] = [by |-> c, hash |-> req[c].hash]]
    /\ UNCHANGED <<told, req>>

\* `c` learns of the execution, its own or the one it duplicates.
Tell(c) ==
    /\ effect[req[c].key].by # Nobody
    /\ effect[req[c].key].hash = req[c].hash
    /\ told' = [told EXCEPT ![c] = effect[req[c].key].by]
    /\ UNCHANGED <<effect, req>>

Next == \E c \in Clients : Execute(c) \/ Tell(c)

Spec == Init /\ [][Next]_vars
=============================================================================
