-------------------------------- MODULE Rows --------------------------------
(* A table as a partial function from its unique key to its rows. *)

\* The function f with x mapped to v, whether or not f was defined at x.
With(f, x, v) == [y \in DOMAIN f \cup {x} |-> IF y = x THEN v ELSE f[y]]
Without(f, x) == [y \in DOMAIN f \ {x} |-> f[y]]
NoRows == [r \in {} |-> r]
=============================================================================
