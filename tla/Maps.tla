-------------------------------- MODULE Maps --------------------------------
(* Go maps and tables by key: functions with a domain that changes. *)
EXTENDS Functions

With(f, x, v) == [y \in DOMAIN f \cup {x} |-> IF y = x THEN v ELSE f[y]]
Without(f, xs) == Restrict(f, DOMAIN f \ xs)

=============================================================================
