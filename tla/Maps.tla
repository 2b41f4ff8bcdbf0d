-------------------------------- MODULE Maps --------------------------------
(***************************************************************************)
(* A hash map of the code is a function whose domain is the set of its     *)
(* keys: insert and remove.                                                *)
(***************************************************************************)
EXTENDS Functions

EmptyMap == [x \in {} |-> x]
With(f, x, v) == [y \in DOMAIN f \cup {x} |-> IF y = x THEN v ELSE f[y]]
Without(f, x) == Restrict(f, DOMAIN f \ {x})

=============================================================================
