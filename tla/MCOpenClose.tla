---------------------------- MODULE MCOpenClose ----------------------------
(***************************************************************************)
(* OpenClose for TLC.  Users are interchangeable.                          *)
(***************************************************************************)
EXTENDS OpenClose, TLC

CONSTANTS a, b

Pair == {a, b}
Other == (a :> b) @@ (b :> a)

Symmetric == Permutations(User)

=============================================================================
