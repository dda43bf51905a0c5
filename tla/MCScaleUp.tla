------------------------------ MODULE MCScaleUp ------------------------------
(* ScaleUp for TLC: a policy with a maximum of 40m in steps of 50 percent, *)
(* and one whose maximum is not a quantity.                                *)
EXTENDS ScaleUp, TLC

CONSTANTS p1, p2, c1, c2

Steps    == p1 :> 50 @@ p2 :> 20
Maximums == p1 :> 40 @@ p2 :> None

R(l, r) == [limit |-> l, request |-> r]

(* Tiny, ordinary and beyond the maximum; a request alone; nothing at all  *)
AllKinds == {R(1, 1), R(21, 5), R(50, 50), R(None, 5), R(None, None)}

=============================================================================
