------------------------------ MODULE MCOAuth -------------------------------
(* OAuth on a small instance: two tabs of one browser, one of another.     *)
EXTENDS OAuth, TLC

CONSTANTS t1, t2, t3, b1, b2

TwoAndOne == t1 :> b1 @@ t2 :> b1 @@ t3 :> b2
TwoTabs == t1 :> b1 @@ t2 :> b1

Symmetry == Permutations({t1, t2})
=============================================================================
