------------------------------- MODULE Powers -------------------------------
(***************************************************************************)
(* Powers as a recursive function, which proofs can unfold; there the      *)
(* operator ^ has no meaning.                                              *)
(***************************************************************************)
EXTENDS Naturals

\* b to the power n.
Power(b, n) == LET p[i \in Nat] == IF i = 0 THEN 1 ELSE b * p[i - 1] IN p[n]
=============================================================================
