------------------------------ MODULE MCEnvFile ------------------------------
(* Two strings that differ in their first byte, one shorter than the buffer  *)
(* and one longer.                                                           *)
EXTENDS EnvFile, TLC

MCData == {<<1>>, <<2, 3, 2>>}
WriterSymmetry == Permutations(Writers)
=============================================================================
