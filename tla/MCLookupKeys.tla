---------------------------- MODULE MCLookupKeys -----------------------------
(* User keys around the lengths at which their size needs another group of a *)
(* varint or space_ is full.                                                 *)
EXTENDS LookupKeys

CONSTANT KeyLengths

MCKeys == {[i \in 1 .. n |-> (i + b) % Base] : n \in KeyLengths, b \in {0, 1}}
=============================================================================
