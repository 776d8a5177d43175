--------------------------- MODULE MCCodingStream ---------------------------
(* Strings whose length takes one and two bytes.                             *)
EXTENDS CodingStream

MCStrings == {<<>>, <<15>>, [i \in 1 .. 8 |-> i], [i \in 1 .. 15 |-> i]}
=============================================================================
