--------------------------- MODULE MCVersionLookup ---------------------------
(* User keys that are prefixes of each other or end in the greatest byte.    *)
EXTENDS VersionLookup

MCUserKeys == {<<>>, <<0>>, <<0, 3>>, <<3>>, <<3, 3>>}
=============================================================================
