--------------------------- MODULE MCKeyShortening ---------------------------
(***************************************************************************)
(* The keys of KeyShortening are also the strings that are hashed.         *)
(***************************************************************************)
EXTENDS KeyShortening, Hash

CONSTANT Seeds   \* the seeds of Hash

\* Two strings of one length that differ in a single byte have different hash
\* values, whichever byte it is and whatever follows: no byte of a word or of
\* the remaining one to three bytes is left out, and no step of the mixing
\* loses information (hash.cc:17-38).
HashTellsApart ==
  LET data == start \o ExtractUserKey(limit)
  IN  \A seed \in Seeds :
        LET h == Hash(data, seed)
        IN  \A i \in DOMAIN data, b \in Byte :
              b # data[i] => Hash([data EXCEPT ![i] = b], seed) # h
=============================================================================
