---------------------------- MODULE MCFileCrypto ----------------------------
(* Bounded instances of FileCrypto: chunks of four bytes, files that end   *)
(* in the first or the second chunk, on a chunk boundary and inside it.    *)
EXTENDS FileCrypto
=============================================================================
