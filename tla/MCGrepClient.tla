---------------------------- MODULE MCGrepClient ----------------------------
(* Small instances of GrepClient.  Calls of query are interchangeable.       *)
EXTENDS GrepClient, TLC

CONSTANTS q1, q2

QuerySymmetry == Permutations(Queries)
=============================================================================
