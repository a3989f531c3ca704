------------------------------ MODULE MCUpload ------------------------------
(* A small instance of Upload: two packages with one file in common, one of  *)
(* which lists a file twice, so that it has more uploads than the two        *)
(* workers.  Two different files, one of each package, have the same         *)
(* truncated hash.                                                           *)
EXTENDS Upload_proofs

CONSTANTS p1, p2, a, b, c, h1, h2, w1, w2

MCTree == [p \in {p1, p2} |-> IF p = p1 THEN <<a, b, a>> ELSE <<b, c>>]

MCShortColliding == [f \in {a, b, c} |-> IF f = b THEN h2 ELSE h1]

=============================================================================
