----------------------------- MODULE MCZerokube -----------------------------
(* Small instances of Zerokube.  Container names are interchangeable.        *)
EXTENDS Zerokube, TLC

NameSymmetry == Permutations(Names)

=============================================================================
