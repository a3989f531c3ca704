---------------------------- MODULE MCGrepUpdate ----------------------------
(* Small instances of GrepUpdate: version v2 of a package drops a file that  *)
(* v1 has.                                                                   *)
EXTENDS GrepUpdate

CONSTANTS f1, f2, v1, v2

MCFilesOf == [e \in Entries |-> IF e.version = v1 THEN {f1, f2} ELSE {f1}]

=============================================================================
