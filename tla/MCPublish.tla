------------------------------ MODULE MCPublish ------------------------------
(* Small instances of Publish.  The constants get their values in the        *)
(* configurations; the proofs' assumptions are evaluated with them.          *)
EXTENDS Publish_proofs
=============================================================================
