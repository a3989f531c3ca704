------------------------------ MODULE MCMirror ------------------------------
(* Two areas with two components.  Release files are well-formed, or lack a  *)
(* component, or name one twice.                                             *)
EXTENDS Mirror

CONSTANTS zero, none, h1, h2, h3

MCAreas == <<"updates", "">>
MCComponents == <<"main", "universe">>

Stanza(n, v) == [name |-> n, version |-> v]

(* a file of no bytes, an index of no packages (a file of some bytes), one   *)
(* package, another version and a second package, two versions of one        *)
MCContent ==
  [h \in {zero, none, h1, h2, h3} |->
     CASE h \in {zero, none} -> <<>>
       [] h = h1   -> <<Stanza("apt", 1)>>
       [] h = h2   -> <<Stanza("linux", 1), Stanza("apt", 2)>>
       [] h = h3   -> <<Stanza("linux", 2), Stanza("linux", 3)>>]

MCReleases ==
  LET entry(c, h) == [name |-> c, hash |-> h]
  IN  {<<entry("main", g), entry("universe", h)>> : g, h \in {zero, h1, h2, h3}}
        \cup { <<entry("universe", h1), entry("contrib", zero), entry("main", h3)>>,
               <<entry("main", none), entry("universe", h2)>>,
               <<entry("main", h3), entry("universe", none)>>,
               <<entry("main", h1)>>,
               <<entry("main", h1), entry("universe", h2), entry("main", h1)>> }
=============================================================================
