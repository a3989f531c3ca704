------------------------------ MODULE MCBrowser ------------------------------
(* Small instances of Browser: packages with a directory d, a file d/f, a    *)
(* link l beside d and a link d/m, where the links lead anywhere; and two    *)
(* versions of a package whose files differ.                                 *)
EXTENDS Browser

CONSTANTS apt, v1, v2

File(sha, text, tagged) ==
  [kind |-> "file", sha256 |-> <<sha>>, text |-> text, tagged |-> tagged]
Link(to, away)  == [kind |-> "link", to |-> to, away |-> away]
Dir  == [kind |-> "dir"]
Pipe == [kind |-> "pipe"]

TwoLinks(l, m, away) ==
  [p \in {<<>>, <<"d">>, <<"d", "f">>, <<"d", "m">>, <<"l">>, <<"p">>} |->
     CASE p = <<"d", "f">> -> File("f1", TRUE, TRUE)
       [] p = <<"d", "m">> -> Link(m, away)
       [] p = <<"l">>      -> Link(l, away)
       [] p = <<"p">>      -> Pipe
       [] OTHER            -> Dir]

Parts == {"d", "f", "l", "m", "p", ".", "..", ""}

Short == {<<a>> : a \in Parts \ {""}} \cup {<<a, b>> : a, b \in Parts}
Long  == Short \cup {<<"..", a, b>> : a, b \in Parts}

OneVersion ==
  {TwoLinks(l, m, away) :
     l \in Short, m \in {<<"f">>, <<"..", "d", "f">>, <<"..", "l">>, <<"..">>},
     away \in {TRUE}}
  \cup {TwoLinks(l, m, away) :
     l \in {<<"d">>, <<"d", "m">>, <<".">>, <<"d", "">>}, m \in Long, away \in {FALSE}}

(* in v2, f has other content and no tags, g is new and binary, and d/m is   *)
(* gone                                                                      *)
V2 == [p \in {<<>>, <<"d">>, <<"d", "f">>, <<"g">>} |->
         CASE p = <<"d", "f">> -> File("f2", TRUE, FALSE)
           [] p = <<"g">>      -> File("g", FALSE, TRUE)
           [] OTHER            -> Dir]

MCDisks ==
  {[x \in {<<apt, v1>>} |-> d] : d \in OneVersion}
  \cup {[x \in {<<apt, v1>>, <<apt, v2>>} |->
           IF x[2] = v1 THEN TwoLinks(<<"d">>, <<"f">>, FALSE) ELSE V2]}

(* The hypothesis of Browser_proofs on the packages, as far as TLC can see:  *)
(* links that the kernel gives up on at MaxFollowed are loops.               *)
ASSUME FewLinksHere ==
  \A D \in MCDisks : \A x \in DOMAIN D : \A p \in LinksOf(D[x]) : \A k \in 0 .. 20 :
    OnDiskWithin(D[x], p, k) # Loop => OnDisk(D[x], p) # Loop
=============================================================================
