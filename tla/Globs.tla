-------------------------------- MODULE Globs --------------------------------
(* The include and exclude globs of a search (Globs in grep/serve.go).  Files *)
(* are selected by MatchPath; CanMatchPrefix and MustMatchPrefix let the      *)
(* handler skip a whole package before it looks at the files.                 *)
(*                                                                            *)
(* A name is a sequence of fragments, with "/" between the parts of a path.   *)
(* In a glob "*" stands for fragments of one part, and "**", as a part of its *)
(* own, for any number of parts.  What else doublestar reads in a glob, a ?,  *)
(* a class [ab], alternatives {a,b} or an escape \a, is one fragment of it,   *)
(* together with the letters that it shares a fragment of a name with: the    *)
(* wildcards, each with the fragments that it may stand for (none if it is    *)
(* malformed).  Alternatives with a "/" in them are outside the model.        *)
EXTENDS Naturals, Sequences, SequencesExt

CONSTANTS
  Fragments,  \* what names and globs are made of
  Meaning     \* wildcard -> what it stands for

Stars     == {"*", "**"}
Wildcards == DOMAIN Meaning

ASSUME FragmentsType == {"/"} \cup Stars \subseteq Fragments
ASSUME MeaningType ==
  /\ Wildcards \subseteq Fragments \ ({"/"} \cup Stars)
  /\ \A w \in Wildcards : Meaning[w] \subseteq Seq(Fragments \ {"/"})

(* "**" is a part of its own: elsewhere doublestar takes two stars for one.   *)
IsGlob(g) ==
  /\ g \in Seq(Fragments)
  /\ \A i \in DOMAIN g : g[i] = "**" => /\ i = 1 \/ g[i - 1] = "/"
                                        /\ i = Len(g) \/ g[i + 1] = "/"

(* doublestar.Match: m[<<i, j>>] says whether glob from i on matches path     *)
(* from j.                                                                    *)
Match(glob, path) ==
  LET m[at \in (1 .. Len(glob) + 1) \X (1 .. Len(path) + 1)] ==
        LET i == at[1]
            j == at[2]
        IN  IF i > Len(glob) THEN j > Len(path)
            ELSE \/ /\ glob[i] = "**"
                    /\ \/ i = Len(glob)
                       \/ \E k \in j .. Len(path) :
                            (k = j \/ path[k - 1] = "/") /\ m[<<i + 2, k>>]
                 \/ /\ glob[i] = "*"
                    /\ \E k \in j .. Len(path) + 1 :
                         (\A n \in j .. k - 1 : path[n] # "/") /\ m[<<i + 1, k>>]
                 \/ /\ glob[i] \in Wildcards
                    /\ \E k \in j .. Len(path) + 1 :
                         SubSeq(path, j, k - 1) \in Meaning[glob[i]] /\ m[<<i + 1, k>>]
                 \/ /\ glob[i] \notin Stars \cup Wildcards
                    /\ j <= Len(path) /\ path[j] = glob[i] /\ m[<<i + 1, j + 1>>]
  IN  m[<<1, 1>>]

MatchPath(globs, path) ==
  \E g \in globs : Match(g, path) \/ Match(g \o <<"/", "**">>, path)

(* What precedes the first star, compared with the name of the package.  A    *)
(* wildcard is compared as it is written, and no package is called so.        *)
CanMatchPrefix(globs, part) ==
  \E g \in globs :
    LET isStar(s) == s \in Stars
        star == SelectInSeq(g, isStar)
        gfx  == IF star = 0 THEN g ELSE SubSeq(g, 1, star - 1)
        prefix == Append(part, "/")
    IN  IsPrefix(gfx, prefix) \/ IsPrefix(prefix, gfx)

(* The first part that is not "**" (from n to e) matches the package, and the *)
(* part after it is "**"; what comes after that is not looked at.             *)
MustMatchPrefix(globs, part) ==
  \E g \in globs : \E n, e \in DOMAIN g :
    /\ \A i \in 1 .. n - 1 : g[i] = IF i % 2 = 1 THEN "**" ELSE "/"
    /\ g[n] # "**" /\ "/" \notin ToSet(SubSeq(g, n, e - 1))
    /\ n < e /\ e < Len(g)
    /\ g[e] = "/" /\ g[e + 1] = "**"
    /\ Match(SubSeq(g, n, e - 1), part)

=============================================================================
