---------------------------- MODULE MCGrepSearch ----------------------------
(* Three packages whose names are hard cases of string order:                *)
(*   apt < apt-utils < apt-utils/a < apt/a < apt/b < libapt < libapt/a       *)
(* and lxc, which sorts after libapt but is globbed before it, because its   *)
(* directory is l/lxc and the other's is liba/libapt.                        *)
EXTENDS GrepSearch, TLC

CONSTANTS apt, utils, libapt, lxc, apt_a, apt_b, utils_a, libapt_a, lxc_a

MCOrder == <<apt, utils, utils_a, apt_a, apt_b, libapt, libapt_a, lxc, lxc_a>>

MCRank == [n \in ToSet(MCOrder) |-> CHOOSE i \in DOMAIN MCOrder : MCOrder[i] = n]

MCGlob == <<apt, utils, lxc, libapt>>

MCWalk == [p \in {apt, utils, libapt, lxc} |->
             IF p = apt THEN <<apt_a, apt_b>>
             ELSE IF p = utils THEN <<utils_a>>
             ELSE IF p = libapt THEN <<libapt_a>> ELSE <<lxc_a>>]

MCSpelling ==
  [n \in ToSet(MCOrder) |->
     CASE n = apt      -> <<"apt">>
       [] n = utils    -> <<"apt", "-utils">>
       [] n = libapt   -> <<"lib", "apt">>
       [] n = lxc      -> <<"lxc">>
       [] n = apt_a    -> <<"apt", "/", "a">>
       [] n = apt_b    -> <<"apt", "/", "src", "/", "b">>
       [] n = utils_a  -> <<"apt", "-utils", "/", "a">>
       [] n = libapt_a -> <<"lib", "apt", "/", "src", "/", "a">>
       [] n = lxc_a    -> <<"lxc", "/", "a">>]

MCMeaning ==
  ("?" :> {<<"a">>, <<"b">>}) @@ ("?xc" :> {<<"lxc">>}) @@ ("[a-m]pt" :> {<<"apt">>})
    @@ ("{apt,lxc}" :> {<<"apt">>, <<"lxc">>}) @@ ("{-utils,}" :> {<<"-utils">>, <<>>})
    @@ ("{a,src}" :> {<<"a">>, <<"src">>}) @@ ("\\apt" :> {<<"apt">>}) @@ ("{a" :> {})

MCFragments ==
  {"/", "*", "**", "apt", "-utils", "lib", "lxc", "src", "a", "b"} \cup DOMAIN MCMeaning

(* a package, all that starts like it, its files, a file anywhere, a file    *)
(* at one depth, a directory anywhere, wildcards of each form behind a slash *)
(* or a star, one of them malformed                                          *)
MCGlobs ==
  { <<"apt">>, <<"apt", "*", "/", "a">>, <<"apt", "/", "**">>, <<"**", "/", "a">>,
    <<"*", "/", "a">>, <<"**", "/", "apt", "/", "**">>, <<"**", "/", "src">>,
    <<"apt", "/", "src">>, <<"*", "apt", "/", "**">>,
    <<"apt", "/", "{a,src}">>, <<"lxc", "/", "?">>, <<"**", "/", "[a-m]pt", "/", "{a,src}">>,
    <<"*", "{-utils,}", "/", "a">>, <<"apt", "/", "{a">> }

(* and those that the filters misjudge, as includes or as excludes           *)
BadGlobs ==
  { <<"{apt,lxc}", "/", "a">>, <<"apt", "{-utils,}">>, <<"[a-m]pt", "/", "**">>, <<"\\apt">>,
    <<"?xc", "/", "a">>, <<"apt", "/", "**", "/", "b">> }

(* FiltersAgree leaves none of them out for nothing: for each, a package is  *)
(* skipped with a file that is included, or that is not excluded.            *)
ASSUME FiltersMisjudge ==
  \A g \in BadGlobs : \E p \in Packages : \E f \in ToSet(Walk[p]) :
    \/ MatchPath({g}, Spelling[f]) /\ ~ CanMatchPrefix({g}, Spelling[p])
    \/ MustMatchPrefix({g}, Spelling[p]) /\ ~ MatchPath({g}, Spelling[f])

Query(i, x, context) == [includes |-> i, excludes |-> x, context |-> context]

MCQueries ==
  { Query({}, {}, 0), Query({<<"apt">>, <<"**", "/", "b">>}, {<<"**", "/", "a">>}, 0),
    Query({<<"*", "apt", "/", "**">>}, {<<"apt", "/", "src">>}, 0) }
    \cup UNION {{Query({g}, {}, 0), Query({}, {g}, 0)} : g \in MCGlobs \cup BadGlobs}

(* A file without newlines and a match at its start; and one without text.   *)
OneMatch == [kind |-> "ok", text |-> [size |-> 1, newlines |-> {}, hits |-> (0 :> 1)]]
NotRead(kind) == [kind |-> kind, text |-> [size |-> 0, newlines |-> {}, hits |-> <<>>]]

SomeFiles == UNION {[fs -> {OneMatch, NotRead("gone"), NotRead("refused")}] : fs \in SUBSET Files}

(* at most one that is not read *)
MostFiles == {fs \in SomeFiles : Cardinality({f \in DOMAIN fs : fs[f] # OneMatch}) <= 1}

(* Texts of this size: newlines anywhere, and matches that start at so many  *)
(* of the offsets, or fewer, and end anywhere behind their start.            *)
Texts(size, matches) ==
  {[size |-> size, newlines |-> nl, hits |-> h] :
     nl \in SUBSET (0 .. size - 1),
     h \in UNION {{g \in [starts -> 0 .. size] : \A s \in starts : g[s] >= s} :
                    starts \in UNION {kSubset(k, 0 .. size) : k \in 0 .. matches}}}

Text1 == [context : {0, 1}, text : UNION {Texts(size, size + 1) : size \in 0 .. 3}]
Text2 == [context : {1}, text : Texts(4, 2)]
Text3 == [context : {2}, text : Texts(5, 1)]

Searched(q, fs) == [query |-> q, content |-> fs]

NoGlobs == {Searched(Query({}, {}, 0), fs) : fs \in SomeFiles}

(* all files in one package, which does not fit in a page of one visit       *)
OnePackage == {Searched(Query({}, {}, 0), [f \in {apt_a, apt_b} |-> OneMatch])}

MCSearches ==
  NoGlobs
    \cup {Searched(q, fs) : q \in MCQueries, fs \in MostFiles}
    \cup {Searched(Query({}, {}, t.context), apt_a :> [kind |-> "ok", text |-> t.text]) :
            t \in Text1 \cup Text2 \cup Text3}

=============================================================================
