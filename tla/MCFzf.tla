-------------------------------- MODULE MCFzf --------------------------------
(* Small packages for Fzf.  Names have a capital inside, a separator, a      *)
(* character outside ASCII, or four letters, which is too many for the       *)
(* scaled word in which a name is packed; one has so many that no package is *)
(* served.                                                                   *)
EXTENDS Fzf

MCUpper == [l \in {"a", "b"} |-> IF l = "a" THEN "A" ELSE "B"]

MCChars == {"a", "b", "A", "B", "/", "_", "~"}

(* A directory with the packages `dirs` in it.                               *)
Tree(name, files, dirs) ==
  LET place(i) == 2 + FoldLeft(LAMBDA n, d : n + Len(d), 0, SubSeq(dirs, 1, i - 1))
      moved(i) == [n \in DOMAIN dirs[i] |->
                     [dirs[i][n] EXCEPT !.dirs = [k \in DOMAIN @ |-> @[k] + place(i) - 1]]]
  IN  <<[name |-> name, files |-> files, dirs |-> [i \in DOMAIN dirs |-> place(i)]]>>
        \o FlattenSeq([i \in DOMAIN dirs |-> moved(i)])

FileLists == {<<>>, <<<<"a">>>>, <<<<"b", "A">>, <<"a", "_", "b">>>>, <<<<"~", "b">>>>}

Leaves == {Tree(name, files, <<>>) : name \in {<<"a">>, <<"b">>}, files \in FileLists}

Inner ==
  {Tree(<<"_">>, files, dirs) :
     files \in {<<>>, <<<<"b">>>>},
     dirs \in {<<Tree(<<"a">>, fs, <<>>), Tree(<<"b">>, gs, <<>>)>> :
                 fs \in FileLists, gs \in FileLists}}

Long    == <<"a", "b", "a", "b">>
Longest == Long \o Long \o Long \o Long

MCInputs ==
  {<<Tree(name, files, <<d, Tree(<<"B">>, <<<<"a">>>>, <<>>)>>)>> :
     name \in {<<"a">>, <<"b", "b">>}, files \in {<<>>, <<<<"a", "b">>>>}, d \in Inner}
  \cup {<<Tree(<<"a">>, files, <<d>>), Tree(<<"b">>, files, <<>>)>> :
          files \in FileLists, d \in Leaves}
  \cup {<<Tree(<<"a">>, files, <<>>)>> : files \in {<<Long>>, <<Long, <<"a", "b">>>>}}
  \cup {<<Tree(<<"a">>, <<<<"b">>>>, <<>>), Tree(<<"b">>, <<>>, <<Tree(<<"a">>, <<Longest>>, <<>>)>>)>>}
  \cup {<<Tree(Long, <<>>, <<>>)>>, <<Tree(<<"a">>, <<>>, <<Tree(Long, <<>>, <<>>)>>)>>}

MCQueries ==
  UNION {[1 .. n -> {"a", "B", "/", "_"}] : n \in 0 .. 3} \cup {<<"~">>, <<"a", "~">>, Long}

(* a/b/a and the query ab/a                                                  *)
Nested   == {<<Tree(<<"a">>, <<>>, <<Tree(<<"b">>, <<<<"a">>>>, <<>>)>>)>>}
OneQuery == {<<"a", "b", "/", "a">>}

=============================================================================
