-------------------------------- MODULE Fzf --------------------------------
(* The fuzzy file name search (fzf/): loads the file names of all packages   *)
(* into three flat vectors, the arena, and answers a query by walking the    *)
(* tree of every package.  The matcher is fed one path component at a time:  *)
(* what it knows of a directory is computed once and restored for each file  *)
(* and subdirectory in it, directories whose names lack a character of the   *)
(* query are skipped, and a heap keeps the best results.                     *)
(*                                                                           *)
(* Characters are atoms.  A package is the sequence of its directories, as   *)
(* they follow one another in paths.fzf, the root first: each with a name,   *)
(* the names of its files, and which of the later ones are in it.            *)
EXTENDS Integers, Sequences, FiniteSets, SequencesExt

CONSTANTS
  Chars,         \* the characters of names and queries
  Slash,
  Null,          \* what stands for a character outside ASCII
  Upper,         \* lower case letter -> its upper case
  NonAscii,      \* characters outside ASCII
  Separators,    \* _ - . and others that give a bonus to what follows
  Untracked,     \* characters that share bit 0 of a CharSet
  Align, Unit,   \* 4 and 64: a component is packed as start * Unit + length
  MaxResults,
  MaxQuery,      \* 256: the places in a query are bytes
  Inputs,        \* the lists of packages that paths.fzf may hold
  Queries

Letters == DOMAIN Upper \cup {Upper[l] : l \in DOMAIN Upper}
Untold  == Untracked \cup NonAscii

Texts == Seq(Chars)

Nodes == [name : Texts, files : Seq(Texts), dirs : Seq(Nat)]

IsTree(tree) ==
  /\ tree \in Seq(Nodes) /\ tree # <<>>
  /\ \A n \in DOMAIN tree : \A i \in DOMAIN tree[n].dirs :
       tree[n].dirs[i] \in n + 1 .. Len(tree)

ASSUME LimitsType ==
  /\ MaxResults \in Nat \ {0} /\ MaxQuery \in Nat \ {0}
  /\ Align \in Nat \ {0} /\ Unit \in Nat \ {0}
ASSUME CharsType ==
  /\ Slash \in Chars /\ Null \notin Chars
  /\ DOMAIN Upper \subseteq Chars
  /\ \A l \in DOMAIN Upper : Upper[l] \in Chars \ DOMAIN Upper
  /\ \A l, m \in DOMAIN Upper : Upper[l] = Upper[m] => l = m
  /\ (Letters \cup {Slash}) \cap Untold = {} /\ Slash \notin Letters
ASSUME InputsType ==
  /\ \A trees \in Inputs : trees \in Seq(Seq(Nodes)) /\ \A i \in DOMAIN trees : IsTree(trees[i])
  /\ Queries \subseteq Seq(Chars \cup {Null})

VARIABLES
  packages,  \* paths.fzf
  arena,     \* Arena: pchars, files, dirs
  roots,     \* the index: the directories of the packages loaded
  query,     \* the query of the request, <<>> between requests
  next,      \* the package that handle() walks next
  stack,     \* the calls of walk()
  heap,      \* the BinaryHeap of matches, in any order
  reply,     \* the body of the last response
  panicked   \* the process has ended

fzfVars == <<packages, arena, roots, query, next, stack, heap, reply, panicked>>

-----------------------------------------------------------------------------
(* Characters.                                                               *)

Lower(c) == IF \E l \in DOMAIN Upper : Upper[l] = c
            THEN CHOOSE l \in DOMAIN Upper : Upper[l] = c ELSE c

IsUpper(c) == Lower(c) # c

Byte(c) == IF c \in NonAscii THEN Null ELSE c

CharSet(text) ==        \* CharSet::add of every character; Null is bit 0
  {IF c \in Untold THEN Null ELSE Lower(c) : c \in ToSet(text)}

(* A bonus for what starts a component, follows a separator, or is the       *)
(* capital in camelCase.                                                     *)
Bonus(text, i) ==
  IF text[i] \in NonAscii THEN 0
  ELSE LET before == IF i = 1 \/ text[i - 1] = Slash THEN 5
                     ELSE IF text[i - 1] \in Separators THEN 4 ELSE 0
       IN  IF before = 0 /\ IsUpper(text[i]) THEN 2 ELSE before

PChars(text) == [i \in DOMAIN text |-> [byte |-> Byte(text[i]), bonus |-> Bonus(text, i)]]

-----------------------------------------------------------------------------
(* The arena.                                                                *)

Keys        == Chars \cup {Null}
Components  == [data : Nat, char_set : SUBSET Keys]
Directories == [name : Components, char_set : SUBSET Keys,
                fileoff : Nat, filelen : Nat, diroff : Nat, dirlen : Nat]
Arenas      == [pchars : Seq([byte : Keys, bonus : Nat]), files : Seq(Components),
                dirs : Seq(Directories)]

EmptyArena == [pchars |-> <<>>, files |-> <<>>, dirs |-> <<>>]

Padding(pchars) ==
  [i \in 1 .. (-Len(pchars)) % Align |-> [byte |-> Null, bonus |-> 0]]

AddText(a, text) == [a EXCEPT !.pchars = @ \o Padding(@) \o PChars(text)]

(* The component that AddText(a, text) adds: offset and length in one word.  *)
PathComponent(a, text) ==
  [data     |-> Len(a.pchars \o Padding(a.pchars)) * Unit + Len(text),
   char_set |-> CharSet(text) \cup {Slash}]

TooLong(text) == Len(text) >= Align * Unit   \* its length is no byte

Length(comp) == comp.data % (Align * Unit)

Start(comp) == comp.data \div Unit

InRange(a, comp) == Start(comp) + Length(comp) <= Len(a.pchars)

PathIter(a, comp) == SubSeq(a.pchars, Start(comp) + 1, Start(comp) + Length(comp))

PathText(a, comp) ==
  LET chars == PathIter(a, comp) IN [i \in DOMAIN chars |-> chars[i].byte]

AddFile(a, text) ==
  [AddText(a, text) EXCEPT !.files = Append(@, PathComponent(a, text))]

FilesIter(a, d) == SubSeq(a.files, d.fileoff + 1, d.fileoff + d.filelen)
DirsIter(a, d)  == SubSeq(a.dirs, d.diroff + 1, d.diroff + d.dirlen)

(* The vectors hold the files and subdirectories of d; char_set covers all   *)
(* that is below.                                                            *)
CharSets(entries) == UNION {e.char_set : e \in ToSet(entries)}

DirectoryOf(a, d) ==
  [d EXCEPT !.char_set =
     d.name.char_set \cup CharSets(FilesIter(a, d)) \cup CharSets(DirsIter(a, d))]

(* What is known of a directory when its subdirectories are still to come.   *)
Header(a, dir) ==
  [name |-> PathComponent(a, dir.name), char_set |-> {},
   fileoff |-> Len(a.files), filelen |-> Len(dir.files),
   diroff |-> Len(a.dirs), dirlen |-> Len(dir.dirs)]

AddFiles(a, texts) ==
  LET added[i \in 0 .. Len(texts)] == IF i = 0 THEN a ELSE AddFile(added[i - 1], texts[i])
  IN  added[Len(texts)]

Named(a, dir) == AddFiles(AddText(a, dir.name), dir.files)

(* Subdirectories get consecutive places before the first of them is parsed, *)
(* because their own subdirectories go into the same vector.                 *)
Reserved(a, dir) ==
  [Named(a, dir) EXCEPT !.dirs = @ \o [i \in DOMAIN dir.dirs |-> Header(a, dir)]]

(* The arena with the first i subdirectories of directory n.                 *)
Parsings(tree) ==
  {s \in Arenas \X Nat \X Nat : s[2] \in DOMAIN tree /\ s[3] <= Len(tree[s[2]].dirs)}

ParseFrom(tree, parse, a, n, i) ==
  IF i = 0 THEN Reserved(a, tree[n])
  ELSE LET child  == tree[n].dirs[i]
           before == parse[<<a, n, i - 1>>]
           after  == parse[<<before, child, Len(tree[child].dirs)>>]
       IN  [after EXCEPT !.dirs[Len(a.dirs) + i] = DirectoryOf(after, Header(before, tree[child]))]

Parser(tree) ==
  LET parse[s \in Parsings(tree)] == ParseFrom(tree, parse, s[1], s[2], s[3]) IN parse

(* mutant: no places are reserved for the subdirectories *)
ParseInPlace(a, tree) ==
  LET parse[s \in Parsings(tree)] ==
        LET child  == tree[s[2]].dirs[s[3]]
            before == parse[<<s[1], s[2], s[3] - 1>>]
            after  == parse[<<before, child, Len(tree[child].dirs)>>]
        IN  IF s[3] = 0 THEN Named(s[1], tree[s[2]])
            ELSE [after EXCEPT !.dirs = Append(@, DirectoryOf(after, Header(before, tree[child])))]
      full == parse[<<a, 1, Len(tree[1].dirs)>>]
  IN  [arena |-> full, dir |-> DirectoryOf(full, Header(a, tree[1]))]

ParseDirectory(a, tree) ==
  LET full == Parser(tree)[<<a, 1, Len(tree[1].dirs)>>]
  IN  [arena |-> full, dir |-> DirectoryOf(full, Header(a, tree[1]))]

-----------------------------------------------------------------------------
(* The matcher.  states[k] is the best way found to match the first k        *)
(* characters of the query: its score, and the run of consecutive matches    *)
(* that ends it.                                                             *)

NewMatcher(q) ==
  [states   |-> [k \in DOMAIN q |-> [score |-> 0, start |-> 0, end |-> 0]],
   char_set |-> {}, length |-> 0]

Points(q, k, byte) ==   \* Query: lookup[byte], 0 if k is not in it
  IF q[k] = byte THEN 2 ELSE IF Lower(q[k]) = Lower(byte) THEN 1 ELSE 0

(* The state of the k-th character after `byte` at position i matched it,    *)
(* given the state of the one before it in the query.                        *)
NextState(q, k, prev, byte, bonus, i, initial) ==
  LET gain == Points(q, k, byte) + bonus
      run  == k > 1 /\ prev.end = i
  IN  [score |-> gain + (IF k = 1 THEN IF initial THEN 3 ELSE 0 ELSE prev.score)
                      + (IF run THEN 5 * (prev.end - prev.start) ELSE 0),
       start |-> IF run THEN prev.start ELSE i,
       end   |-> i + 1]

(* mutant: the characters of the query are visited from the first on *)
ScoreForward(q, m, byte, bonus, i, initial) ==
  LET new[k \in DOMAIN q] ==
        LET old  == m.states[k]
            prev == IF k = 1 THEN old ELSE new[k - 1]
            nxt  == NextState(q, k, prev, byte, bonus, i, initial)
        IN  IF Points(q, k, byte) > 0 /\ (k = 1 \/ prev.score > 0) /\ nxt.score > old.score
            THEN nxt ELSE old
  IN  [m EXCEPT !.states = [k \in DOMAIN q |-> new[k]],
                !.char_set = IF new = m.states THEN @ ELSE @ \cup CharSet(<<byte>>)]

(* The characters of the query are visited from the last, so each sees the   *)
(* state that the one before it had without this character.                  *)
ScoreChar(q, m, byte, bonus, i, initial) ==
  LET prev(k) == IF k = 1 THEN m.states[1] ELSE m.states[k - 1]
      nxt(k)  == NextState(q, k, prev(k), byte, bonus, i, initial)
      better  == {k \in DOMAIN q : /\ Points(q, k, byte) > 0
                                   /\ k = 1 \/ prev(k).score > 0
                                   /\ nxt(k).score > m.states[k].score}
  IN  [m EXCEPT
         !.states = [k \in DOMAIN q |-> IF k \in better THEN nxt(k) ELSE @[k]],
         !.char_set = IF better = {} THEN @ ELSE @ \cup CharSet(<<byte>>)]

(* The first component of a path counts from 1; a later one starts with a    *)
(* slash at the position of its own first character.                         *)
Advance(q, m, chars, initial) ==
  LET slashed == IF initial THEN m ELSE ScoreChar(q, m, Slash, 0, m.length, initial)
      first   == IF initial THEN m.length + 1 ELSE m.length
      fed[j \in 0 .. Len(chars)] ==
        IF j = 0 THEN slashed
        ELSE ScoreChar(q, fed[j - 1], chars[j].byte, chars[j].bonus, first + j - 1, initial)
  IN  [fed[Len(chars)] EXCEPT !.length = @ + Len(chars)]

Score(m) == Last(m.states).score

(* mutant: what the directories above have matched does not count *)
CoveredByNames(q, m, char_set) == CharSet(q) \subseteq char_set

CoveredBy(q, m, char_set) == CharSet(q) \subseteq char_set \cup m.char_set

-----------------------------------------------------------------------------
(* walk().                                                                   *)

(* A call of walk() for directory d: m is the matcher after its name, which  *)
(* is restored after each file and each subdirectory.                        *)
Call(d, path, m, initial) ==
  [path  |-> IF initial THEN PathText(arena, d.name)
             ELSE path \o <<Slash>> \o PathText(arena, d.name),
   m     |-> Advance(query, m, PathIter(arena, d.name), initial),
   files |-> FilesIter(arena, d),
   dirs  |-> DirsIter(arena, d)]

Top == Last(stack)

Minimum == {i \in DOMAIN heap : \A j \in DOMAIN heap : heap[i].score <= heap[j].score}

(* mutant: a heap that is full keeps what it has *)
OfferFirst(match) ==
  heap' = IF Len(heap) < MaxResults THEN Append(heap, match) ELSE heap

(* Which of several results with the least score is popped is up to the heap.*)
Offer(match) ==
  \/ Len(heap) < MaxResults /\ heap' = Append(heap, match)
  \/ /\ Len(heap) >= MaxResults
     /\ \E least \in Minimum :
          heap' = IF match.score > heap[least].score
                  THEN [heap EXCEPT ![least] = match] ELSE heap

Walking == query # <<>> /\ ~ panicked

StartWalk ==            \* handle: the next package, with a new matcher
  /\ Walking /\ stack = <<>> /\ next <= Len(roots)
  /\ InRange(arena, roots[next].name)
  /\ stack' = <<Call(roots[next], <<>>, NewMatcher(query), TRUE)>>
  /\ next' = next + 1
  /\ UNCHANGED <<packages, arena, roots, query, heap, reply, panicked>>

(* mutant: the matcher is not restored after a file *)
VisitFileAndStay ==
  /\ Walking /\ stack # <<>> /\ Top.files # <<>>
  /\ LET file  == Head(Top.files)
         m     == Advance(query, Top.m, PathIter(arena, file), FALSE)
     IN  /\ InRange(arena, file)
         /\ stack' = [stack EXCEPT ![Len(stack)].files = Tail(@), ![Len(stack)].m = m]
         /\ IF CoveredBy(query, Top.m, file.char_set) /\ Score(m) > 0
            THEN Offer([score |-> Score(m),
                        path |-> Top.path \o <<Slash>> \o PathText(arena, file)])
            ELSE heap' = heap
  /\ UNCHANGED <<packages, arena, roots, query, next, reply, panicked>>

VisitFile ==
  /\ Walking /\ stack # <<>> /\ Top.files # <<>>
  /\ LET file  == Head(Top.files)
         score == Score(Advance(query, Top.m, PathIter(arena, file), FALSE))
     IN  IF CoveredBy(query, Top.m, file.char_set)
         THEN /\ InRange(arena, file)
              /\ IF score > 0
                 THEN Offer([score |-> score,
                             path |-> Top.path \o <<Slash>> \o PathText(arena, file)])
                 ELSE heap' = heap
         ELSE heap' = heap
  /\ stack' = [stack EXCEPT ![Len(stack)].files = Tail(@)]
  /\ UNCHANGED <<packages, arena, roots, query, next, reply, panicked>>

VisitDirectory ==
  /\ Walking /\ stack # <<>> /\ Top.files = <<>> /\ Top.dirs # <<>>
  /\ LET child == Head(Top.dirs)
         rest  == [stack EXCEPT ![Len(stack)].dirs = Tail(@)]
     IN  IF CoveredBy(query, Top.m, child.char_set)
         THEN /\ InRange(arena, child.name)
              /\ stack' = Append(rest, Call(child, Top.path, Top.m, FALSE))
         ELSE stack' = rest
  /\ UNCHANGED <<packages, arena, roots, query, next, heap, reply, panicked>>

LeaveDirectory ==
  /\ Walking /\ stack # <<>> /\ Top.files = <<>> /\ Top.dirs = <<>>
  /\ stack' = Front(stack)
  /\ UNCHANGED <<packages, arena, roots, query, next, heap, reply, panicked>>

(* A component that would be read past the end of the arena: the server, one *)
(* thread, ends.                                                             *)
Panic ==
  /\ Walking
  /\ \/ /\ stack = <<>> /\ next <= Len(roots)
        /\ ~ InRange(arena, roots[next].name)
     \/ /\ stack # <<>> /\ Top.files # <<>>
        /\ CoveredBy(query, Top.m, Head(Top.files).char_set)
        /\ ~ InRange(arena, Head(Top.files))
     \/ /\ stack # <<>> /\ Top.files = <<>> /\ Top.dirs # <<>>
        /\ CoveredBy(query, Top.m, Head(Top.dirs).char_set)
        /\ ~ InRange(arena, Head(Top.dirs).name)
  /\ panicked' = TRUE
  /\ UNCHANGED <<packages, arena, roots, query, next, stack, heap, reply>>

-----------------------------------------------------------------------------
NoReply == [status |-> 0, query |-> <<>>, results |-> <<>>, truncated |-> FALSE]

FzfInit ==
  /\ packages \in Inputs
  /\ arena = EmptyArena /\ roots = <<>>
  /\ query = <<>> /\ next = 1 /\ stack = <<>> /\ heap = <<>>
  /\ reply = NoReply /\ panicked = FALSE

Unloadable(tree) ==
  \E n \in DOMAIN tree : \E text \in {tree[n].name} \cup ToSet(tree[n].files) : TooLong(text)

Load ==                 \* one package of Arena::load
  /\ Len(roots) < Len(packages) /\ ~ panicked
  /\ ~ Unloadable(packages[Len(roots) + 1])
  /\ LET p == ParseDirectory(arena, packages[Len(roots) + 1])
     IN  arena' = p.arena /\ roots' = Append(roots, p.dir)
  /\ UNCHANGED <<packages, query, next, stack, heap, reply, panicked>>

LoadPanics ==           \* "path component too long"
  /\ Len(roots) < Len(packages) /\ ~ panicked
  /\ Unloadable(packages[Len(roots) + 1])
  /\ panicked' = TRUE
  /\ UNCHANGED <<packages, arena, roots, query, next, stack, heap, reply>>

(* Query::new: the request is refused if the query is empty, not ASCII, or   *)
(* so long that an index into it is no byte.                                 *)
Request(q) ==
  /\ Len(roots) = Len(packages) /\ query = <<>> /\ ~ panicked
  /\ heap' = <<>> /\ next' = 1
  /\ IF q = <<>> \/ ToSet(q) \cap (NonAscii \cup {Null}) # {} \/ Len(q) > MaxQuery
     THEN query' = <<>> /\ reply' = [NoReply EXCEPT !.status = 400]
     ELSE query' = q /\ reply' = NoReply
  /\ UNCHANGED <<packages, arena, roots, stack, panicked>>

(* The best first; the order of equal ones is up to the heap.                *)
Orders ==
  {order \in Bijection(DOMAIN heap, DOMAIN heap) :
     \A i, j \in DOMAIN heap : i < j => heap[order[i]].score >= heap[order[j]].score}

Respond ==
  /\ Walking /\ stack = <<>> /\ next > Len(roots)
  /\ \E order \in Orders :
       reply' = [status |-> 200, query |-> query,
                 results |-> [i \in DOMAIN heap |-> heap[order[i]]],
                 truncated |-> Len(heap) >= MaxResults]
  /\ query' = <<>> /\ heap' = <<>> /\ next' = 1
  /\ UNCHANGED <<packages, arena, roots, stack, panicked>>

Walk == StartWalk \/ VisitFile \/ VisitDirectory \/ LeaveDirectory \/ Panic

FzfNext ==
  \/ Load \/ LoadPanics \/ Walk \/ Respond
  \/ \E q \in Queries : Request(q)

FzfSpec == FzfInit /\ [][FzfNext]_fzfVars

-----------------------------------------------------------------------------
(* What the search should find, from the trees themselves.                   *)

Printed(text) == [i \in DOMAIN text |-> Byte(text[i])]

(* That d in the arena is directory n of the tree.                           *)
HoldsFrom(a, tree, holds, d, n) ==
  LET files == FilesIter(a, d)
      dirs  == DirsIter(a, d)
  IN  /\ d.fileoff + d.filelen <= Len(a.files) /\ d.diroff + d.dirlen <= Len(a.dirs)
      /\ PathText(a, d.name) = Printed(tree[n].name)
      /\ [i \in DOMAIN files |-> PathText(a, files[i])]
           = [i \in DOMAIN tree[n].files |-> Printed(tree[n].files[i])]
      /\ DOMAIN dirs = DOMAIN tree[n].dirs
      /\ \A i \in DOMAIN dirs : holds[<<dirs[i], tree[n].dirs[i]>>]

Holder(a, tree) ==
  LET holds[s \in Directories \X (DOMAIN tree)] == HoldsFrom(a, tree, holds, s[1], s[2]) IN holds

(* The names along a path.                                                   *)
Paths == Seq(Texts) \ {<<>>}

(* The files in and below each directory of a tree.                          *)
FilesBelow(tree) ==
  LET below[n \in DOMAIN tree] ==
        {<<tree[n].name, f>> : f \in ToSet(tree[n].files)}
        \cup {<<tree[n].name>> \o p : p \in UNION {below[m] : m \in ToSet(tree[n].dirs)}}
  IN  below

AllFiles == UNION {FilesBelow(tree)[1] : tree \in ToSet(packages)}

Joined[names \in Paths] ==
  IF Len(names) = 1 THEN Printed(names[1])
  ELSE Joined[Front(names)] \o <<Slash>> \o Printed(Last(names))

(* q is a subsequence of text, without regard to case.                       *)
Matches(text, q) ==
  \E at \in [DOMAIN q -> DOMAIN text] :
    /\ \A k \in DOMAIN q : Lower(text[at[k]]) = Lower(q[k])
    /\ \A k, l \in DOMAIN q : k < l => at[k] < at[l]

(* The score of a path by a matcher that is used for nothing else, and is    *)
(* fed the components of the path as walk() feeds them.                      *)
MatcherAfter(q) ==
  LET after[names \in Paths] ==
        IF Len(names) = 1 THEN Advance(q, NewMatcher(q), PChars(names[1]), TRUE)
        ELSE Advance(q, after[Front(names)], PChars(Last(names)), FALSE)
  IN  after

ScoreOf(names, q) == Score(MatcherAfter(q)[names])

(* No name is so long that its length spills into its offset.                *)
Fits(tree) ==
  \A n \in DOMAIN tree :
    Len(tree[n].name) < Unit /\ \A f \in ToSet(tree[n].files) : Len(f) < Unit

NamesFit == \A tree \in ToSet(packages) : Fits(tree)

Results == ToSet(reply.results)

-----------------------------------------------------------------------------
(* The flat vectors hold the trees that were published: every directory has  *)
(* its own files and subdirectories, in their order, however they nest, as   *)
(* long as names fit (directory.rs reads longer ones from a wrong offset).   *)
ArenaHoldsTrees ==
  NamesFit => \A i \in DOMAIN roots : Holder(arena, packages[i])[<<roots[i], 1>>]

(* A reply lists only paths that contain the query, and, unless it says that *)
(* it is truncated, all of them: skipping directories by the set of their    *)
(* characters and reusing the matcher of a directory lose and invent nothing.*)
FindsSubsequences ==
  NamesFit /\ reply.status = 200 =>
    LET matching == {Joined[f] : f \in {g \in AllFiles : Matches(Joined[g], reply.query)}}
        found    == {r.path : r \in Results}
    IN  found \subseteq matching /\ (~ reply.truncated => found = matching)

(* A reply shows the best results: each with the score that its path gets    *)
(* from a new matcher which is fed the components one after the other, best  *)
(* first, and no path left out has a better one.  That is not the score of   *)
(* the path in one piece: see ScoredAsWhole.                                 *)
BestFirst ==
  NamesFit /\ reply.status = 200 =>
    /\ \A i \in DOMAIN reply.results \ {1} :
         reply.results[i].score <= reply.results[i - 1].score
    /\ \A f \in AllFiles :
         LET score == ScoreOf(f, reply.query)
         IN  \/ [score |-> score, path |-> Joined[f]] \in Results
             \/ score = 0
             \/ Len(reply.results) = MaxResults /\ score <= Last(reply.results).score

(* The score of a path does not depend on where it is cut into components    *)
(* (the tests advance_score_simple and advance_score_tail of matcher.rs).    *)
ScoredAsWhole ==
  reply.status = 200 =>
    \A r \in Results :
      r.score = Score(Advance(reply.query, NewMatcher(reply.query), PChars(r.path), TRUE))

=============================================================================
