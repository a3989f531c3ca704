----------------------------- MODULE GrepSearch -----------------------------
(* grepHandler.ServeHTTP (grep/serve.go): a search over the indexes of a     *)
(* distribution, in pages.  A page visits at most maxFileVisits files; when  *)
(* it reaches that limit it names the last file visited ("Resume:"), and the *)
(* client asks for the next page with after=<that file>.  The handler keeps  *)
(* no state: where a page starts is decided by comparing names with `after`, *)
(* as strings, while the order of the visit is that of filepath.Glob for the *)
(* indexes and of the walk of the package for the files of one index.        *)
(*                                                                           *)
(* Names are abstract; Rank is the position of a name in string order, and   *)
(* Spelling is what the globs of a query are matched against.  A file is     *)
(* "ok" and has a text (module LineMatcher), or "gone" (it cannot be opened) *)
(* or "refused" (Grep.Reader returns an error, as it is 1 MiB or longer).    *)
EXTENDS Globs, LineMatcher, SequencesExt

CONSTANTS
  Packages, Files,   \* package names; paths that start with their package
  Rank,              \* Packages and Files -> Nat, injective: string order
  Glob,              \* the indexes, in the order of the glob
  Walk,              \* package -> its files, in the order of fileids
  Spelling,          \* Packages and Files -> fragments
  Searches,          \* records of a query, with include globs, exclude globs
                     \* and lines of context, and of the files that it may find
  NoFile,            \* no `after` parameter, no "Resume:" footer
  MaxFileVisits,
  MaxPages           \* bound: pages that a client asks for

ASSUME RankType == /\ Rank \in [Packages \cup Files -> Nat]
                   /\ \A x, y \in DOMAIN Rank : Rank[x] = Rank[y] => x = y
ASSUME PageType == MaxFileVisits \in Nat \ {0} /\ MaxPages \in Nat
ASSUME NoFileType == NoFile \notin Files
ASSUME WalkType == /\ Glob \in Seq(Packages) /\ Walk \in [Packages -> Seq(Files)]
                   /\ \A f \in Files : \E i \in DOMAIN Glob : f \in ToSet(Walk[Glob[i]])
ASSUME SpellingType ==
  /\ Spelling \in [Packages \cup Files -> Seq(Fragments)]
  /\ \A p \in Packages :
       /\ "/" \notin ToSet(Spelling[p])
       /\ \A f \in ToSet(Walk[p]) : IsPrefix(Append(Spelling[p], "/"), Spelling[f])
ASSUME SearchesType ==
  \A s \in Searches :
    /\ s.query.context \in Nat
    /\ \A g \in s.query.includes \cup s.query.excludes : IsGlob(g)
    /\ DOMAIN s.content \subseteq Files
    /\ \A f \in DOMAIN s.content : s.content[f].kind = "ok" => IsText(s.content[f].text)

VARIABLES
  query,    \* the same for every page
  content,  \* the files that PostingQuery returns, each with what it holds
  after,    \* parameter of the next request
  pages,    \* number of pages answered
  page,     \* positions of the files searched for the last page
  printed,  \* lines of all pages, each with its file
  errors,   \* files with an error in the footer of some page
  done      \* the last page had no "Resume:" footer

vars == <<query, content, after, pages, page, printed, errors, done>>

IsAfter(x, a) == a = NoFile \/ Rank[x] > Rank[a]

Selects(f) ==
  /\ query.includes = {} \/ MatchPath(query.includes, Spelling[f])
  /\ ~ MatchPath(query.excludes, Spelling[f])

(* mutant: a package is skipped if an exclude glob can match in it *)
SkipsExcluded(p) ==
  \/ query.includes # {} /\ ~ CanMatchPrefix(query.includes, Spelling[p])
  \/ CanMatchPrefix(query.excludes, Spelling[p])

(* The index of p is not searched. *)
Skips(p) ==
  \/ query.includes # {} /\ ~ CanMatchPrefix(query.includes, Spelling[p])
  \/ MustMatchPrefix(query.excludes, Spelling[p])

(* The order of the visit: a position is one of an index in the glob, and    *)
(* one of a file in the index.                                               *)
Positions      == UNION {{i} \X DOMAIN Walk[Glob[i]] : i \in DOMAIN Glob}
PackageAt(v)   == Glob[v[1]]
FileAt(v)      == Walk[PackageAt(v)][v[2]]
Precedes(u, v) == u[1] < v[1] \/ (u[1] = v[1] /\ u[2] < v[2])

(* mutant: the parameter is not read *)
CandidatesFromStart(a) ==
  {v \in Positions : FileAt(v) \in DOMAIN content /\ Selects(FileAt(v))}

(* What the two loops come to: the files of the indexes that are not skipped. *)
Candidates(a) ==
  {v \in Positions :
     /\ ~ Skips(PackageAt(v)) /\ IsAfter(PackageAt(v), a)
     /\ FileAt(v) \in DOMAIN content /\ Selects(FileAt(v)) /\ IsAfter(FileAt(v), a)}

Opened(files) == {v \in files : content[FileAt(v)].kind # "gone"}

(* mutant: a file that cannot be opened counts as a visit *)
ScansCandidates(a) ==
  LET files == Candidates(a)
  IN  {v \in files : Cardinality({u \in files : Precedes(u, v)}) < MaxFileVisits}

(* The files of a page, up to the one that makes the last visit. *)
Scans(a) ==
  LET files == Candidates(a)
  IN  {v \in files : Cardinality({u \in Opened(files) : Precedes(u, v)}) < MaxFileVisits}

(* `files >= maxFileVisits`, also when there was nothing more to visit *)
Resume(visits) ==
  IF Cardinality(visits) < MaxFileVisits THEN NoFile
  ELSE FileAt(CHOOSE v \in visits : \A u \in visits : u = v \/ Precedes(u, v))

(* What Grep.Reader prints of it. *)
Prints(f) ==
  IF content[f].kind # "ok" THEN {}
  ELSE {[file |-> f, line |-> p] : p \in ToSet(Reader(content[f].text, query.context))}

(* mutant: only what os.Open returns is an error *)
OpenErrors(files) == {f \in {FileAt(v) : v \in files} : content[f].kind = "gone"}

Errors(files) == {f \in {FileAt(v) : v \in files} : content[f].kind # "ok"}

Init ==
  /\ \E s \in Searches : query = s.query /\ content = s.content
  /\ after = NoFile /\ pages = 0
  /\ page = {} /\ printed = {} /\ errors = {} /\ done = FALSE

ServePage ==
  /\ ~ done /\ pages < MaxPages
  /\ LET files == Scans(after) IN
       /\ page' = Opened(files)
       /\ errors' = errors \cup Errors(files)
  /\ printed' = printed \cup UNION {Prints(FileAt(v)) : v \in page'}
  /\ pages' = pages + 1
  /\ after' = Resume(page')
  /\ done' = (after' = NoFile)
  /\ UNCHANGED <<query, content>>

Next == ServePage

Spec == Init /\ [][Next]_vars

(* a client that clicks "Load More Results" as long as it is offered *)
FairSpec == Spec /\ WF_vars(Next)

-----------------------------------------------------------------------------
Wanted  == {f \in DOMAIN content : Selects(f)}
Found   == {f \in Wanted : content[f].kind = "ok"}
Text(f) == content[f].text

(* Some line of a page is about the match at offset s of the file f. *)
Shown(f, s) ==
  \E p \in printed : p.file = f /\ ClientRange(Text(f), p.line) = RangeOf(Text(f), s)

(* Enough for a package to be skipped only if none of its files is selected: *)
(* includes with no wildcard before their first star or slash, and excludes  *)
(* with nothing behind a "**" that is itself behind another part.  The code  *)
(* takes other globs too, and does not do right by them: the includes ?/a,   *)
(* {apt,dpkg}/a, [ab]pt and \apt, whose start CanMatchPrefix compares letter *)
(* by letter, and the exclude apt/**/b, hide files that they do not hide by  *)
(* themselves.                                                               *)
FiltersAgree ==
  /\ \A g \in query.includes : \A i \in DOMAIN g :
       g[i] \in Wildcards => \E j \in 1 .. i - 1 : g[j] \in Stars \cup {"/"}
  /\ \A g \in query.excludes : \A i \in DOMAIN g :
       g[i] = "**" => i = Len(g) \/ ToSet(SubSeq(g, 1, i)) \subseteq {"**", "/"}

(* The first match of every line with one, of every file that was selected   *)
(* and can be read.                                                          *)
AllShown == \A f \in Found : \A s \in Required(Text(f)) : Shown(f, s)

(* A search that fits in one page shows all, whatever files cannot be read   *)
(* and whatever packages the globs let it skip, if the globs are of the      *)
(* forms that the filters can judge.                                         *)
SinglePageComplete == done /\ pages = 1 /\ FiltersAgree => AllShown

(* "Errors:" is there if a file that was selected was not searched, and only *)
(* then: a list without a warning is the whole list.                         *)
ErrorsReported == done /\ pages = 1 /\ FiltersAgree => errors = Wanted \ Found

(* Each line of a response leads the editor to a match, to both of its ends  *)
(* on whichever lines they are, and shows the lines around it under their    *)
(* own numbers: as many as asked for, unless the file begins or ends.        *)
RangesAreMatches ==
  \A p \in printed :
    /\ p.file \in Found
    /\ \E s \in FirstOfLine(Text(p.file)) :
         /\ ClientRange(Text(p.file), p.line) = RangeOf(Text(p.file), s)
         /\ ClientContext(Text(p.file), p.line)
              = ContextLines(Text(p.file), s, query.context)
         /\ Newlines(Text(p.file), 0, p.line.from) + 1 = p.line.contextStart

(* A client that keeps loading more comes to the end, although the visit is  *)
(* not in the order of names: no page sends the client back.                 *)
SearchEnds == <>done

(* "Load next page of results" (clients/grep.ts): the pages of a search that *)
(* came to its end show, together, every match that one page would.          *)
PagesComplete == done => AllShown

=============================================================================
