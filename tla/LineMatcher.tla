----------------------------- MODULE LineMatcher -----------------------------
(* From the matches of a regexp in a file to ranges in the editor: what      *)
(* Grep.Reader (grep/algorithm.go) prints of a file, and what the client     *)
(* (extension/src/clients/grep.ts) makes of each line that it prints.        *)
(*                                                                           *)
(* A file is [size, newlines, hits]: offsets of its newlines, and a function *)
(* from each offset at which the regexp matches to the end of that match.    *)
(* As the search always goes on from the start of a line, where ^ matches    *)
(* whatever stands before it, `hits` does not depend on where it goes on.    *)
EXTENDS Integers, Sequences, FiniteSetsExt

IsText(f) ==
  /\ f.size \in Nat
  /\ f.newlines \subseteq 0 .. f.size - 1
  /\ DOMAIN f.hits \subseteq 0 .. f.size
  /\ \A s \in DOMAIN f.hits : f.hits[s] \in s .. f.size

(* bytes.LastIndexByte(buf[:i], nl) + 1 *)
LineStart(f, i) == Max({0} \cup {n + 1 : n \in {m \in f.newlines : m < i}})

(* i + bytes.IndexByte(buf[i:], nl), or the end of the file *)
LineEnd(f, i) == Min({f.size} \cup {n \in f.newlines : n >= i})

(* bytes.Count(buf[i:j], nl) *)
Newlines(f, i, j) == Cardinality({n \in f.newlines : i <= n /\ n < j})

(* The lines of context before and after a match: where they start or end,   *)
(* and how many there are.                                                   *)
BeforeContext(f, lineStart, context) ==
  LET back[k \in 0 .. context] ==
        IF k = 0 THEN <<lineStart, 0>>
        ELSE IF back[k - 1][1] = 0 THEN back[k - 1]
        ELSE <<LineStart(f, back[k - 1][1] - 1), back[k - 1][2] + 1>>
  IN  back[context]

AfterContext(f, lineEnd, context) ==
  LET on[k \in 0 .. context] ==
        IF k = 0 THEN <<lineEnd, 0>>
        ELSE IF on[k - 1][1] = f.size THEN on[k - 1]
        ELSE <<LineEnd(f, on[k - 1][1] + 1), on[k - 1][2] + 1>>
  IN  on[context]

(* The line printed of a match, but for the name of the file: `from` and `to` *)
(* delimit the text.  `lineno` is the number of the line at chunkStart.      *)
MatchLine(f, context, chunkStart, lineno, matchStart) ==
  LET matchEnd  == f.hits[matchStart]
      lineStart == LineStart(f, matchStart)
      before    == BeforeContext(f, lineStart, context)
      after     == AfterContext(f, LineEnd(f, matchEnd), context)
  IN  [contextStart  |-> lineno + Newlines(f, chunkStart, lineStart) - before[2],
       beforeContext |-> before[2],
       afterContext  |-> after[2],
       startCol      |-> matchStart - lineStart + 1,
       endCol        |-> matchEnd - LineStart(f, matchEnd) + 1,
       from          |-> before[1],
       to            |-> after[1]]

(* mutant: the search goes on behind the match *)
NextAfterMatch(f, matchStart) ==
  IF f.hits[matchStart] > matchStart THEN f.hits[matchStart] ELSE matchStart + 1

(* "advance to the end of the first line containing the match" *)
NextLine(f, matchStart) ==
  IF LineEnd(f, matchStart) = f.size THEN f.size ELSE LineEnd(f, matchStart) + 1

(* The loop of Grep.Reader, at chunkStart and lineno: the lines printed.      *)
Reader(f, context) ==
  LET search[at \in Nat \X Nat] ==
        LET found == {s \in DOMAIN f.hits : s >= at[1]}
            s     == Min(found)
            next  == NextLine(f, s)
        IN  IF at[1] >= f.size \/ found = {} THEN <<>>
            ELSE <<MatchLine(f, context, at[1], at[2], s)>>
                   \o search[<<next, at[2] + Newlines(f, at[1], next)>>]
  IN  search[<<0, 1>>]

-----------------------------------------------------------------------------
(* grep.ts: the range of a match, as two positions <<line, column>>, which   *)
(* count from 0.                                                             *)

TextLines(f, p) == Newlines(f, p.from, p.to) + 1

(* mutant: the end is taken to be on the line of the start *)
EndLineOfStart(f, p) == p.contextStart + p.beforeContext

EndLine(f, p) == p.contextStart + TextLines(f, p) - p.afterContext - 1

ClientRange(f, p) ==
  << <<p.contextStart + p.beforeContext - 1, p.startCol - 1>>,
     <<EndLine(f, p) - 1, p.endCol - 1>> >>

(* The numbers under which it queues the context lines. *)
ClientContext(f, p) ==
  {p.contextStart + i : i \in 0 .. TextLines(f, p) - 1}
    \ ((p.contextStart + p.beforeContext) .. EndLine(f, p))

-----------------------------------------------------------------------------
(* What is expected, from the file alone. *)

Position(f, i) == <<Newlines(f, 0, i), i - LineStart(f, i)>>

RangeOf(f, s) == <<Position(f, s), Position(f, f.hits[s])>>

(* The first match of each line, but for the empty line behind the last      *)
(* newline, which is searched only if the line before it had no match.       *)
FirstOfLine(f) ==
  {s \in DOMAIN f.hits : \A t \in DOMAIN f.hits : LineStart(f, t) = LineStart(f, s) => s <= t}

Required(f) == {s \in FirstOfLine(f) : LineStart(f, s) < f.size}

(* Lines 1 .. LastLine, and those within the distance from the match. *)
LastLine(f) == Newlines(f, 0, f.size) + 1

ContextLines(f, s, context) ==
  LET first == RangeOf(f, s)[1][1] + 1
      last  == RangeOf(f, s)[2][1] + 1
  IN  {n \in 1 .. LastLine(f) : \/ n < first /\ n >= first - context
                                \/ n > last /\ n <= last + context}
=============================================================================
