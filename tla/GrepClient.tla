----------------------------- MODULE GrepClient -----------------------------
(* GrepClient.query (extension/src/clients/grep.ts) over                     *)
(* HTTPClient.streamingFetch (http.ts): text search in the browser, with a   *)
(* cache that turns a repeated search into "load more".  The cache entry of  *)
(* a search holds the `after` of its next page, whether errors occurred, and *)
(* an array of results that every query of the search shares by reference.   *)
(*                                                                           *)
(* One cache key is modelled.  The server is the one the client expects:     *)
(* hits 1 .. Hits in a fixed order, PageSize to a page, and "Resume:" on a   *)
(* full page (module GrepSearch is the server as it is).  A response is the  *)
(* lines of the hits, a blank line, and the footers; it may end anywhere.    *)
EXTENDS Naturals, Sequences, SequencesExt

CONSTANTS
  Queries,       \* calls of query that may overlap
  Hits, PageSize,
  Unparsable,    \* possible sets of hits whose lines the client cannot read
  MaxFetches     \* bound: requests to the server

ASSUME SizesType == Hits \in Nat /\ PageSize \in Nat \ {0} /\ MaxFetches \in Nat
ASSUME HitsType  == Unparsable \subseteq SUBSET (1 .. Hits)

VARIABLES
  cache,     \* the entry without its array
  results,   \* the array of the entry
  fetches,
  query,     \* query -> the state of its call
  reported,  \* query -> what it passed to progress.report, in order
  unparsable,  \* the set of this search; fixed
  flawed,    \* history: pages whose last response had "Errors:"
  emptied,   \* history: the array was emptied while a query was filling it
  late       \* history: errors of a page were read after a later page was begun

history == <<flawed, emptied, late>>
vars    == <<cache, results, fetches, query, reported, unparsable, history>>

Undefined == Hits + 1  \* no page was ever completed; resume = undefined

NoEntry == [resume |-> Undefined, errors |-> FALSE, present |-> FALSE]

(* mutant: the page is counted, not cut *)
PageEndUncut(after) == after + PageSize

PageEnd(after) == IF after + PageSize < Hits THEN after + PageSize ELSE Hits
IsFull(after)  == PageEnd(after) = after + PageSize

Hit(n)    == [kind |-> "hit", n |-> n]
Mark(tag) == [kind |-> tag, n |-> 0]

Lines(after) == [i \in 1 .. (PageEnd(after) - after) |-> Hit(after + i)]

(* The footers that the client reads, in the server's order. *)
Footers(after, errors) ==
  (IF IsFull(after) THEN <<Mark("Resume:")>> ELSE <<>>)
    \o (IF errors THEN <<Mark("Errors:")>> ELSE <<>>)

Response(after, errors) == Lines(after) \o <<Mark("blank")>> \o Footers(after, errors)

Idle == [at |-> "idle", after |-> 0, existing |-> FALSE, response |-> <<>>,
         got |-> {}, errored |-> FALSE, more |-> FALSE, flawed |-> {}]

(* A promise that did not resolve: nothing of its call is used again.  *)
Ended(at) == [Idle EXCEPT !.at = at]

Init ==
  /\ cache = NoEntry /\ results = <<>> /\ fetches = 0
  /\ query = [q \in Queries |-> Idle]
  /\ reported = [q \in Queries |-> <<>>]
  /\ unparsable \in Unparsable
  /\ flawed = {} /\ emptied = FALSE /\ late = FALSE

Begun(after, errors) ==
  [at |-> "streaming", after |-> after, existing |-> cache.errors,
   response |-> Response(after, errors), got |-> {}, errored |-> FALSE,
   more |-> FALSE, flawed |-> {page \in flawed : page < after}]

Fetch(q, after) ==
  /\ fetches' = fetches + 1
  /\ \E errors \in BOOLEAN : query' = [query EXCEPT ![q] = Begun(after, errors)]

CanStart(q) == query[q].at # "streaming" /\ fetches < MaxFetches

StartNew(q) ==
  /\ CanStart(q) /\ ~ cache.present
  /\ cache' = [NoEntry EXCEPT !.present = TRUE]
  /\ reported' = [reported EXCEPT ![q] = <<>>]
  /\ Fetch(q, 0)
  /\ UNCHANGED <<results, unparsable, history>>

(* "Previous request crashed, try again": what it left is reported first.    *)
(* It may also be running still.                                             *)
StartAgain(q) ==
  /\ CanStart(q) /\ cache.present /\ cache.resume = Undefined
  /\ reported' = [reported EXCEPT ![q] = results]
  /\ results' = <<>>
  /\ emptied' = (emptied \/ \E p \in Queries : query[p].at = "streaming")
  /\ Fetch(q, 0)
  /\ UNCHANGED <<cache, unparsable, flawed, late>>

(* "Load next page of results".  The cache never holds null, the mark of a   *)
(* search that completed fully: its last page is fetched again.              *)
StartNext(q) ==
  /\ CanStart(q) /\ cache.present /\ cache.resume # Undefined
  /\ reported' = [reported EXCEPT ![q] = results]
  /\ Fetch(q, cache.resume)
  /\ UNCHANGED <<cache, results, unparsable, history>>

(* The next line of the response.  A match is reported and kept; the context *)
(* lines that are queued with it are left out.                               *)
ReceiveLine(q) ==
  /\ query[q].at = "streaming" /\ query[q].response # <<>>
  /\ LET line == Head(query[q].response)
         rest == [query[q] EXCEPT !.response = Tail(@)]
     IN  \/ /\ line.kind = "hit" /\ line.n \notin unparsable
            /\ query' = [query EXCEPT ![q] = rest]
            /\ reported' = [reported EXCEPT ![q] = Append(@, line.n)]
            /\ results' = Append(results, line.n)
         \/ /\ line.kind # "hit"
            /\ query' = [query EXCEPT ![q] = [rest EXCEPT !.got = @ \cup {line.kind}]]
            /\ UNCHANGED <<reported, results>>
  /\ UNCHANGED <<cache, fetches, unparsable, history>>

(* The server quotes text as Go does, with escapes such as \\v and \\x1b that  *)
(* JSON.parse rejects, and the callback throws out of the browser's promise, *)
(* which then never settles.                                                 *)
CallbackThrows(q) ==
  /\ query[q].at = "streaming" /\ query[q].response # <<>>
  /\ Head(query[q].response) \in {Hit(n) : n \in unparsable}
  /\ query' = [query EXCEPT ![q] = Ended("pending")]
  /\ UNCHANGED <<cache, results, fetches, reported, unparsable, history>>

(* mutant: the errors of the earlier pages are forgotten *)
ErrorsOfThisPage(q) == "Errors:" \in query[q].got

HasErrors(q) == query[q].existing \/ "Errors:" \in query[q].got

(* The stream closed: .then() runs if the footer had begun, else the promise *)
(* is rejected.                                                              *)
Close(q, whole) ==
  LET more == "Resume:" \in query[q].got
      page == query[q].after
  IN  IF "blank" \notin query[q].got
      THEN /\ query' = [query EXCEPT ![q] = Ended("rejected")]
           /\ UNCHANGED <<cache, flawed, late>>
      ELSE /\ query' = [query EXCEPT ![q] =
                          [query[q] EXCEPT !.at = "resolved", !.more = more,
                                           !.errored = HasErrors(q)]]
           /\ \/ /\ more
                 /\ cache' = [NoEntry EXCEPT !.present = TRUE, !.errors = HasErrors(q),
                                             !.resume = PageEnd(page)]
              \/ ~ more /\ UNCHANGED cache
           /\ flawed' = IF "Errors:" \in query[q].got THEN flawed \cup {page}
                        ELSE IF whole \/ more THEN flawed \ {page} ELSE flawed
           /\ late' = (late \/ /\ "Errors:" \in query[q].got
                               /\ \E p \in Queries : /\ query[p].at = "streaming"
                                                     /\ query[p].after > page)

Finish(q) ==
  /\ query[q].at = "streaming" /\ query[q].response = <<>>
  /\ Close(q, TRUE)
  /\ UNCHANGED <<results, fetches, reported, unparsable, emptied>>

(* mutant: the page counts as loaded when its first line arrives *)
TruncateResumes(q) ==
  /\ query[q].at = "streaming" /\ query[q].response # <<>>
  /\ query' = [query EXCEPT ![q] = Ended("rejected")]
  /\ cache' = [NoEntry EXCEPT !.present = TRUE, !.resume = PageEnd(query[q].after)]
  /\ UNCHANGED <<results, fetches, reported, unparsable, history>>

(* The connection is lost, or the search cancelled, before the end.  With    *)
(* Node, and in a browser that sees an end of file, the stream closes; a     *)
(* browser that sees an error leaves the promise pending for ever.           *)
Truncate(q) ==
  /\ query[q].at = "streaming" /\ query[q].response # <<>>
  /\ \/ Close(q, FALSE)
     \/ /\ query' = [query EXCEPT ![q] = Ended("pending")]
        /\ UNCHANGED <<cache, flawed, late>>
  /\ UNCHANGED <<results, fetches, reported, unparsable, emptied>>

Next == \E q \in Queries :
          \/ StartNew(q) \/ StartAgain(q) \/ StartNext(q)
          \/ ReceiveLine(q) \/ CallbackThrows(q) \/ Finish(q) \/ Truncate(q)

Spec == Init /\ [][Next]_vars

-----------------------------------------------------------------------------
TypeOK ==
  /\ cache \in [resume : 0 .. Undefined, errors : BOOLEAN, present : BOOLEAN]
  /\ results \in Seq(1 .. Hits)
  /\ fetches \in 0 .. MaxFetches
  /\ reported \in [Queries -> Seq(1 .. Hits)]
  /\ unparsable \in Unparsable
  /\ flawed \subseteq 0 .. Hits /\ emptied \in BOOLEAN /\ late \in BOOLEAN
  /\ \A q \in Queries :
       /\ query[q].at \in {"idle", "streaming", "resolved", "rejected", "pending"}
       /\ query[q].after \in 0 .. Hits
       /\ query[q].got \subseteq {"blank", "Resume:", "Errors:"}

(* A search that resolved, although its response was perhaps cut in the      *)
(* footers, has reported every hit up to the end of its page, whatever       *)
(* requests failed, hang or still run beside it.  Except when the array was  *)
(* emptied under a running query.                                            *)
NothingLost ==
  ~ emptied =>
    \A q \in Queries :
      query[q].at = "resolved" => 1 .. PageEnd(query[q].after) \subseteq ToSet(reported[q])

(* The warning "Results may be incomplete" does not disappear with the next  *)
(* page: it is shown if any page of the list had errors, although queries    *)
(* that overlap write the cache entry in any order.  Except when the errors  *)
(* of a page came after a query had begun a later page: that query carries   *)
(* what it read from the entry at its start, and overwrites the warning.     *)
ErrorsStay ==
  ~ late =>
    \A q \in Queries :
      query[q].at = "resolved" /\ (query[q].flawed # {} \/ "Errors:" \in query[q].got)
        => query[q].errored

=============================================================================
